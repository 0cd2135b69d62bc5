----------------------------- MODULE Sx1278Proofs ------------------------------
(***************************************************************************)
(* Proofs about the radio driver and the chip, for every set of frames,    *)
(* every FIFO that holds one and every timeout.                            *)
(***************************************************************************)
EXTENDS Sx1278, SequenceTheorems, TLAPS

--------------------------------------------------------------------------------
(* The inductive invariant.                                                *)

Sending == {"txPoll", "txCheck", "txClear", "txStandby"}
Steps   == {"reset", "cfgSleep", "idle"} \cup Config \cup Entry \cup Sending
             \cup Arming \cup Reading
Flags   == {RxDone, TxDone}
Addrs   == 0..(FifoSize - 1)
Contents == {NoByte} \cup { <<f, i>> : f \in Frames, i \in 1..FifoSize }

Registers ==
  [LongRange : BOOLEAN, OpMode : {SLEEP, STANDBY, RX, TX},
   Settings : {"default", "configured"}, PaDac : {"normal", "20dBm"},
   DioMapping1 : Flags, Unmasked : SUBSET Flags, PayloadLength : Nat,
   FifoAddrPtr : Addrs, RxCurrentAddr : Addrs, RxNbBytes : 0..FifoSize]

Incomings == [frame : Frames, start : Addrs, stored : 0..FifoSize]

ChipTypes ==
  /\ reg \in Registers /\ irq \subseteq Flags
  /\ fifo \in [Addrs -> Contents] /\ rxNext \in Addrs
  /\ incoming # NotReceiving =>
       /\ incoming \in Incomings /\ incoming.stored <= Length[incoming.frame]
       /\ incoming.start = rxNext

DriverTypes ==
  /\ pc \in Steps /\ ret \in {"idle", "txSetup"}
  /\ packetSize \in 0..FifoSize /\ rxBuffer \in Seq(Contents)
  /\ armed \in BOOLEAN /\ last \in Frames \cup {NoFrame}

\* Each step of the driver finds the chip in the mode it relies on; the caller's
\* flag is up only while the chip listens.
ModeFitsStep ==
  /\ pc = "cfgSleep" => reg.OpMode = STANDBY
  /\ pc \in Config => reg.OpMode = SLEEP
  /\ pc \in Entry \cup Arming => reg.OpMode = STANDBY
  /\ pc \in Sending => reg.OpMode \in {STANDBY, TX}
  /\ pc \in Reading => armed
  /\ armed => reg.OpMode = RX /\ pc \in {"idle"} \cup Reading
  /\ incoming # NotReceiving => reg.OpMode = RX
  /\ ret = "txSetup" => pc \in Config

\* What has been configured by each step of the driver.
ConfiguredByStep ==
  /\ pc \notin {"reset", "cfgSleep", "cfgLoRa"} => reg.LongRange
  /\ pc \notin {"reset", "cfgSleep", "cfgLoRa", "cfgSettings"} =>
       reg.Settings = "configured"
  /\ reg.OpMode \in {RX, TX} => reg.LongRange /\ reg.Settings = "configured"

SetToReceive ==
  /\ reg.PaDac = "normal" /\ reg.DioMapping1 = RxDone /\ reg.Unmasked = {RxDone}

SetToSend ==
  /\ reg.PaDac = "20dBm" /\ reg.DioMapping1 = TxDone /\ reg.Unmasked = {TxDone}
  /\ reg.PayloadLength = Length[txFrame]

SetForDirection ==
  /\ reg.OpMode = RX \/ pc = "rxGo" => SetToReceive
  /\ pc = "rxGo" => irq = {}
  /\ reg.OpMode = TX \/ pc \in {"txPointer", "txLoad", "txGo"} => SetToSend
  /\ reg.OpMode = TX \/ pc \in Entry \/ ret = "txSetup" => txFrame \in Uplinks
  /\ pc = "txLoad" => reg.FifoAddrPtr = TxBase

\* The cell j places after the address a.
Cell(a, j) == (a + j) % FifoSize

Holds(a, f, n) == \A j \in 0..(FifoSize - 1) :
                    j < n => fifo[Cell(a, j)] = <<f, j + 1>>

\* The frame to send is in the transmitter's half when the transmitter starts.
UplinkIsLoaded ==
  reg.OpMode = TX \/ pc = "txGo" => Holds(TxBase, txFrame, Length[txFrame])

\* The stored part of the incoming frame is in the FIFO.
IncomingIsStored ==
  incoming # NotReceiving =>
    Holds(incoming.start, incoming.frame, incoming.stored)

\* The byte is not the end of a frame that did not come in since the receiver was
\* armed.
Fresh(byte, frames) ==
  \A f \in Decodable : byte = <<f, Length[f]>> => f \in frames

FreshCells(a, n) == \A j \in Nat : j < n => Fresh(fifo[Cell(a, j)], CameIn)

\* Among the bytes the driver has read and will read nothing is left over from
\* before the receiver was armed.
NothingHandedOverStale ==
  /\ armed /\ pc \in {"idle", "rxAddr"} /\ RxDone \in irq =>
       /\ FreshCells(reg.RxCurrentAddr, reg.RxNbBytes)
       /\ Cell(reg.RxCurrentAddr, reg.RxNbBytes) = rxNext
  /\ pc \in {"rxAddr", "rxSize"} => rxBuffer = << >>
  /\ pc = "rxAddr" => RxDone \in irq
  /\ pc = "rxSize" =>
       \E k \in Nat : /\ reg.RxNbBytes <= k /\ FreshCells(reg.FifoAddrPtr, k)
                      /\ Cell(reg.FifoAddrPtr, k) = rxNext
  /\ pc = "rxBurst" =>
       /\ Len(rxBuffer) < packetSize /\ packetSize > 1
       /\ FreshCells(reg.FifoAddrPtr, packetSize)
  /\ pc = "rxBurst" \/ (pc = "rxClear" /\ Len(rxBuffer) > 1) =>
       \A i \in 1..Len(rxBuffer) : Fresh(rxBuffer[i], CameIn)

\* Until anything is stored after it, the last frame is where the driver looks, and
\* what has been read of it is right.
LastIsRead ==
  last # NoFrame =>
    /\ armed /\ reg.RxNbBytes = Length[last]
    /\ Holds(reg.RxCurrentAddr, last, Length[last])
    /\ pc \in {"rxSize", "rxBurst"} => reg.FifoAddrPtr = reg.RxCurrentAddr
    /\ pc = "rxBurst" => packetSize = Length[last]
    /\ pc = "rxBurst" => \A i \in 1..Len(rxBuffer) : rxBuffer[i] = <<last, i>>
    /\ pc = "rxClear" =>
         rxBuffer = IF Length[last] <= 1 THEN Unread(Length[last]) ELSE Bytes(last)

IndInv ==
  /\ ChipTypes
  /\ DriverTypes
  /\ ModeFitsStep
  /\ ConfiguredByStep
  /\ SetForDirection
  /\ UplinkIsLoaded
  /\ IncomingIsStored
  /\ NothingHandedOverStale
  /\ LastIsRead

--------------------------------------------------------------------------------
(* The cells of the FIFO.                                                  *)

LEMMA CellInRange ==
  ASSUME NEW a \in Int, NEW j \in Int PROVE Cell(a, j) \in Addrs
  BY FifoAssumption DEF Cell, Addrs

\* Within one round no cell is met twice.
LEMMA CellsDiffer ==
  ASSUME NEW a \in Addrs, NEW i \in Addrs, NEW j \in Addrs, i # j
  PROVE  Cell(a, i) # Cell(a, j)
<1>1. /\ Cell(a, i) = IF a + i < FifoSize THEN a + i ELSE a + i - FifoSize
      /\ Cell(a, j) = IF a + j < FifoSize THEN a + j ELSE a + j - FifoSize
  BY FifoAssumption DEF Cell, Addrs
<1> QED BY <1>1, FifoAssumption DEF Addrs

LEMMA CellOffset ==
  ASSUME NEW a \in Addrs, NEW j \in Addrs
  PROVE  (Cell(a, j) - a) % FifoSize = j
<1>1. Cell(a, j) = IF a + j < FifoSize THEN a + j ELSE a + j - FifoSize
  BY FifoAssumption DEF Cell, Addrs
<1> QED BY <1>1, FifoAssumption DEF Addrs

LEMMA RemainderIs ==
  ASSUME NEW m \in Nat \ {0}, NEW q \in Int, NEW r \in 0..(m - 1)
  PROVE  (q * m + r) % m = r
  OBVIOUS

\* A place counted from a place.
LEMMA CellAfterCell ==
  ASSUME NEW a \in Int, NEW i \in Int, NEW j \in Int
  PROVE  Cell(Cell(a, i), j) = Cell(a, i + j)
<1> DEFINE m == FifoSize
           c == (a + i) % m
           d == (c + j) % m
           p == (a + i) \div m
           q == (c + j) \div m
<1>1. m \in Nat \ {0}
  BY FifoAssumption
<1>2. a + i = p * m + c /\ c \in 0..(m - 1) /\ p \in Int
  BY <1>1
<1>3. c + j = q * m + d /\ d \in 0..(m - 1) /\ q \in Int
  BY <1>1, <1>2
<1> HIDE DEF c, d, p, q
<1>4. a + (i + j) = (p + q) * m + d
  BY <1>1, <1>2, <1>3
<1>5. (a + (i + j)) % m = d
  <2>1. p + q \in Int
    BY <1>2, <1>3
  <2>2. ((p + q) * m + d) % m = d
    BY <1>1, <1>3, <2>1, RemainderIs
  <2> QED BY <1>4, <2>2
<1> QED BY <1>5 DEF Cell, c, d

--------------------------------------------------------------------------------
(* The invariant holds initially and every step keeps it.                  *)

USE DEF SLEEP, STANDBY, RX, TX, RxDone, TxDone, Config, Entry, Arming, Reading,
        Sending, Flags, Steps, Addrs, Registers,
        chipVars, txVars, rxVars, historyVars

LEMMA Constants ==
  /\ FifoSize \in Nat \ {0} /\ TxBase \in Addrs
  /\ \A f \in Frames : Length[f] \in 0..FifoSize
  /\ \A f \in Uplinks : f \in Frames /\ f # NoFrame
  /\ NoFrame \notin Frames
  BY FifoAssumption

LEMMA NothingRead == << >> \in Seq(Contents) /\ Len(<< >>) = 0
  OBVIOUS

LEMMA SequenceAsFunction ==
  ASSUME NEW S, NEW s \in Seq(S) PROVE s = [i \in 1..Len(s) |-> s[i]]
  BY LenProperties

LEMMA UnreadTyped ==
  ASSUME NEW n \in 0..1 PROVE Unread(n) \in Seq(Contents) /\ Len(Unread(n)) = n
  BY DEF Unread, Contents

\* A write of RegOpMode keeps the chip's types.
LEMMA ModeWritten ==
  ASSUME ChipTypes, NEW mode \in {SLEEP, STANDBY, RX, TX}, NEW longRange \in BOOLEAN,
         WriteOpMode(mode, longRange), irq' = irq
  PROVE  ChipTypes'
<1>1. reg' \in Registers
  BY DEF ChipTypes, WriteOpMode
<1>2. fifo' \in [Addrs -> Contents]
  BY DEF ChipTypes, WriteOpMode, EmptyFifo, Contents
<1>3. rxNext' \in Addrs
  BY Constants DEF ChipTypes, WriteOpMode
<1>4. incoming' = NotReceiving
  BY DEF WriteOpMode
<1> QED BY <1>1, <1>2, <1>3, <1>4 DEF ChipTypes

\* What came in stays so while the receiver is armed.
Stores == ChipHearsFrame \/ ChipStoresByte \/ ChipEndsFrame

LEMMA CameInGrows ==
  ASSUME IndInv, armed, Stores PROVE CameIn \subseteq CameIn'
<1>1. CASE ChipHearsFrame
  BY <1>1, Constants DEF ChipHearsFrame, NotReceiving, CameIn, Decodable
<1>2. CASE ChipStoresByte
  BY <1>2, Constants DEF ChipStoresByte, CameIn, IndInv, ChipTypes, Incomings
<1>3. CASE ChipEndsFrame
  BY <1>3 DEF ChipEndsFrame, CameIn
<1> QED BY <1>1, <1>2, <1>3 DEF Stores

LEMMA FreshStays ==
  ASSUME IndInv, armed, Stores, NEW byte, Fresh(byte, CameIn)
  PROVE  Fresh(byte, CameIn')
  BY CameInGrows DEF Fresh

LEMMA CellStaysFresh ==
  ASSUME IndInv, armed, Stores, NEW c \in Addrs, Fresh(fifo[c], CameIn)
  PROVE  Fresh(fifo'[c], CameIn')
<1>1. Fresh(fifo[c], CameIn')
  BY CameInGrows DEF Fresh
<1>2. CASE fifo'[c] = fifo[c]
  BY <1>1, <1>2
<1>3. CASE fifo'[c] # fifo[c]
  <2>1. /\ ChipStoresByte
        /\ fifo'[c] = <<incoming.frame, incoming.stored + 1>>
    BY <1>3 DEF Stores, ChipHearsFrame, ChipStoresByte, ChipEndsFrame, IndInv,
                ChipTypes
  <2>2. ASSUME NEW f \in Decodable, fifo'[c] = <<f, Length[f]>>
        PROVE  f \in CameIn'
    <3>1. f = incoming.frame /\ Length[f] = incoming.stored + 1
      BY <2>1, <2>2
    <3>2. incoming'.frame = f /\ incoming'.stored = Length[f]
      BY <2>1, <3>1 DEF ChipStoresByte, IndInv, ChipTypes, Incomings
    <3> QED BY <3>2 DEF CameIn
  <2> QED BY <2>2 DEF Fresh
<1> QED BY <1>2, <1>3

LEMMA CellsStayFresh ==
  ASSUME IndInv, armed, Stores, NEW a \in Addrs, NEW n, FreshCells(a, n)
  PROVE  \A j \in Nat : j < n => Fresh(fifo'[Cell(a, j)], CameIn')
<1> TAKE j \in Nat
<1> HAVE j < n
<1>1. Cell(a, j) \in Addrs
  BY CellInRange
<1>2. Fresh(fifo[Cell(a, j)], CameIn)
  BY DEF FreshCells
<1> QED BY ONLY IndInv, armed, Stores, <1>1, <1>2, CellStaysFresh

\* A frame that is stored to its end is fresh.
LEMMA StoredIsFresh ==
  ASSUME IndInv, armed, ChipEndsFrame
  PROVE  \A j \in Nat : j < incoming.stored =>
            Fresh(fifo[Cell(incoming.start, j)], CameIn')
<1> TAKE j \in Nat
<1> HAVE j < incoming.stored
<1>1. incoming \in Incomings /\ j \in Addrs
  BY Constants DEF ChipEndsFrame, IndInv, ChipTypes, Incomings
<1>2. fifo[Cell(incoming.start, j)] = <<incoming.frame, j + 1>>
  BY <1>1 DEF ChipEndsFrame, IndInv, IncomingIsStored, Holds
<1>3. incoming.frame \in Decodable => incoming.frame \in CameIn'
  BY DEF ChipEndsFrame, CameIn
<1> QED BY <1>2, <1>3 DEF Fresh

LEMMA HardwareResetKeeps == ASSUME IndInv, HardwareReset PROVE IndInv'
<1> USE DEF HardwareReset, PowerOn, EmptyFifo, Step
<1>1. ChipTypes'
  <2>1. PowerOn \in Registers
    BY Constants
  <2>2. EmptyFifo \in [Addrs -> Contents]
    BY DEF Contents
  <2> QED BY <2>1, <2>2, Constants DEF IndInv, ChipTypes
<1>2. DriverTypes'
  BY FifoAssumption DEF IndInv, DriverTypes
<1>3. ModeFitsStep'
  BY FifoAssumption DEF IndInv, ModeFitsStep, ChipTypes, DriverTypes
<1>4. ConfiguredByStep'
  BY FifoAssumption DEF IndInv, ConfiguredByStep, ModeFitsStep, ChipTypes
<1>5. SetForDirection'
  BY FifoAssumption
     DEF IndInv, SetForDirection, SetToReceive, SetToSend, ModeFitsStep, ChipTypes,
         DriverTypes
<1>6. UplinkIsLoaded'
  BY FifoAssumption
     DEF IndInv, UplinkIsLoaded, Holds, ModeFitsStep, SetForDirection, ChipTypes
<1>7. IncomingIsStored'
  BY FifoAssumption DEF IndInv, IncomingIsStored, Holds, ModeFitsStep
<1>8. NothingHandedOverStale'
  BY FifoAssumption
     DEF IndInv, NothingHandedOverStale, FreshCells, Fresh, CameIn, ModeFitsStep,
         ConfiguredByStep, ChipTypes
<1>9. LastIsRead'
  BY FifoAssumption DEF IndInv, LastIsRead, Holds, ModeFitsStep, ChipTypes
<1> QED BY <1>1, <1>2, <1>3, <1>4, <1>5, <1>6, <1>7, <1>8, <1>9 DEF IndInv

LEMMA ConfigSleepKeeps == ASSUME IndInv, ConfigSleep PROVE IndInv'
<1> USE DEF ConfigSleep, EnterSleep, WriteOpMode, EmptyFifo, Step
<1>1. ChipTypes'
  <2>1. ChipTypes /\ WriteOpMode(SLEEP, reg.LongRange) /\ irq' = irq
    BY DEF IndInv
  <2>2. reg.LongRange \in BOOLEAN
    BY <2>1 DEF ChipTypes
  <2> QED BY ONLY <2>1, <2>2, ModeWritten
<1>2. DriverTypes'
  BY FifoAssumption DEF IndInv, DriverTypes
<1>3. ModeFitsStep'
  BY FifoAssumption DEF IndInv, ModeFitsStep, ChipTypes, DriverTypes
<1>4. ConfiguredByStep'
  BY FifoAssumption DEF IndInv, ConfiguredByStep, ModeFitsStep, ChipTypes
<1>5. SetForDirection'
  BY FifoAssumption
     DEF IndInv, SetForDirection, SetToReceive, SetToSend, ModeFitsStep, ChipTypes,
         DriverTypes
<1>6. UplinkIsLoaded'
  BY FifoAssumption
     DEF IndInv, UplinkIsLoaded, Holds, ModeFitsStep, SetForDirection, ChipTypes
<1>7. IncomingIsStored'
  BY FifoAssumption DEF IndInv, IncomingIsStored, Holds, ModeFitsStep
<1>8. NothingHandedOverStale'
  BY FifoAssumption
     DEF IndInv, NothingHandedOverStale, FreshCells, Fresh, CameIn, ModeFitsStep,
         ConfiguredByStep, ChipTypes
<1>9. LastIsRead'
  BY FifoAssumption DEF IndInv, LastIsRead, Holds, ModeFitsStep, ChipTypes
<1> QED BY <1>1, <1>2, <1>3, <1>4, <1>5, <1>6, <1>7, <1>8, <1>9 DEF IndInv

LEMMA ConfigLoRaKeeps == ASSUME IndInv, ConfigLoRa PROVE IndInv'
<1> USE DEF ConfigLoRa, WriteOpMode, EmptyFifo, Step
<1>1. ChipTypes'
  <2>1. ChipTypes /\ WriteOpMode(SLEEP, TRUE) /\ irq' = irq
    BY DEF IndInv
  <2> QED BY ONLY <2>1, ModeWritten
<1>2. DriverTypes'
  BY FifoAssumption DEF IndInv, DriverTypes
<1>3. ModeFitsStep'
  BY FifoAssumption DEF IndInv, ModeFitsStep, ChipTypes, DriverTypes
<1>4. ConfiguredByStep'
  BY FifoAssumption DEF IndInv, ConfiguredByStep, ModeFitsStep, ChipTypes
<1>5. SetForDirection'
  BY FifoAssumption
     DEF IndInv, SetForDirection, SetToReceive, SetToSend, ModeFitsStep, ChipTypes,
         DriverTypes
<1>6. UplinkIsLoaded'
  BY FifoAssumption
     DEF IndInv, UplinkIsLoaded, Holds, ModeFitsStep, SetForDirection, ChipTypes
<1>7. IncomingIsStored'
  BY FifoAssumption DEF IndInv, IncomingIsStored, Holds, ModeFitsStep
<1>8. NothingHandedOverStale'
  BY FifoAssumption
     DEF IndInv, NothingHandedOverStale, FreshCells, Fresh, CameIn, ModeFitsStep,
         ConfiguredByStep, ChipTypes
<1>9. LastIsRead'
  BY FifoAssumption DEF IndInv, LastIsRead, Holds, ModeFitsStep, ChipTypes
<1> QED BY <1>1, <1>2, <1>3, <1>4, <1>5, <1>6, <1>7, <1>8, <1>9 DEF IndInv

LEMMA ConfigSettingsKeeps == ASSUME IndInv, ConfigSettings PROVE IndInv'
<1> USE DEF ConfigSettings, Write, Step
<1>1. ChipTypes'
  BY FifoAssumption DEF IndInv, ChipTypes
<1>2. DriverTypes'
  BY FifoAssumption DEF IndInv, DriverTypes
<1>3. ModeFitsStep'
  BY FifoAssumption DEF IndInv, ModeFitsStep, ChipTypes, DriverTypes
<1>4. ConfiguredByStep'
  BY FifoAssumption DEF IndInv, ConfiguredByStep, ModeFitsStep, ChipTypes
<1>5. SetForDirection'
  BY FifoAssumption
     DEF IndInv, SetForDirection, SetToReceive, SetToSend, ModeFitsStep, ChipTypes,
         DriverTypes
<1>6. UplinkIsLoaded'
  BY FifoAssumption
     DEF IndInv, UplinkIsLoaded, Holds, ModeFitsStep, SetForDirection, ChipTypes
<1>7. IncomingIsStored'
  BY FifoAssumption DEF IndInv, IncomingIsStored, Holds, ModeFitsStep
<1>8. NothingHandedOverStale'
  BY FifoAssumption
     DEF IndInv, NothingHandedOverStale, FreshCells, Fresh, CameIn, ModeFitsStep,
         ConfiguredByStep, ChipTypes
<1>9. LastIsRead'
  BY FifoAssumption DEF IndInv, LastIsRead, Holds, ModeFitsStep, ChipTypes
<1> QED BY <1>1, <1>2, <1>3, <1>4, <1>5, <1>6, <1>7, <1>8, <1>9 DEF IndInv

LEMMA ConfigStandbyKeeps == ASSUME IndInv, ConfigStandby PROVE IndInv'
<1> USE DEF ConfigStandby, WriteOpMode
<1>1. ChipTypes'
  <2>1. ChipTypes /\ WriteOpMode(STANDBY, reg.LongRange) /\ irq' = irq
    BY DEF IndInv
  <2>2. reg.LongRange \in BOOLEAN
    BY <2>1 DEF ChipTypes
  <2> QED BY ONLY <2>1, <2>2, ModeWritten
<1>2. DriverTypes'
  BY FifoAssumption DEF IndInv, DriverTypes
<1>3. ModeFitsStep'
  BY FifoAssumption DEF IndInv, ModeFitsStep, ChipTypes, DriverTypes
<1>4. ConfiguredByStep'
  BY FifoAssumption DEF IndInv, ConfiguredByStep, ModeFitsStep, ChipTypes
<1>5. SetForDirection'
  BY FifoAssumption
     DEF IndInv, SetForDirection, SetToReceive, SetToSend, ModeFitsStep, ChipTypes,
         DriverTypes
<1>6. UplinkIsLoaded'
  BY DEF IndInv, UplinkIsLoaded, ModeFitsStep, DriverTypes, ChipTypes
<1>7. IncomingIsStored'
  BY FifoAssumption DEF IndInv, IncomingIsStored, Holds, ModeFitsStep
<1>8. NothingHandedOverStale'
  BY DEF IndInv, NothingHandedOverStale, ModeFitsStep, DriverTypes
<1>9. LastIsRead'
  BY FifoAssumption DEF IndInv, LastIsRead, Holds, ModeFitsStep, ChipTypes
<1> QED BY <1>1, <1>2, <1>3, <1>4, <1>5, <1>6, <1>7, <1>8, <1>9 DEF IndInv

LEMMA TxSetupKeeps == ASSUME IndInv, TxSetup PROVE IndInv'
<1> USE DEF TxSetup, Step
<1>1. ChipTypes'
  <2>1. Length[txFrame] \in Nat
    BY Constants DEF IndInv, SetForDirection
  <2>2. reg' \in Registers
    BY <2>1 DEF IndInv, ChipTypes
  <2> QED BY <2>2 DEF IndInv, ChipTypes
<1>2. DriverTypes'
  BY FifoAssumption DEF IndInv, DriverTypes
<1>3. ModeFitsStep'
  BY FifoAssumption DEF IndInv, ModeFitsStep, ChipTypes, DriverTypes
<1>4. ConfiguredByStep'
  BY FifoAssumption DEF IndInv, ConfiguredByStep, ModeFitsStep, ChipTypes
<1>5. SetForDirection'
  BY FifoAssumption
     DEF IndInv, SetForDirection, SetToReceive, SetToSend, ModeFitsStep, ChipTypes,
         DriverTypes
<1>6. UplinkIsLoaded'
  BY FifoAssumption
     DEF IndInv, UplinkIsLoaded, Holds, ModeFitsStep, SetForDirection, ChipTypes
<1>7. IncomingIsStored'
  BY FifoAssumption DEF IndInv, IncomingIsStored, Holds, ModeFitsStep
<1>8. NothingHandedOverStale'
  BY FifoAssumption
     DEF IndInv, NothingHandedOverStale, FreshCells, Fresh, CameIn, ModeFitsStep,
         ConfiguredByStep, ChipTypes
<1>9. LastIsRead'
  BY FifoAssumption DEF IndInv, LastIsRead, Holds, ModeFitsStep, ChipTypes
<1> QED BY <1>1, <1>2, <1>3, <1>4, <1>5, <1>6, <1>7, <1>8, <1>9 DEF IndInv

LEMMA TxPointerKeeps == ASSUME IndInv, TxPointer PROVE IndInv'
<1> USE DEF TxPointer, Write
<1>1. ChipTypes'
  BY FifoAssumption DEF IndInv, ChipTypes
<1>2. DriverTypes'
  BY FifoAssumption DEF IndInv, DriverTypes
<1>3. ModeFitsStep'
  BY FifoAssumption DEF IndInv, ModeFitsStep, ChipTypes, DriverTypes
<1>4. ConfiguredByStep'
  BY FifoAssumption DEF IndInv, ConfiguredByStep, ModeFitsStep, ChipTypes
<1>5. SetForDirection'
  BY FifoAssumption
     DEF IndInv, SetForDirection, SetToReceive, SetToSend, ModeFitsStep, ChipTypes,
         DriverTypes
<1>6. UplinkIsLoaded'
  BY FifoAssumption
     DEF IndInv, UplinkIsLoaded, Holds, ModeFitsStep, SetForDirection, ChipTypes
<1>7. IncomingIsStored'
  BY FifoAssumption DEF IndInv, IncomingIsStored, Holds, ModeFitsStep
<1>8. NothingHandedOverStale'
  BY FifoAssumption
     DEF IndInv, NothingHandedOverStale, FreshCells, Fresh, CameIn, ModeFitsStep,
         ConfiguredByStep, ChipTypes
<1>9. LastIsRead'
  BY FifoAssumption DEF IndInv, LastIsRead, Holds, ModeFitsStep, ChipTypes
<1> QED BY <1>1, <1>2, <1>3, <1>4, <1>5, <1>6, <1>7, <1>8, <1>9 DEF IndInv

LEMMA TxLoadKeeps == ASSUME IndInv, TxLoad PROVE IndInv'
<1> USE DEF TxLoad, Step
<1>1. ChipTypes'
  <2>1. txFrame \in Frames
    BY Constants DEF IndInv, SetForDirection
  <2>2. fifo' \in [Addrs -> Contents]
    BY <2>1, Constants DEF IndInv, ChipTypes, Contents
  <2> QED BY <2>2 DEF IndInv, ChipTypes
<1>2. DriverTypes'
  BY FifoAssumption DEF IndInv, DriverTypes
<1>3. ModeFitsStep'
  BY FifoAssumption DEF IndInv, ModeFitsStep, ChipTypes, DriverTypes
<1>4. ConfiguredByStep'
  BY FifoAssumption DEF IndInv, ConfiguredByStep, ModeFitsStep, ChipTypes
<1>5. SetForDirection'
  BY FifoAssumption
     DEF IndInv, SetForDirection, SetToReceive, SetToSend, ModeFitsStep, ChipTypes,
         DriverTypes
<1>6. UplinkIsLoaded'
  <2>1. /\ txFrame \in Frames /\ reg.FifoAddrPtr = TxBase
        /\ reg.OpMode = STANDBY /\ DOMAIN fifo = Addrs
    BY Constants DEF IndInv, SetForDirection, ModeFitsStep, ChipTypes
  <2>2. ASSUME NEW j \in Addrs, j < Length[txFrame]
        PROVE  fifo'[Cell(TxBase, j)] = <<txFrame, j + 1>>
    <3>1. /\ Cell(TxBase, j) \in Addrs
          /\ (Cell(TxBase, j) - TxBase) % FifoSize = j
      BY Constants, CellInRange, CellOffset
    <3>2. j + 1 \in 1..Length[txFrame]
      BY <2>1, <2>2, Constants
    <3> QED BY <2>1, <3>1, <3>2
  <2> QED BY <2>1, <2>2 DEF UplinkIsLoaded, Holds
<1>7. IncomingIsStored'
  BY FifoAssumption DEF IndInv, IncomingIsStored, Holds, ModeFitsStep
<1>8. NothingHandedOverStale'
  BY FifoAssumption
     DEF IndInv, NothingHandedOverStale, FreshCells, Fresh, CameIn, ModeFitsStep,
         ConfiguredByStep, ChipTypes
<1>9. LastIsRead'
  BY FifoAssumption DEF IndInv, LastIsRead, Holds, ModeFitsStep, ChipTypes
<1> QED BY <1>1, <1>2, <1>3, <1>4, <1>5, <1>6, <1>7, <1>8, <1>9 DEF IndInv

LEMMA TxGoKeeps == ASSUME IndInv, TxGo PROVE IndInv'
<1> USE DEF TxGo, WriteOpMode, Step
<1>1. ChipTypes'
  <2>1. ChipTypes /\ WriteOpMode(TX, TRUE) /\ irq' = irq
    BY DEF IndInv
  <2> QED BY ONLY <2>1, ModeWritten
<1>2. DriverTypes'
  BY FifoAssumption DEF IndInv, DriverTypes
<1>3. ModeFitsStep'
  BY FifoAssumption DEF IndInv, ModeFitsStep, ChipTypes, DriverTypes
<1>4. ConfiguredByStep'
  BY FifoAssumption DEF IndInv, ConfiguredByStep, ModeFitsStep, ChipTypes
<1>5. SetForDirection'
  BY FifoAssumption
     DEF IndInv, SetForDirection, SetToReceive, SetToSend, ModeFitsStep, ChipTypes,
         DriverTypes
<1>6. UplinkIsLoaded'
  BY FifoAssumption
     DEF IndInv, UplinkIsLoaded, Holds, ModeFitsStep, SetForDirection, ChipTypes
<1>7. IncomingIsStored'
  BY FifoAssumption DEF IndInv, IncomingIsStored, Holds, ModeFitsStep
<1>8. NothingHandedOverStale'
  BY FifoAssumption
     DEF IndInv, NothingHandedOverStale, FreshCells, Fresh, CameIn, ModeFitsStep,
         ConfiguredByStep, ChipTypes
<1>9. LastIsRead'
  BY FifoAssumption DEF IndInv, LastIsRead, Holds, ModeFitsStep, ChipTypes
<1> QED BY <1>1, <1>2, <1>3, <1>4, <1>5, <1>6, <1>7, <1>8, <1>9 DEF IndInv

LEMMA TxPollKeeps == ASSUME IndInv, TxPoll PROVE IndInv'
<1> USE DEF TxPoll
<1>1. ChipTypes'
  BY FifoAssumption DEF IndInv, ChipTypes
<1>2. DriverTypes'
  BY FifoAssumption DEF IndInv, DriverTypes
<1>3. ModeFitsStep'
  BY FifoAssumption DEF IndInv, ModeFitsStep, ChipTypes, DriverTypes
<1>4. ConfiguredByStep'
  BY FifoAssumption DEF IndInv, ConfiguredByStep, ModeFitsStep, ChipTypes
<1>5. SetForDirection'
  BY FifoAssumption
     DEF IndInv, SetForDirection, SetToReceive, SetToSend, ModeFitsStep, ChipTypes,
         DriverTypes
<1>6. UplinkIsLoaded'
  BY FifoAssumption
     DEF IndInv, UplinkIsLoaded, Holds, ModeFitsStep, SetForDirection, ChipTypes
<1>7. IncomingIsStored'
  BY FifoAssumption DEF IndInv, IncomingIsStored, Holds, ModeFitsStep
<1>8. NothingHandedOverStale'
  BY FifoAssumption
     DEF IndInv, NothingHandedOverStale, FreshCells, Fresh, CameIn, ModeFitsStep,
         ConfiguredByStep, ChipTypes
<1>9. LastIsRead'
  BY FifoAssumption DEF IndInv, LastIsRead, Holds, ModeFitsStep, ChipTypes
<1> QED BY <1>1, <1>2, <1>3, <1>4, <1>5, <1>6, <1>7, <1>8, <1>9 DEF IndInv

LEMMA TxCheckKeeps == ASSUME IndInv, TxCheck PROVE IndInv'
<1> USE DEF TxCheck
<1>1. ChipTypes'
  BY FifoAssumption DEF IndInv, ChipTypes
<1>2. DriverTypes'
  BY FifoAssumption DEF IndInv, DriverTypes
<1>3. ModeFitsStep'
  BY FifoAssumption DEF IndInv, ModeFitsStep, ChipTypes, DriverTypes
<1>4. ConfiguredByStep'
  BY FifoAssumption DEF IndInv, ConfiguredByStep, ModeFitsStep, ChipTypes
<1>5. SetForDirection'
  BY FifoAssumption
     DEF IndInv, SetForDirection, SetToReceive, SetToSend, ModeFitsStep, ChipTypes,
         DriverTypes
<1>6. UplinkIsLoaded'
  BY FifoAssumption
     DEF IndInv, UplinkIsLoaded, Holds, ModeFitsStep, SetForDirection, ChipTypes
<1>7. IncomingIsStored'
  BY FifoAssumption DEF IndInv, IncomingIsStored, Holds, ModeFitsStep
<1>8. NothingHandedOverStale'
  BY FifoAssumption
     DEF IndInv, NothingHandedOverStale, FreshCells, Fresh, CameIn, ModeFitsStep,
         ConfiguredByStep, ChipTypes
<1>9. LastIsRead'
  BY FifoAssumption DEF IndInv, LastIsRead, Holds, ModeFitsStep, ChipTypes
<1> QED BY <1>1, <1>2, <1>3, <1>4, <1>5, <1>6, <1>7, <1>8, <1>9 DEF IndInv

LEMMA TxClearKeeps == ASSUME IndInv, TxClear PROVE IndInv'
<1> USE DEF TxClear, Step
<1>1. ChipTypes'
  BY FifoAssumption DEF IndInv, ChipTypes
<1>2. DriverTypes'
  BY FifoAssumption DEF IndInv, DriverTypes
<1>3. ModeFitsStep'
  BY FifoAssumption DEF IndInv, ModeFitsStep, ChipTypes, DriverTypes
<1>4. ConfiguredByStep'
  BY FifoAssumption DEF IndInv, ConfiguredByStep, ModeFitsStep, ChipTypes
<1>5. SetForDirection'
  BY FifoAssumption
     DEF IndInv, SetForDirection, SetToReceive, SetToSend, ModeFitsStep, ChipTypes,
         DriverTypes
<1>6. UplinkIsLoaded'
  BY FifoAssumption
     DEF IndInv, UplinkIsLoaded, Holds, ModeFitsStep, SetForDirection, ChipTypes
<1>7. IncomingIsStored'
  BY FifoAssumption DEF IndInv, IncomingIsStored, Holds, ModeFitsStep
<1>8. NothingHandedOverStale'
  BY FifoAssumption
     DEF IndInv, NothingHandedOverStale, FreshCells, Fresh, CameIn, ModeFitsStep,
         ConfiguredByStep, ChipTypes
<1>9. LastIsRead'
  BY FifoAssumption DEF IndInv, LastIsRead, Holds, ModeFitsStep, ChipTypes
<1> QED BY <1>1, <1>2, <1>3, <1>4, <1>5, <1>6, <1>7, <1>8, <1>9 DEF IndInv

LEMMA TxStandbyKeeps == ASSUME IndInv, TxStandby PROVE IndInv'
<1> USE DEF TxStandby, WriteOpMode, Step
<1>1. ChipTypes'
  <2>1. ChipTypes /\ WriteOpMode(STANDBY, reg.LongRange) /\ irq' = irq
    BY DEF IndInv
  <2>2. reg.LongRange \in BOOLEAN
    BY <2>1 DEF ChipTypes
  <2> QED BY ONLY <2>1, <2>2, ModeWritten
<1>2. DriverTypes'
  BY FifoAssumption DEF IndInv, DriverTypes
<1>3. ModeFitsStep'
  BY FifoAssumption DEF IndInv, ModeFitsStep, ChipTypes, DriverTypes
<1>4. ConfiguredByStep'
  BY FifoAssumption DEF IndInv, ConfiguredByStep, ModeFitsStep, ChipTypes
<1>5. SetForDirection'
  BY FifoAssumption
     DEF IndInv, SetForDirection, SetToReceive, SetToSend, ModeFitsStep, ChipTypes,
         DriverTypes
<1>6. UplinkIsLoaded'
  BY FifoAssumption
     DEF IndInv, UplinkIsLoaded, Holds, ModeFitsStep, SetForDirection, ChipTypes
<1>7. IncomingIsStored'
  BY FifoAssumption DEF IndInv, IncomingIsStored, Holds, ModeFitsStep
<1>8. NothingHandedOverStale'
  BY FifoAssumption
     DEF IndInv, NothingHandedOverStale, FreshCells, Fresh, CameIn, ModeFitsStep,
         ConfiguredByStep, ChipTypes
<1>9. LastIsRead'
  BY FifoAssumption DEF IndInv, LastIsRead, Holds, ModeFitsStep, ChipTypes
<1> QED BY <1>1, <1>2, <1>3, <1>4, <1>5, <1>6, <1>7, <1>8, <1>9 DEF IndInv

LEMMA RxSetupKeeps == ASSUME IndInv, RxSetup PROVE IndInv'
<1> USE DEF RxSetup, Step
<1>1. ChipTypes'
  <2>1. reg \in Registers /\ 0 \in Addrs /\ {RxDone} \subseteq Flags
    BY Constants DEF IndInv, ChipTypes
  <2>2. reg' \in Registers
    BY <2>1
  <2> QED BY <2>2 DEF IndInv, ChipTypes
<1>2. DriverTypes'
  BY FifoAssumption DEF IndInv, DriverTypes
<1>3. ModeFitsStep'
  BY FifoAssumption DEF IndInv, ModeFitsStep, ChipTypes, DriverTypes
<1>4. ConfiguredByStep'
  BY FifoAssumption DEF IndInv, ConfiguredByStep, ModeFitsStep, ChipTypes
<1>5. SetForDirection'
  BY FifoAssumption
     DEF IndInv, SetForDirection, SetToReceive, SetToSend, ModeFitsStep, ChipTypes,
         DriverTypes
<1>6. UplinkIsLoaded'
  BY FifoAssumption
     DEF IndInv, UplinkIsLoaded, Holds, ModeFitsStep, SetForDirection, ChipTypes
<1>7. IncomingIsStored'
  BY FifoAssumption DEF IndInv, IncomingIsStored, Holds, ModeFitsStep
<1>8. NothingHandedOverStale'
  BY FifoAssumption
     DEF IndInv, NothingHandedOverStale, FreshCells, Fresh, CameIn, ModeFitsStep,
         ConfiguredByStep, ChipTypes
<1>9. LastIsRead'
  BY FifoAssumption DEF IndInv, LastIsRead, Holds, ModeFitsStep, ChipTypes
<1> QED BY <1>1, <1>2, <1>3, <1>4, <1>5, <1>6, <1>7, <1>8, <1>9 DEF IndInv

LEMMA RxGoKeeps == ASSUME IndInv, RxGo PROVE IndInv'
<1> USE DEF RxGo, WriteOpMode, Step
<1>1. ChipTypes'
  <2>1. ChipTypes /\ WriteOpMode(RX, TRUE) /\ irq' = irq
    BY DEF IndInv
  <2> QED BY ONLY <2>1, ModeWritten
<1>2. DriverTypes'
  BY FifoAssumption DEF IndInv, DriverTypes
<1>3. ModeFitsStep'
  BY FifoAssumption DEF IndInv, ModeFitsStep, ChipTypes, DriverTypes
<1>4. ConfiguredByStep'
  BY FifoAssumption DEF IndInv, ConfiguredByStep, ModeFitsStep, ChipTypes
<1>5. SetForDirection'
  BY FifoAssumption
     DEF IndInv, SetForDirection, SetToReceive, SetToSend, ModeFitsStep, ChipTypes,
         DriverTypes
<1>6. UplinkIsLoaded'
  BY FifoAssumption
     DEF IndInv, UplinkIsLoaded, Holds, ModeFitsStep, SetForDirection, ChipTypes
<1>7. IncomingIsStored'
  BY FifoAssumption DEF IndInv, IncomingIsStored, Holds, ModeFitsStep
<1>8. NothingHandedOverStale'
  BY DEF IndInv, NothingHandedOverStale, SetForDirection
<1>9. LastIsRead'
  BY FifoAssumption DEF IndInv, LastIsRead, Holds, ModeFitsStep, ChipTypes
<1> QED BY <1>1, <1>2, <1>3, <1>4, <1>5, <1>6, <1>7, <1>8, <1>9 DEF IndInv

LEMMA RxAddrKeeps == ASSUME IndInv, RxAddr PROVE IndInv'
<1> USE DEF RxAddr, Write, Step
<1>1. ChipTypes'
  BY FifoAssumption DEF IndInv, ChipTypes
<1>2. DriverTypes'
  BY FifoAssumption DEF IndInv, DriverTypes
<1>3. ModeFitsStep'
  BY FifoAssumption DEF IndInv, ModeFitsStep, ChipTypes, DriverTypes
<1>4. ConfiguredByStep'
  BY FifoAssumption DEF IndInv, ConfiguredByStep, ModeFitsStep, ChipTypes
<1>5. SetForDirection'
  BY FifoAssumption
     DEF IndInv, SetForDirection, SetToReceive, SetToSend, ModeFitsStep, ChipTypes,
         DriverTypes
<1>6. UplinkIsLoaded'
  BY FifoAssumption
     DEF IndInv, UplinkIsLoaded, Holds, ModeFitsStep, SetForDirection, ChipTypes
<1>7. IncomingIsStored'
  BY FifoAssumption DEF IndInv, IncomingIsStored, Holds, ModeFitsStep
<1>8. NothingHandedOverStale'
  <2>1. /\ FreshCells(reg.RxCurrentAddr, reg.RxNbBytes) /\ rxBuffer = << >>
        /\ Cell(reg.RxCurrentAddr, reg.RxNbBytes) = rxNext
    BY DEF IndInv, NothingHandedOverStale, ModeFitsStep
  <2>2. /\ reg'.RxNbBytes = reg.RxNbBytes /\ reg.RxNbBytes \in Nat
        /\ reg'.FifoAddrPtr = reg.RxCurrentAddr
    BY Constants DEF IndInv, ChipTypes
  <2>3. FreshCells(reg.FifoAddrPtr, reg.RxNbBytes)'
    BY <2>1, <2>2 DEF FreshCells, CameIn
  <2>4. /\ rxBuffer' = << >> /\ pc' = "rxSize"
        /\ Cell(reg.FifoAddrPtr, reg.RxNbBytes)' = rxNext'
    BY <2>1, <2>2 DEF Cell
  <2>5. \E k \in Nat : /\ reg'.RxNbBytes <= k /\ FreshCells(reg.FifoAddrPtr, k)'
                      /\ Cell(reg.FifoAddrPtr, k)' = rxNext'
    BY <2>2, <2>3, <2>4 DEF FreshCells, Cell
  <2> QED BY <2>4, <2>5 DEF NothingHandedOverStale
<1>9. LastIsRead'
  BY DEF IndInv, LastIsRead, Holds, ChipTypes
<1> QED BY <1>1, <1>2, <1>3, <1>4, <1>5, <1>6, <1>7, <1>8, <1>9 DEF IndInv

LEMMA RxSizeKeeps == ASSUME IndInv, RxSize PROVE IndInv'
<1> USE DEF RxSize
<1>1. ChipTypes'
  BY FifoAssumption DEF IndInv, ChipTypes
<1>2. DriverTypes'
  <2>1. reg.RxNbBytes \in 0..FifoSize
    BY DEF IndInv, ChipTypes
  <2>2. rxBuffer' \in Seq(Contents)
    BY <2>1, UnreadTyped DEF IndInv, DriverTypes
  <2> QED BY <2>1, <2>2 DEF IndInv, DriverTypes
<1>3. ModeFitsStep'
  BY FifoAssumption DEF IndInv, ModeFitsStep, ChipTypes, DriverTypes
<1>4. ConfiguredByStep'
  BY FifoAssumption DEF IndInv, ConfiguredByStep, ModeFitsStep, ChipTypes
<1>5. SetForDirection'
  BY FifoAssumption
     DEF IndInv, SetForDirection, SetToReceive, SetToSend, ModeFitsStep, ChipTypes,
         DriverTypes
<1>6. UplinkIsLoaded'
  BY FifoAssumption
     DEF IndInv, UplinkIsLoaded, Holds, ModeFitsStep, SetForDirection, ChipTypes
<1>7. IncomingIsStored'
  BY FifoAssumption DEF IndInv, IncomingIsStored, Holds, ModeFitsStep
<1>8. NothingHandedOverStale'
  <2>1. PICK k \in Nat : reg.RxNbBytes <= k /\ FreshCells(reg.FifoAddrPtr, k)
    BY DEF IndInv, NothingHandedOverStale
  <2>2. reg.RxNbBytes \in Nat
    BY Constants DEF IndInv, ChipTypes
  <2>3. FreshCells(reg.FifoAddrPtr, reg.RxNbBytes)
    BY <2>1, <2>2 DEF FreshCells
  <2>4. CASE reg.RxNbBytes <= 1
    <3>1. reg.RxNbBytes \in 0..1
      BY <2>2, <2>4
    <3>2. Len(rxBuffer') = reg.RxNbBytes
      BY <2>4, <3>1, UnreadTyped
    <3> QED BY <2>4, <3>1, <3>2 DEF NothingHandedOverStale
  <2>5. CASE ~(reg.RxNbBytes <= 1)
    <3>1. rxBuffer' = << >> /\ Len(<< >>) = 0
      BY <2>5, NothingRead DEF IndInv, NothingHandedOverStale
    <3>2. FreshCells(reg.FifoAddrPtr, packetSize)'
      BY <2>3 DEF FreshCells, CameIn
    <3>3. Len(rxBuffer') < packetSize' /\ packetSize' > 1
      BY <2>2, <2>5, <3>1
    <3>4. \A i \in 1..Len(rxBuffer') : Fresh(rxBuffer'[i], CameIn')
      BY <3>1
    <3> QED BY <2>5, <3>2, <3>3, <3>4 DEF NothingHandedOverStale
  <2> QED BY <2>4, <2>5
<1>9. LastIsRead'
  <2> SUFFICES ASSUME last # NoFrame PROVE LastIsRead'
    BY DEF LastIsRead
  <2>1. /\ armed /\ reg.RxNbBytes = Length[last]
        /\ Holds(reg.RxCurrentAddr, last, Length[last])
        /\ reg.FifoAddrPtr = reg.RxCurrentAddr
    BY DEF IndInv, LastIsRead
  <2>2. pc' = "rxBurst" => rxBuffer' = << >> /\ Len(rxBuffer') = 0
    BY NothingRead DEF IndInv, NothingHandedOverStale
  <2> QED BY <2>1, <2>2 DEF LastIsRead, Holds
<1> QED BY <1>1, <1>2, <1>3, <1>4, <1>5, <1>6, <1>7, <1>8, <1>9 DEF IndInv

LEMMA RxBurstKeeps == ASSUME IndInv, RxBurst PROVE IndInv'
<1> USE DEF RxBurst
<1>1. /\ rxBuffer \in Seq(Contents) /\ packetSize \in 0..FifoSize
      /\ Len(rxBuffer) \in Nat /\ Len(rxBuffer) < packetSize /\ packetSize > 1
  BY DEF IndInv, DriverTypes, NothingHandedOverStale
<1>2. /\ Len(rxBuffer') = Len(rxBuffer) + 1
      /\ rxBuffer'[Len(rxBuffer) + 1] = fifo[Cell(reg.FifoAddrPtr, Len(rxBuffer))]
      /\ \A i \in 1..Len(rxBuffer) : rxBuffer'[i] = rxBuffer[i]
  BY <1>1 DEF NextCell, Cell
<1>3. ChipTypes'
  BY FifoAssumption DEF IndInv, ChipTypes
<1>4. DriverTypes'
  <2>1. NextCell \in Contents
    <3>1. Cell(reg.FifoAddrPtr, Len(rxBuffer)) \in Addrs
      BY CellInRange DEF IndInv, ChipTypes, DriverTypes
    <3> QED BY <3>1 DEF NextCell, Cell, IndInv, ChipTypes
  <2>2. rxBuffer' \in Seq(Contents)
    BY <2>1 DEF IndInv, DriverTypes
  <2> QED BY <2>2 DEF IndInv, DriverTypes
<1>5. ModeFitsStep'
  BY FifoAssumption DEF IndInv, ModeFitsStep, ChipTypes, DriverTypes
<1>6. ConfiguredByStep'
  BY FifoAssumption DEF IndInv, ConfiguredByStep, ModeFitsStep, ChipTypes
<1>7. SetForDirection'
  BY FifoAssumption
     DEF IndInv, SetForDirection, SetToReceive, SetToSend, ModeFitsStep, ChipTypes,
         DriverTypes
<1>8. UplinkIsLoaded'
  BY FifoAssumption
     DEF IndInv, UplinkIsLoaded, Holds, ModeFitsStep, SetForDirection, ChipTypes
<1>9. IncomingIsStored'
  BY FifoAssumption DEF IndInv, IncomingIsStored, Holds, ModeFitsStep
<1>10. NothingHandedOverStale'
  <2>1. /\ FreshCells(reg.FifoAddrPtr, packetSize)
        /\ \A i \in 1..Len(rxBuffer) : Fresh(rxBuffer[i], CameIn)
    <3>1. pc = "rxBurst" /\ NothingHandedOverStale
      BY DEF IndInv
    <3>2. pc = "rxBurst" => FreshCells(reg.FifoAddrPtr, packetSize)
      BY <3>1 DEF NothingHandedOverStale
    <3>3. pc = "rxBurst" => \A i \in 1..Len(rxBuffer) : Fresh(rxBuffer[i], CameIn)
      BY <3>1 DEF NothingHandedOverStale
    <3> QED BY <3>1, <3>2, <3>3
  <2>2. Fresh(rxBuffer'[Len(rxBuffer) + 1], CameIn)
    BY <1>1, <1>2, <2>1 DEF FreshCells
  <2>3. \A i \in 1..Len(rxBuffer') : Fresh(rxBuffer'[i], CameIn)
    <3> TAKE i \in 1..Len(rxBuffer')
    <3>1. CASE i = Len(rxBuffer) + 1
      BY <2>2, <3>1
    <3>2. CASE i # Len(rxBuffer) + 1
      <4>1. i \in 1..Len(rxBuffer)
        BY <1>1, <1>2, <3>2
      <4> QED BY <4>1, <1>2, <2>1
    <3> QED BY <3>1, <3>2
  <2>4. CameIn' = CameIn /\ FreshCells(reg.FifoAddrPtr, packetSize)'
    BY <2>1 DEF CameIn, FreshCells
  <2> QED BY <1>1, <1>2, <2>3, <2>4 DEF NothingHandedOverStale
<1>11. LastIsRead'
  <2> SUFFICES ASSUME last # NoFrame PROVE LastIsRead'
    BY DEF LastIsRead
  <2>1. /\ armed /\ reg.RxNbBytes = Length[last]
        /\ Holds(reg.RxCurrentAddr, last, Length[last])
        /\ reg.FifoAddrPtr = reg.RxCurrentAddr /\ packetSize = Length[last]
        /\ \A i \in 1..Len(rxBuffer) : rxBuffer[i] = <<last, i>>
    BY DEF IndInv, LastIsRead
  <2>2. rxBuffer'[Len(rxBuffer) + 1] = <<last, Len(rxBuffer) + 1>>
    <3>1. Len(rxBuffer) \in 0..(FifoSize - 1) /\ Len(rxBuffer) < Length[last]
      BY <1>1, <2>1, Constants
    <3> QED BY <1>2, <2>1, <3>1 DEF Holds
  <2>3. \A i \in 1..Len(rxBuffer') : rxBuffer'[i] = <<last, i>>
    <3> TAKE i \in 1..Len(rxBuffer')
    <3>1. CASE i = Len(rxBuffer) + 1
      BY <2>2, <3>1
    <3>2. CASE i # Len(rxBuffer) + 1
      <4>1. i \in 1..Len(rxBuffer)
        BY <1>1, <1>2, <3>2
      <4> QED BY <4>1, <1>2, <2>1
    <3> QED BY <3>1, <3>2
  <2>4. pc' = "rxClear" => rxBuffer' = Bytes(last)
    <3> SUFFICES ASSUME pc' = "rxClear" PROVE rxBuffer' = Bytes(last)
      OBVIOUS
    <3>1. Len(rxBuffer') = Length[last]
      BY <2>1
    <3>2. rxBuffer' \in Seq(Contents)
      BY <1>4 DEF DriverTypes
    <3>3. rxBuffer' = [i \in 1..Len(rxBuffer') |-> rxBuffer'[i]]
      BY <3>2, SequenceAsFunction
    <3> QED BY <2>3, <3>1, <3>3 DEF Bytes
  <2> QED BY <1>1, <2>1, <2>3, <2>4 DEF LastIsRead, Holds
<1> QED BY <1>3, <1>4, <1>5, <1>6, <1>7, <1>8, <1>9, <1>10, <1>11 DEF IndInv

LEMMA RxClearKeeps == ASSUME IndInv, RxClear PROVE IndInv'
<1> USE DEF RxClear, Step
<1>1. ChipTypes'
  BY FifoAssumption DEF IndInv, ChipTypes
<1>2. DriverTypes'
  BY FifoAssumption DEF IndInv, DriverTypes
<1>3. ModeFitsStep'
  BY FifoAssumption DEF IndInv, ModeFitsStep, ChipTypes, DriverTypes
<1>4. ConfiguredByStep'
  BY FifoAssumption DEF IndInv, ConfiguredByStep, ModeFitsStep, ChipTypes
<1>5. SetForDirection'
  BY FifoAssumption
     DEF IndInv, SetForDirection, SetToReceive, SetToSend, ModeFitsStep, ChipTypes,
         DriverTypes
<1>6. UplinkIsLoaded'
  BY FifoAssumption
     DEF IndInv, UplinkIsLoaded, Holds, ModeFitsStep, SetForDirection, ChipTypes
<1>7. IncomingIsStored'
  BY FifoAssumption DEF IndInv, IncomingIsStored, Holds, ModeFitsStep
<1>8. NothingHandedOverStale'
  BY DEF IndInv, NothingHandedOverStale
<1>9. LastIsRead'
  BY FifoAssumption DEF IndInv, LastIsRead, Holds, ModeFitsStep, ChipTypes
<1> QED BY <1>1, <1>2, <1>3, <1>4, <1>5, <1>6, <1>7, <1>8, <1>9 DEF IndInv

LEMMA TransmitKeeps == ASSUME IndInv, NEW f \in Uplinks, Transmit(f) PROVE IndInv'
<1> USE DEF Transmit, EnterSleep, WriteOpMode, EmptyFifo, Step, Disarm
<1>1. ChipTypes'
  <2>1. ChipTypes /\ WriteOpMode(SLEEP, reg.LongRange) /\ irq' = irq
    BY DEF IndInv
  <2>2. reg.LongRange \in BOOLEAN
    BY <2>1 DEF ChipTypes
  <2> QED BY ONLY <2>1, <2>2, ModeWritten
<1>2. DriverTypes'
  BY FifoAssumption DEF IndInv, DriverTypes
<1>3. ModeFitsStep'
  BY FifoAssumption DEF IndInv, ModeFitsStep, ChipTypes, DriverTypes
<1>4. ConfiguredByStep'
  BY FifoAssumption DEF IndInv, ConfiguredByStep, ModeFitsStep, ChipTypes
<1>5. SetForDirection'
  BY FifoAssumption
     DEF IndInv, SetForDirection, SetToReceive, SetToSend, ModeFitsStep, ChipTypes,
         DriverTypes
<1>6. UplinkIsLoaded'
  BY FifoAssumption
     DEF IndInv, UplinkIsLoaded, Holds, ModeFitsStep, SetForDirection, ChipTypes
<1>7. IncomingIsStored'
  BY FifoAssumption DEF IndInv, IncomingIsStored, Holds, ModeFitsStep
<1>8. NothingHandedOverStale'
  BY FifoAssumption
     DEF IndInv, NothingHandedOverStale, FreshCells, Fresh, CameIn, ModeFitsStep,
         ConfiguredByStep, ChipTypes
<1>9. LastIsRead'
  BY FifoAssumption DEF IndInv, LastIsRead, Holds, ModeFitsStep, ChipTypes
<1> QED BY <1>1, <1>2, <1>3, <1>4, <1>5, <1>6, <1>7, <1>8, <1>9 DEF IndInv

LEMMA ReceiveKeeps == ASSUME IndInv, Receive PROVE IndInv'
<1> USE DEF Receive, WriteOpMode, Step, Disarm
<1>1. ChipTypes'
  <2>1. ChipTypes /\ WriteOpMode(STANDBY, reg.LongRange) /\ irq' = irq
    BY DEF IndInv
  <2>2. reg.LongRange \in BOOLEAN
    BY <2>1 DEF ChipTypes
  <2> QED BY ONLY <2>1, <2>2, ModeWritten
<1>2. DriverTypes'
  BY FifoAssumption DEF IndInv, DriverTypes
<1>3. ModeFitsStep'
  BY FifoAssumption DEF IndInv, ModeFitsStep, ChipTypes, DriverTypes
<1>4. ConfiguredByStep'
  BY FifoAssumption DEF IndInv, ConfiguredByStep, ModeFitsStep, ChipTypes
<1>5. SetForDirection'
  BY FifoAssumption
     DEF IndInv, SetForDirection, SetToReceive, SetToSend, ModeFitsStep, ChipTypes,
         DriverTypes
<1>6. UplinkIsLoaded'
  BY FifoAssumption
     DEF IndInv, UplinkIsLoaded, Holds, ModeFitsStep, SetForDirection, ChipTypes
<1>7. IncomingIsStored'
  BY FifoAssumption DEF IndInv, IncomingIsStored, Holds, ModeFitsStep
<1>8. NothingHandedOverStale'
  BY FifoAssumption
     DEF IndInv, NothingHandedOverStale, FreshCells, Fresh, CameIn, ModeFitsStep,
         ConfiguredByStep, ChipTypes
<1>9. LastIsRead'
  BY FifoAssumption DEF IndInv, LastIsRead, Holds, ModeFitsStep, ChipTypes
<1> QED BY <1>1, <1>2, <1>3, <1>4, <1>5, <1>6, <1>7, <1>8, <1>9 DEF IndInv

LEMMA AvailableKeeps == ASSUME IndInv, Available PROVE IndInv'
<1> USE DEF Available
<1>1. ChipTypes'
  BY FifoAssumption DEF IndInv, ChipTypes
<1>2. DriverTypes'
  BY Constants, NothingRead DEF IndInv, DriverTypes
<1>3. ModeFitsStep'
  BY FifoAssumption DEF IndInv, ModeFitsStep, ChipTypes, DriverTypes
<1>4. ConfiguredByStep'
  BY FifoAssumption DEF IndInv, ConfiguredByStep, ModeFitsStep, ChipTypes
<1>5. SetForDirection'
  BY FifoAssumption
     DEF IndInv, SetForDirection, SetToReceive, SetToSend, ModeFitsStep, ChipTypes,
         DriverTypes
<1>6. UplinkIsLoaded'
  BY FifoAssumption
     DEF IndInv, UplinkIsLoaded, Holds, ModeFitsStep, SetForDirection, ChipTypes
<1>7. IncomingIsStored'
  BY FifoAssumption DEF IndInv, IncomingIsStored, Holds, ModeFitsStep
<1>8. NothingHandedOverStale'
  BY DEF IndInv, NothingHandedOverStale, FreshCells, CameIn, ModeFitsStep,
         SetForDirection, SetToReceive, DIO0
<1>9. LastIsRead'
  BY FifoAssumption DEF IndInv, LastIsRead, Holds, ModeFitsStep, ChipTypes
<1> QED BY <1>1, <1>2, <1>3, <1>4, <1>5, <1>6, <1>7, <1>8, <1>9 DEF IndInv

LEMMA ReadKeeps == ASSUME IndInv, Read PROVE IndInv'
<1> USE DEF Read, Disarm
<1>1. ChipTypes'
  BY FifoAssumption DEF IndInv, ChipTypes
<1>2. DriverTypes'
  BY Constants, NothingRead DEF IndInv, DriverTypes
<1>3. ModeFitsStep'
  BY FifoAssumption DEF IndInv, ModeFitsStep, ChipTypes, DriverTypes
<1>4. ConfiguredByStep'
  BY FifoAssumption DEF IndInv, ConfiguredByStep, ModeFitsStep, ChipTypes
<1>5. SetForDirection'
  BY FifoAssumption
     DEF IndInv, SetForDirection, SetToReceive, SetToSend, ModeFitsStep, ChipTypes,
         DriverTypes
<1>6. UplinkIsLoaded'
  BY FifoAssumption
     DEF IndInv, UplinkIsLoaded, Holds, ModeFitsStep, SetForDirection, ChipTypes
<1>7. IncomingIsStored'
  BY FifoAssumption DEF IndInv, IncomingIsStored, Holds, ModeFitsStep
<1>8. NothingHandedOverStale'
  BY FifoAssumption
     DEF IndInv, NothingHandedOverStale, FreshCells, Fresh, CameIn, ModeFitsStep,
         ConfiguredByStep, ChipTypes
<1>9. LastIsRead'
  BY FifoAssumption DEF IndInv, LastIsRead, Holds, ModeFitsStep, ChipTypes
<1> QED BY <1>1, <1>2, <1>3, <1>4, <1>5, <1>6, <1>7, <1>8, <1>9 DEF IndInv

LEMMA SleepRadioKeeps == ASSUME IndInv, SleepRadio PROVE IndInv'
<1> USE DEF SleepRadio, WriteOpMode, EmptyFifo, Disarm
<1>1. ChipTypes'
  <2>1. ChipTypes /\ WriteOpMode(SLEEP, TRUE) /\ irq' = irq
    BY DEF IndInv
  <2> QED BY ONLY <2>1, ModeWritten
<1>2. DriverTypes'
  BY Constants, NothingRead DEF IndInv, DriverTypes
<1>3. ModeFitsStep'
  BY FifoAssumption DEF IndInv, ModeFitsStep, ChipTypes, DriverTypes
<1>4. ConfiguredByStep'
  BY FifoAssumption DEF IndInv, ConfiguredByStep, ModeFitsStep, ChipTypes
<1>5. SetForDirection'
  BY FifoAssumption
     DEF IndInv, SetForDirection, SetToReceive, SetToSend, ModeFitsStep, ChipTypes,
         DriverTypes
<1>6. UplinkIsLoaded'
  BY FifoAssumption
     DEF IndInv, UplinkIsLoaded, Holds, ModeFitsStep, SetForDirection, ChipTypes
<1>7. IncomingIsStored'
  BY FifoAssumption DEF IndInv, IncomingIsStored, Holds, ModeFitsStep
<1>8. NothingHandedOverStale'
  BY FifoAssumption
     DEF IndInv, NothingHandedOverStale, FreshCells, Fresh, CameIn, ModeFitsStep,
         ConfiguredByStep, ChipTypes
<1>9. LastIsRead'
  BY FifoAssumption DEF IndInv, LastIsRead, Holds, ModeFitsStep, ChipTypes
<1> QED BY <1>1, <1>2, <1>3, <1>4, <1>5, <1>6, <1>7, <1>8, <1>9 DEF IndInv

LEMMA ChipTxDoneKeeps == ASSUME IndInv, ChipTxDone PROVE IndInv'
<1> USE DEF ChipTxDone, Raise
<1>1. ChipTypes'
  BY FifoAssumption DEF IndInv, ChipTypes
<1>2. DriverTypes'
  BY FifoAssumption DEF IndInv, DriverTypes
<1>3. ModeFitsStep'
  BY FifoAssumption DEF IndInv, ModeFitsStep, ChipTypes, DriverTypes
<1>4. ConfiguredByStep'
  BY FifoAssumption DEF IndInv, ConfiguredByStep, ModeFitsStep, ChipTypes
<1>5. SetForDirection'
  BY FifoAssumption
     DEF IndInv, SetForDirection, SetToReceive, SetToSend, ModeFitsStep, ChipTypes,
         DriverTypes
<1>6. UplinkIsLoaded'
  BY FifoAssumption
     DEF IndInv, UplinkIsLoaded, Holds, ModeFitsStep, SetForDirection, ChipTypes
<1>7. IncomingIsStored'
  BY FifoAssumption DEF IndInv, IncomingIsStored, Holds, ModeFitsStep
<1>8. NothingHandedOverStale'
  BY FifoAssumption
     DEF IndInv, NothingHandedOverStale, FreshCells, Fresh, CameIn, ModeFitsStep,
         ConfiguredByStep, ChipTypes
<1>9. LastIsRead'
  BY FifoAssumption DEF IndInv, LastIsRead, Holds, ModeFitsStep, ChipTypes
<1> QED BY <1>1, <1>2, <1>3, <1>4, <1>5, <1>6, <1>7, <1>8, <1>9 DEF IndInv

LEMMA ChipHearsFrameKeeps == ASSUME IndInv, ChipHearsFrame PROVE IndInv'
<1> USE DEF ChipHearsFrame
<1>1. ChipTypes'
  <2>1. PICK f \in Frames :
          incoming' = [frame |-> f, start |-> rxNext, stored |-> 0]
    OBVIOUS
  <2>2. incoming' \in Incomings /\ incoming'.stored <= Length[incoming'.frame]
    BY <2>1, Constants DEF IndInv, ChipTypes, Incomings
  <2> QED BY <2>1, <2>2 DEF IndInv, ChipTypes
<1>2. DriverTypes'
  BY FifoAssumption DEF IndInv, DriverTypes
<1>3. ModeFitsStep'
  BY FifoAssumption DEF IndInv, ModeFitsStep, ChipTypes, DriverTypes
<1>4. ConfiguredByStep'
  BY FifoAssumption DEF IndInv, ConfiguredByStep, ModeFitsStep, ChipTypes
<1>5. SetForDirection'
  BY FifoAssumption
     DEF IndInv, SetForDirection, SetToReceive, SetToSend, ModeFitsStep, ChipTypes,
         DriverTypes
<1>6. UplinkIsLoaded'
  BY FifoAssumption
     DEF IndInv, UplinkIsLoaded, Holds, ModeFitsStep, SetForDirection, ChipTypes
<1>7. IncomingIsStored'
  BY FifoAssumption DEF IndInv, IncomingIsStored, Holds, ModeFitsStep
<1>8. NothingHandedOverStale'
  <2>1. CASE ~armed
    BY <2>1 DEF IndInv, NothingHandedOverStale, ModeFitsStep
  <2>2. CASE armed
    <3>1. Stores
      BY ChipHearsFrame DEF Stores
    <3>2. reg.RxCurrentAddr \in Addrs /\ reg.FifoAddrPtr \in Addrs
      BY DEF IndInv, ChipTypes
    <3>3. armed /\ pc \in {"idle", "rxAddr"} /\ RxDone \in irq =>
             FreshCells(reg.RxCurrentAddr, reg.RxNbBytes)'
      BY <2>2, <3>1, <3>2, CellsStayFresh
         DEF IndInv, NothingHandedOverStale, FreshCells
    <3>4. ASSUME NEW k \in Nat, FreshCells(reg.FifoAddrPtr, k)
          PROVE  FreshCells(reg.FifoAddrPtr, k)'
      BY <2>2, <3>1, <3>2, <3>4, CellsStayFresh DEF FreshCells
    <3>5. pc = "rxBurst" \/ (pc = "rxClear" /\ Len(rxBuffer) > 1) =>
            \A i \in 1..Len(rxBuffer) : Fresh(rxBuffer[i], CameIn')
      BY <2>2, <3>1, FreshStays DEF IndInv, NothingHandedOverStale
    <3>6. packetSize \in Nat
      BY Constants DEF IndInv, DriverTypes
    <3> QED BY <3>3, <3>4, <3>5, <3>6 DEF IndInv, NothingHandedOverStale, Cell
  <2> QED BY <2>1, <2>2
<1>9. LastIsRead'
  BY FifoAssumption DEF IndInv, LastIsRead, Holds, ModeFitsStep, ChipTypes
<1> QED BY <1>1, <1>2, <1>3, <1>4, <1>5, <1>6, <1>7, <1>8, <1>9 DEF IndInv

LEMMA ChipStoresByteKeeps == ASSUME IndInv, ChipStoresByte PROVE IndInv'
<1> USE DEF ChipStoresByte
<1>1. ChipTypes'
  <2>1. /\ incoming \in Incomings /\ Length[incoming.frame] \in 0..FifoSize
        /\ incoming.stored < Length[incoming.frame]
    BY Constants DEF IndInv, ChipTypes, Incomings
  <2>2. /\ incoming' \in Incomings /\ incoming'.stored <= Length[incoming'.frame]
        /\ incoming'.start = incoming.start
    BY <2>1, Constants DEF Incomings
  <2>3. <<incoming.frame, incoming.stored + 1>> \in Contents
    BY <2>1, Constants DEF Contents, Incomings
  <2>4. fifo' \in [Addrs -> Contents]
    BY <2>3 DEF IndInv, ChipTypes
  <2> QED BY <2>2, <2>4 DEF IndInv, ChipTypes
<1>2. DriverTypes'
  BY FifoAssumption DEF IndInv, DriverTypes
<1>3. ModeFitsStep'
  BY FifoAssumption DEF IndInv, ModeFitsStep, ChipTypes, DriverTypes
<1>4. ConfiguredByStep'
  BY FifoAssumption DEF IndInv, ConfiguredByStep, ModeFitsStep, ChipTypes
<1>5. SetForDirection'
  BY FifoAssumption
     DEF IndInv, SetForDirection, SetToReceive, SetToSend, ModeFitsStep, ChipTypes,
         DriverTypes
<1>6. UplinkIsLoaded'
  BY FifoAssumption
     DEF IndInv, UplinkIsLoaded, Holds, ModeFitsStep, SetForDirection, ChipTypes
<1>7. IncomingIsStored'
  <2>1. /\ incoming \in Incomings /\ Length[incoming.frame] \in 0..FifoSize
        /\ incoming.stored < Length[incoming.frame]
        /\ fifo \in [Addrs -> Contents]
    BY Constants DEF IndInv, ChipTypes, Incomings
  <2>2. /\ incoming'.frame = incoming.frame /\ incoming'.start = incoming.start
        /\ incoming'.stored = incoming.stored + 1
    BY <2>1 DEF Incomings
  <2>3. ASSUME NEW j \in Addrs, j < incoming.stored + 1
        PROVE  fifo'[Cell(incoming.start, j)] = <<incoming.frame, j + 1>>
    <3>1. /\ Cell(incoming.start, j) \in Addrs
          /\ incoming.start \in Addrs /\ incoming.stored \in Addrs
      BY <2>1, CellInRange, Constants DEF Incomings
    <3>2. CASE j = incoming.stored
      BY <2>1, <3>1, <3>2 DEF Cell
    <3>3. CASE j # incoming.stored
      <4>1. Cell(incoming.start, j) # Cell(incoming.start, incoming.stored)
        BY <3>1, <3>3, CellsDiffer
      <4>2. j < incoming.stored
        BY <2>3, <3>1, <3>3
      <4>3. fifo[Cell(incoming.start, j)] = <<incoming.frame, j + 1>>
        BY <4>2 DEF IndInv, IncomingIsStored, Holds
      <4> QED BY <2>1, <3>1, <4>1, <4>3 DEF Cell
    <3> QED BY <3>2, <3>3
  <2> QED BY <2>2, <2>3 DEF IncomingIsStored, Holds
<1>8. NothingHandedOverStale'
  <2>1. CASE ~armed
    BY <2>1 DEF IndInv, NothingHandedOverStale, ModeFitsStep
  <2>2. CASE armed
    <3>1. Stores
      BY ChipStoresByte DEF Stores
    <3>2. reg.RxCurrentAddr \in Addrs /\ reg.FifoAddrPtr \in Addrs
      BY DEF IndInv, ChipTypes
    <3>3. armed /\ pc \in {"idle", "rxAddr"} /\ RxDone \in irq =>
             FreshCells(reg.RxCurrentAddr, reg.RxNbBytes)'
      BY <2>2, <3>1, <3>2, CellsStayFresh
         DEF IndInv, NothingHandedOverStale, FreshCells
    <3>4. ASSUME NEW k \in Nat, FreshCells(reg.FifoAddrPtr, k)
          PROVE  FreshCells(reg.FifoAddrPtr, k)'
      BY <2>2, <3>1, <3>2, <3>4, CellsStayFresh DEF FreshCells
    <3>5. pc = "rxBurst" \/ (pc = "rxClear" /\ Len(rxBuffer) > 1) =>
            \A i \in 1..Len(rxBuffer) : Fresh(rxBuffer[i], CameIn')
      BY <2>2, <3>1, FreshStays DEF IndInv, NothingHandedOverStale
    <3>6. packetSize \in Nat
      BY Constants DEF IndInv, DriverTypes
    <3> QED BY <3>3, <3>4, <3>5, <3>6 DEF IndInv, NothingHandedOverStale, Cell
  <2> QED BY <2>1, <2>2
<1>9. LastIsRead'
  BY FifoAssumption DEF IndInv, LastIsRead, Holds, ModeFitsStep, ChipTypes
<1> QED BY <1>1, <1>2, <1>3, <1>4, <1>5, <1>6, <1>7, <1>8, <1>9 DEF IndInv

LEMMA ChipEndsFrameKeeps == ASSUME IndInv, ChipEndsFrame PROVE IndInv'
<1> USE DEF ChipEndsFrame, Raise
<1>1. ChipTypes'
  <2>1. incoming \in Incomings
    BY DEF IndInv, ChipTypes
  <2>2. reg' \in Registers
    BY <2>1 DEF IndInv, ChipTypes, Incomings
  <2>3. rxNext' \in Addrs
    BY <2>1, Constants DEF Incomings
  <2> QED BY <2>2, <2>3 DEF IndInv, ChipTypes
<1>2. DriverTypes'
  BY DEF IndInv, DriverTypes, ChipTypes, Incomings
<1>3. ModeFitsStep'
  BY FifoAssumption DEF IndInv, ModeFitsStep, ChipTypes, DriverTypes
<1>4. ConfiguredByStep'
  BY FifoAssumption DEF IndInv, ConfiguredByStep, ModeFitsStep, ChipTypes
<1>5. SetForDirection'
  BY FifoAssumption
     DEF IndInv, SetForDirection, SetToReceive, SetToSend, ModeFitsStep, ChipTypes,
         DriverTypes
<1>6. UplinkIsLoaded'
  BY FifoAssumption
     DEF IndInv, UplinkIsLoaded, Holds, ModeFitsStep, SetForDirection, ChipTypes
<1>7. IncomingIsStored'
  BY FifoAssumption DEF IndInv, IncomingIsStored, Holds, ModeFitsStep
<1>8. NothingHandedOverStale'
  <2>1. CASE ~armed
    BY <2>1 DEF IndInv, NothingHandedOverStale, ModeFitsStep
  <2>2. CASE armed
    <3>1. /\ Stores /\ incoming \in Incomings /\ incoming.start = rxNext
          /\ incoming.stored \in Nat
      BY Constants DEF Stores, IndInv, ChipTypes, Incomings
    <3>2. /\ reg'.RxCurrentAddr = incoming.start /\ reg'.RxNbBytes = incoming.stored
          /\ reg'.FifoAddrPtr = reg.FifoAddrPtr /\ reg.FifoAddrPtr \in Addrs
          /\ rxNext' = Cell(incoming.start, incoming.stored)
      BY DEF IndInv, ChipTypes, Cell
    <3>3. FreshCells(reg.RxCurrentAddr, reg.RxNbBytes)'
      BY <2>2, <3>2, StoredIsFresh DEF FreshCells
    <3>4. Cell(reg'.RxCurrentAddr, reg'.RxNbBytes) = rxNext'
      BY <3>2
    <3>5. ASSUME pc = "rxSize"
          PROVE  \E k \in Nat : /\ reg'.RxNbBytes <= k
                               /\ FreshCells(reg.FifoAddrPtr, k)'
                               /\ Cell(reg'.FifoAddrPtr, k) = rxNext'
      <4>0. PICK s \in Nat : s = incoming.stored
        BY <3>1
      <4>1. PICK k \in Nat : /\ FreshCells(reg.FifoAddrPtr, k)
                             /\ Cell(reg.FifoAddrPtr, k) = rxNext
        BY <3>5 DEF IndInv, NothingHandedOverStale
      <4> DEFINE total == k + s
      <4>2. ASSUME NEW j \in Nat, j < total
            PROVE  Fresh(fifo[Cell(reg.FifoAddrPtr, j)], CameIn')
        <5>1. CASE j < k
          BY <2>2, <3>1, <3>2, <4>1, <5>1, CellsStayFresh
        <5>2. CASE ~(j < k)
          <6>1. j - k \in Nat /\ j - k < incoming.stored /\ k + (j - k) = j
            BY <3>1, <4>0, <4>2, <5>2
          <6>2. Cell(incoming.start, j - k) = Cell(reg.FifoAddrPtr, j)
            <7>1. Cell(Cell(reg.FifoAddrPtr, k), j - k)
                    = Cell(reg.FifoAddrPtr, k + (j - k))
              BY <3>2, <6>1, CellAfterCell
            <7> QED BY <3>1, <4>1, <6>1, <7>1
          <6>3. Fresh(fifo[Cell(incoming.start, j - k)], CameIn')
            BY <2>2, <6>1, StoredIsFresh
          <6> QED BY <6>2, <6>3
        <5> QED BY <5>1, <5>2
      <4>3. Cell(reg.FifoAddrPtr, total) = Cell(incoming.start, incoming.stored)
        BY <3>1, <3>2, <4>0, <4>1, CellAfterCell
      <4>4. total \in Nat /\ incoming.stored <= total
        BY <3>1, <4>0
      <4>5. FreshCells(reg.FifoAddrPtr, total)'
        BY <3>2, <4>2 DEF FreshCells
      <4> QED BY <3>2, <4>3, <4>4, <4>5
    <3>6. pc = "rxBurst" => FreshCells(reg.FifoAddrPtr, packetSize)'
      BY <2>2, <3>1, <3>2, CellsStayFresh
         DEF IndInv, NothingHandedOverStale, FreshCells
    <3>7. pc = "rxBurst" \/ (pc = "rxClear" /\ Len(rxBuffer) > 1) =>
            \A i \in 1..Len(rxBuffer) : Fresh(rxBuffer[i], CameIn')
      BY <2>2, <3>1, FreshStays DEF IndInv, NothingHandedOverStale
    <3> QED BY <3>3, <3>4, <3>5, <3>6, <3>7 DEF IndInv, NothingHandedOverStale
  <2> QED BY <2>1, <2>2
<1>9. LastIsRead'
  <2> SUFFICES ASSUME last' # NoFrame PROVE LastIsRead'
    BY DEF LastIsRead
  <2>1. /\ armed /\ pc \notin Reading /\ last' = incoming.frame
        /\ Holds(incoming.start, incoming.frame, incoming.stored)
        /\ incoming.stored = Length[incoming.frame]
    BY DEF IndInv, IncomingIsStored
  <2>2. reg'.RxNbBytes = incoming.stored /\ reg'.RxCurrentAddr = incoming.start
    BY DEF IndInv, ChipTypes
  <2> QED BY <2>1, <2>2 DEF LastIsRead, Holds
<1> QED BY <1>1, <1>2, <1>3, <1>4, <1>5, <1>6, <1>7, <1>8, <1>9 DEF IndInv

LEMMA RestartKeeps == ASSUME IndInv, Restart PROVE IndInv'
<1> USE DEF Restart, Disarm
<1>1. ChipTypes'
  BY FifoAssumption DEF IndInv, ChipTypes
<1>2. DriverTypes'
  <2>1. 0 \in 0..FifoSize
    BY Constants
  <2> QED BY <2>1, NothingRead DEF DriverTypes
<1>3. ModeFitsStep'
  BY FifoAssumption DEF IndInv, ModeFitsStep, ChipTypes, DriverTypes
<1>4. ConfiguredByStep'
  BY FifoAssumption DEF IndInv, ConfiguredByStep, ModeFitsStep, ChipTypes
<1>5. SetForDirection'
  BY FifoAssumption
     DEF IndInv, SetForDirection, SetToReceive, SetToSend, ModeFitsStep, ChipTypes,
         DriverTypes
<1>6. UplinkIsLoaded'
  BY FifoAssumption
     DEF IndInv, UplinkIsLoaded, Holds, ModeFitsStep, SetForDirection, ChipTypes
<1>7. IncomingIsStored'
  BY FifoAssumption DEF IndInv, IncomingIsStored, Holds, ModeFitsStep
<1>8. NothingHandedOverStale'
  BY FifoAssumption
     DEF IndInv, NothingHandedOverStale, FreshCells, Fresh, CameIn, ModeFitsStep,
         ConfiguredByStep, ChipTypes
<1>9. LastIsRead'
  BY FifoAssumption DEF IndInv, LastIsRead, Holds, ModeFitsStep, ChipTypes
<1> QED BY <1>1, <1>2, <1>3, <1>4, <1>5, <1>6, <1>7, <1>8, <1>9 DEF IndInv

LEMMA InitInv == ASSUME Init PROVE IndInv
<1> USE DEF Init
<1>1. ChipTypes
  <2>1. PowerOn \in Registers
    BY Constants DEF PowerOn
  <2>2. EmptyFifo \in [Addrs -> Contents]
    BY DEF EmptyFifo, Contents
  <2> QED BY <2>1, <2>2, Constants DEF ChipTypes
<1>2. DriverTypes
  <2>1. 0 \in 0..FifoSize
    BY Constants
  <2> QED BY <2>1, NothingRead DEF DriverTypes
<1>3. ModeFitsStep /\ ConfiguredByStep
  BY DEF ModeFitsStep, ConfiguredByStep, PowerOn
<1>4. SetForDirection /\ UplinkIsLoaded
  BY DEF SetForDirection, UplinkIsLoaded, PowerOn
<1>5. IncomingIsStored /\ LastIsRead
  BY DEF IncomingIsStored, LastIsRead
<1>6. NothingHandedOverStale
  BY DEF NothingHandedOverStale
<1> QED BY <1>1, <1>2, <1>3, <1>4, <1>5, <1>6 DEF IndInv

LEMMA NextInv == ASSUME IndInv, [Next]_vars PROVE IndInv'
<1>1. CASE HardwareReset
  BY <1>1, HardwareResetKeeps
<1>2. CASE ConfigSleep
  BY <1>2, ConfigSleepKeeps
<1>3. CASE ConfigLoRa
  BY <1>3, ConfigLoRaKeeps
<1>4. CASE ConfigSettings
  BY <1>4, ConfigSettingsKeeps
<1>5. CASE ConfigStandby
  BY <1>5, ConfigStandbyKeeps
<1>6. CASE TxSetup
  BY <1>6, TxSetupKeeps
<1>7. CASE TxPointer
  BY <1>7, TxPointerKeeps
<1>8. CASE TxLoad
  BY <1>8, TxLoadKeeps
<1>9. CASE TxGo
  BY <1>9, TxGoKeeps
<1>10. CASE TxPoll
  BY <1>10, TxPollKeeps
<1>11. CASE TxCheck
  BY <1>11, TxCheckKeeps
<1>12. CASE TxClear
  BY <1>12, TxClearKeeps
<1>13. CASE TxStandby
  BY <1>13, TxStandbyKeeps
<1>14. CASE RxSetup
  BY <1>14, RxSetupKeeps
<1>15. CASE RxGo
  BY <1>15, RxGoKeeps
<1>16. CASE RxAddr
  BY <1>16, RxAddrKeeps
<1>17. CASE RxSize
  BY <1>17, RxSizeKeeps
<1>18. CASE RxBurst
  BY <1>18, RxBurstKeeps
<1>19. CASE RxClear
  BY <1>19, RxClearKeeps
<1>20. CASE \E f \in Uplinks : Transmit(f)
  BY <1>20, TransmitKeeps
<1>21. CASE Receive
  BY <1>21, ReceiveKeeps
<1>22. CASE Available
  BY <1>22, AvailableKeeps
<1>23. CASE Read
  BY <1>23, ReadKeeps
<1>24. CASE SleepRadio
  BY <1>24, SleepRadioKeeps
<1>25. CASE ChipTxDone
  BY <1>25, ChipTxDoneKeeps
<1>26. CASE ChipHearsFrame
  BY <1>26, ChipHearsFrameKeeps
<1>27. CASE ChipStoresByte
  BY <1>27, ChipStoresByteKeeps
<1>28. CASE ChipEndsFrame
  BY <1>28, ChipEndsFrameKeeps
<1>29. CASE Restart
  BY <1>29, RestartKeeps
<1>30. CASE UNCHANGED vars
  <2> USE <1>30 DEF vars
  <2>1. ChipTypes'
    BY DEF IndInv, ChipTypes
  <2>2. DriverTypes'
    BY DEF IndInv, DriverTypes
  <2>3. ModeFitsStep'
    BY DEF IndInv, ModeFitsStep
  <2>4. ConfiguredByStep'
    BY DEF IndInv, ConfiguredByStep
  <2>5. SetForDirection'
    BY DEF IndInv, SetForDirection, SetToReceive, SetToSend
  <2>6. UplinkIsLoaded'
    BY DEF IndInv, UplinkIsLoaded, Holds
  <2>7. IncomingIsStored'
    BY DEF IndInv, IncomingIsStored, Holds
  <2>8. NothingHandedOverStale'
    BY DEF IndInv, NothingHandedOverStale, FreshCells, Fresh, CameIn
  <2>9. LastIsRead'
    BY DEF IndInv, LastIsRead, Holds
  <2> QED BY <2>1, <2>2, <2>3, <2>4, <2>5, <2>6, <2>7, <2>8, <2>9 DEF IndInv
<1> QED BY <1>1, <1>2, <1>3, <1>4, <1>5, <1>6, <1>7, <1>8, <1>9, <1>10, <1>11,
           <1>12, <1>13, <1>14, <1>15, <1>16, <1>17, <1>18, <1>19, <1>20, <1>21,
           <1>22, <1>23, <1>24, <1>25, <1>26, <1>27, <1>28, <1>29, <1>30
         DEF Next, Driver, Caller, Chip

\* The registers, the FIFO, the flags and the driver's buffer stay consistent with
\* the step the driver is at, whatever the chip does between two accesses and
\* whenever the processor is reset: each step finds the chip in the mode it relies
\* on, and no byte of a frame that ended before the receiver was armed is read.
THEOREM DriverInvariance == Spec => []IndInv
BY InitInv, NextInv, PTL DEF Spec

--------------------------------------------------------------------------------
(* What the caller may rely on.                                            *)

LEMMA InvDelivers == ASSUME IndInv PROVE DeliveredIsReceived
<1> SUFFICES ASSUME pc = "rxClear"
             PROVE  /\ Decodes(rxBuffer) => \E f \in CameIn : rxBuffer = Bytes(f)
                    /\ last # NoFrame => rxBuffer = IF Length[last] <= 1
                                           THEN Unread(Length[last]) ELSE Bytes(last)
  BY DEF DeliveredIsReceived
<1>1. Decodes(rxBuffer) => \E f \in CameIn : rxBuffer = Bytes(f)
  <2> SUFFICES ASSUME NEW f \in Decodable, rxBuffer = Bytes(f)
               PROVE  f \in CameIn
    BY DEF Decodes
  <2>1. Length[f] \in Nat /\ Length[f] > 1
    BY FifoAssumption DEF Decodable
  <2>2. Len(rxBuffer) = Length[f] /\ rxBuffer[Length[f]] = <<f, Length[f]>>
    BY <2>1 DEF Bytes
  <2>3. Fresh(rxBuffer[Length[f]], CameIn)
    <3>1. NothingHandedOverStale
      BY DEF IndInv
    <3>2. \A i \in 1..Len(rxBuffer) : Fresh(rxBuffer[i], CameIn)
      BY <2>1, <2>2, <3>1 DEF NothingHandedOverStale
    <3> QED BY <2>1, <2>2, <3>2
  <2> QED BY <2>2, <2>3 DEF Fresh
<1>2. last # NoFrame => rxBuffer = IF Length[last] <= 1 THEN Unread(Length[last])
                                                       ELSE Bytes(last)
  BY DEF IndInv, LastIsRead
<1> QED BY <1>1, <1>2

\* Whatever is received while the driver reads: what SX1278_LoRaRxPacket hands over
\* either is refused by the decoder or came in since the receiver was armed, and it
\* is the last frame, whole, if nothing was stored after it.
THEOREM NothingStaleDelivered == Spec => []DeliveredIsReceived
BY DriverInvariance, InvDelivers, PTL

LEMMA InvOnAir == ASSUME IndInv PROVE OnAirAsConfigured
<1>1. reg.OpMode \in {RX, TX} => reg.LongRange /\ reg.Settings = "configured"
  BY DEF IndInv, ConfiguredByStep
<1>2. reg.OpMode = RX => SetToReceive
  BY DEF IndInv, SetForDirection
<1>3. reg.OpMode = TX => SetToSend
  BY DEF IndInv, SetForDirection
<1>4. ASSUME reg.OpMode = TX
      PROVE  Cells(TxBase, reg.PayloadLength) = Bytes(txFrame)
  <2>1. /\ reg.PayloadLength = Length[txFrame] /\ Length[txFrame] \in 0..FifoSize
        /\ Holds(TxBase, txFrame, Length[txFrame])
    BY <1>3, <1>4, Constants DEF IndInv, SetForDirection, SetToSend, UplinkIsLoaded
  <2>2. ASSUME NEW i \in 1..Length[txFrame]
        PROVE  fifo[(TxBase + i - 1) % FifoSize] = <<txFrame, i>>
    <3>1. i - 1 \in 0..(FifoSize - 1) /\ i - 1 < Length[txFrame] /\ (i - 1) + 1 = i
      BY <2>1, Constants
    <3>2. fifo[Cell(TxBase, i - 1)] = <<txFrame, (i - 1) + 1>>
      BY <2>1, <3>1 DEF Holds
    <3>3. TxBase + (i - 1) = TxBase + i - 1
      BY Constants
    <3> QED BY <3>1, <3>2, <3>3 DEF Cell
  <2> QED BY <2>1, <2>2 DEF Cells, Bytes
<1> QED BY <1>1, <1>2, <1>3, <1>4 DEF OnAirAsConfigured, SetToReceive, SetToSend

\* The chip sends and listens only in LoRa mode, configured for that direction, and
\* what it sends is what SX1278_transmit was given.
THEOREM OnlyConfiguredOnAir == Spec => []OnAirAsConfigured
BY DriverInvariance, InvOnAir, PTL

--------------------------------------------------------------------------------
(* One call, one step: the driver implements RadioDriver.                  *)

\* What the flags and the buffer are at each step of a call.
BootIsQuiet ==
  Booting /\ pc # "reset" => irq = {} /\ reg.DioMapping1 = RxDone

SendingIsQuiet ==
  /\ pc \in {"txPointer", "txLoad", "txGo"} => irq = {}
  /\ pc \in Sending => irq \subseteq {TxDone} /\ reg.DioMapping1 = TxDone
  /\ pc \in Sending /\ TxDone \in irq => reg.OpMode = STANDBY
  /\ pc \in {"txClear", "txStandby"} => reg.OpMode = STANDBY
  /\ pc = "txStandby" => irq = {}

BufferFitsStep ==
  /\ readBytes \in Nat /\ (pc # "idle" => readBytes = 0)
  /\ pc \in Reading => RxDone \in irq
  /\ pc = "rxClear" => packetSize = Len(rxBuffer)

CallInv == BootIsQuiet /\ SendingIsQuiet /\ BufferFitsStep

LEMMA HardwareResetKeepsCall == ASSUME IndInv, CallInv, HardwareReset PROVE CallInv'
<1> USE DEF HardwareReset, PowerOn, Step
<1>1. BootIsQuiet'
  BY Constants
     DEF IndInv, CallInv, BootIsQuiet, Booting, ModeFitsStep, ChipTypes, DriverTypes
<1>2. SendingIsQuiet'
  BY Constants
     DEF IndInv, CallInv, SendingIsQuiet, ModeFitsStep, ChipTypes, DriverTypes
<1>3. BufferFitsStep'
  BY Constants
     DEF IndInv, CallInv, BufferFitsStep, ModeFitsStep, ChipTypes, DriverTypes
<1> QED BY <1>1, <1>2, <1>3 DEF CallInv

LEMMA ConfigSleepKeepsCall == ASSUME IndInv, CallInv, ConfigSleep PROVE CallInv'
<1> USE DEF ConfigSleep, EnterSleep, WriteOpMode, Step
<1>1. BootIsQuiet'
  BY Constants
     DEF IndInv, CallInv, BootIsQuiet, Booting, ModeFitsStep, ChipTypes, DriverTypes
<1>2. SendingIsQuiet'
  BY Constants
     DEF IndInv, CallInv, SendingIsQuiet, ModeFitsStep, ChipTypes, DriverTypes
<1>3. BufferFitsStep'
  BY Constants
     DEF IndInv, CallInv, BufferFitsStep, ModeFitsStep, ChipTypes, DriverTypes
<1> QED BY <1>1, <1>2, <1>3 DEF CallInv

LEMMA ConfigLoRaKeepsCall == ASSUME IndInv, CallInv, ConfigLoRa PROVE CallInv'
<1> USE DEF ConfigLoRa, WriteOpMode, Step
<1>1. BootIsQuiet'
  BY Constants
     DEF IndInv, CallInv, BootIsQuiet, Booting, ModeFitsStep, ChipTypes, DriverTypes
<1>2. SendingIsQuiet'
  BY Constants
     DEF IndInv, CallInv, SendingIsQuiet, ModeFitsStep, ChipTypes, DriverTypes
<1>3. BufferFitsStep'
  BY Constants
     DEF IndInv, CallInv, BufferFitsStep, ModeFitsStep, ChipTypes, DriverTypes
<1> QED BY <1>1, <1>2, <1>3 DEF CallInv

LEMMA ConfigSettingsKeepsCall ==
  ASSUME IndInv, CallInv, ConfigSettings PROVE CallInv'
<1> USE DEF ConfigSettings, Write, Step
<1>1. BootIsQuiet'
  BY Constants
     DEF IndInv, CallInv, BootIsQuiet, Booting, ModeFitsStep, ChipTypes, DriverTypes
<1>2. SendingIsQuiet'
  BY Constants
     DEF IndInv, CallInv, SendingIsQuiet, ModeFitsStep, ChipTypes, DriverTypes
<1>3. BufferFitsStep'
  BY Constants
     DEF IndInv, CallInv, BufferFitsStep, ModeFitsStep, ChipTypes, DriverTypes
<1> QED BY <1>1, <1>2, <1>3 DEF CallInv

LEMMA ConfigStandbyKeepsCall == ASSUME IndInv, CallInv, ConfigStandby PROVE CallInv'
<1> USE DEF ConfigStandby, WriteOpMode
<1>1. BootIsQuiet'
  BY Constants
     DEF IndInv, CallInv, BootIsQuiet, Booting, ModeFitsStep, ChipTypes, DriverTypes
<1>2. SendingIsQuiet'
  BY Constants
     DEF IndInv, CallInv, SendingIsQuiet, ModeFitsStep, ChipTypes, DriverTypes
<1>3. BufferFitsStep'
  BY Constants
     DEF IndInv, CallInv, BufferFitsStep, ModeFitsStep, ChipTypes, DriverTypes
<1> QED BY <1>1, <1>2, <1>3 DEF CallInv

LEMMA TxSetupKeepsCall == ASSUME IndInv, CallInv, TxSetup PROVE CallInv'
<1> USE DEF TxSetup, Step
<1>1. BootIsQuiet'
  BY Constants
     DEF IndInv, CallInv, BootIsQuiet, Booting, ModeFitsStep, ChipTypes, DriverTypes
<1>2. SendingIsQuiet'
  BY Constants
     DEF IndInv, CallInv, SendingIsQuiet, ModeFitsStep, ChipTypes, DriverTypes
<1>3. BufferFitsStep'
  BY Constants
     DEF IndInv, CallInv, BufferFitsStep, ModeFitsStep, ChipTypes, DriverTypes
<1> QED BY <1>1, <1>2, <1>3 DEF CallInv

LEMMA TxPointerKeepsCall == ASSUME IndInv, CallInv, TxPointer PROVE CallInv'
<1> USE DEF TxPointer, Write
<1>1. BootIsQuiet'
  BY Constants
     DEF IndInv, CallInv, BootIsQuiet, Booting, ModeFitsStep, ChipTypes, DriverTypes
<1>2. SendingIsQuiet'
  BY Constants
     DEF IndInv, CallInv, SendingIsQuiet, ModeFitsStep, ChipTypes, DriverTypes
<1>3. BufferFitsStep'
  BY Constants
     DEF IndInv, CallInv, BufferFitsStep, ModeFitsStep, ChipTypes, DriverTypes
<1> QED BY <1>1, <1>2, <1>3 DEF CallInv

LEMMA TxLoadKeepsCall == ASSUME IndInv, CallInv, TxLoad PROVE CallInv'
<1> USE DEF TxLoad, Step
<1>1. BootIsQuiet'
  BY Constants
     DEF IndInv, CallInv, BootIsQuiet, Booting, ModeFitsStep, ChipTypes, DriverTypes
<1>2. SendingIsQuiet'
  BY Constants
     DEF IndInv, CallInv, SendingIsQuiet, ModeFitsStep, ChipTypes, DriverTypes
<1>3. BufferFitsStep'
  BY Constants
     DEF IndInv, CallInv, BufferFitsStep, ModeFitsStep, ChipTypes, DriverTypes
<1> QED BY <1>1, <1>2, <1>3 DEF CallInv

LEMMA TxGoKeepsCall == ASSUME IndInv, CallInv, TxGo PROVE CallInv'
<1> USE DEF TxGo, WriteOpMode, Step
<1>1. BootIsQuiet'
  BY Constants
     DEF IndInv, CallInv, BootIsQuiet, Booting, ModeFitsStep, ChipTypes, DriverTypes
<1>2. SendingIsQuiet'
  BY Constants DEF IndInv, CallInv, SendingIsQuiet, SetForDirection, SetToSend,
         ModeFitsStep, ChipTypes, DriverTypes
<1>3. BufferFitsStep'
  BY Constants
     DEF IndInv, CallInv, BufferFitsStep, ModeFitsStep, ChipTypes, DriverTypes
<1> QED BY <1>1, <1>2, <1>3 DEF CallInv

LEMMA TxPollKeepsCall == ASSUME IndInv, CallInv, TxPoll PROVE CallInv'
<1> USE DEF TxPoll, DIO0
<1>1. BootIsQuiet'
  BY Constants
     DEF IndInv, CallInv, BootIsQuiet, Booting, ModeFitsStep, ChipTypes, DriverTypes
<1>2. SendingIsQuiet'
  BY Constants
     DEF IndInv, CallInv, SendingIsQuiet, ModeFitsStep, ChipTypes, DriverTypes
<1>3. BufferFitsStep'
  BY Constants
     DEF IndInv, CallInv, BufferFitsStep, ModeFitsStep, ChipTypes, DriverTypes
<1> QED BY <1>1, <1>2, <1>3 DEF CallInv

LEMMA TxCheckKeepsCall == ASSUME IndInv, CallInv, TxCheck PROVE CallInv'
<1> USE DEF TxCheck
<1>1. BootIsQuiet'
  BY Constants
     DEF IndInv, CallInv, BootIsQuiet, Booting, ModeFitsStep, ChipTypes, DriverTypes
<1>2. SendingIsQuiet'
  BY Constants
     DEF IndInv, CallInv, SendingIsQuiet, ModeFitsStep, ChipTypes, DriverTypes
<1>3. BufferFitsStep'
  BY Constants
     DEF IndInv, CallInv, BufferFitsStep, ModeFitsStep, ChipTypes, DriverTypes
<1> QED BY <1>1, <1>2, <1>3 DEF CallInv

LEMMA TxClearKeepsCall == ASSUME IndInv, CallInv, TxClear PROVE CallInv'
<1> USE DEF TxClear, Step
<1>1. BootIsQuiet'
  BY Constants
     DEF IndInv, CallInv, BootIsQuiet, Booting, ModeFitsStep, ChipTypes, DriverTypes
<1>2. SendingIsQuiet'
  BY Constants
     DEF IndInv, CallInv, SendingIsQuiet, ModeFitsStep, ChipTypes, DriverTypes
<1>3. BufferFitsStep'
  BY Constants
     DEF IndInv, CallInv, BufferFitsStep, ModeFitsStep, ChipTypes, DriverTypes
<1> QED BY <1>1, <1>2, <1>3 DEF CallInv

LEMMA TxStandbyKeepsCall == ASSUME IndInv, CallInv, TxStandby PROVE CallInv'
<1> USE DEF TxStandby, WriteOpMode, Step
<1>1. BootIsQuiet'
  BY Constants
     DEF IndInv, CallInv, BootIsQuiet, Booting, ModeFitsStep, ChipTypes, DriverTypes
<1>2. SendingIsQuiet'
  BY Constants
     DEF IndInv, CallInv, SendingIsQuiet, ModeFitsStep, ChipTypes, DriverTypes
<1>3. BufferFitsStep'
  BY Constants
     DEF IndInv, CallInv, BufferFitsStep, ModeFitsStep, ChipTypes, DriverTypes
<1> QED BY <1>1, <1>2, <1>3 DEF CallInv

LEMMA RxSetupKeepsCall == ASSUME IndInv, CallInv, RxSetup PROVE CallInv'
<1> USE DEF RxSetup, Step
<1>1. BootIsQuiet'
  BY Constants
     DEF IndInv, CallInv, BootIsQuiet, Booting, ModeFitsStep, ChipTypes, DriverTypes
<1>2. SendingIsQuiet'
  BY Constants
     DEF IndInv, CallInv, SendingIsQuiet, ModeFitsStep, ChipTypes, DriverTypes
<1>3. BufferFitsStep'
  BY Constants
     DEF IndInv, CallInv, BufferFitsStep, ModeFitsStep, ChipTypes, DriverTypes
<1> QED BY <1>1, <1>2, <1>3 DEF CallInv

LEMMA RxGoKeepsCall == ASSUME IndInv, CallInv, RxGo PROVE CallInv'
<1> USE DEF RxGo, WriteOpMode, Step
<1>1. BootIsQuiet'
  BY Constants
     DEF IndInv, CallInv, BootIsQuiet, Booting, ModeFitsStep, ChipTypes, DriverTypes
<1>2. SendingIsQuiet'
  BY Constants
     DEF IndInv, CallInv, SendingIsQuiet, ModeFitsStep, ChipTypes, DriverTypes
<1>3. BufferFitsStep'
  BY Constants
     DEF IndInv, CallInv, BufferFitsStep, ModeFitsStep, ChipTypes, DriverTypes
<1> QED BY <1>1, <1>2, <1>3 DEF CallInv

LEMMA RxAddrKeepsCall == ASSUME IndInv, CallInv, RxAddr PROVE CallInv'
<1> USE DEF RxAddr, Write, Step
<1>1. BootIsQuiet'
  BY Constants
     DEF IndInv, CallInv, BootIsQuiet, Booting, ModeFitsStep, ChipTypes, DriverTypes
<1>2. SendingIsQuiet'
  BY Constants
     DEF IndInv, CallInv, SendingIsQuiet, ModeFitsStep, ChipTypes, DriverTypes
<1>3. BufferFitsStep'
  BY Constants
     DEF IndInv, CallInv, BufferFitsStep, ModeFitsStep, ChipTypes, DriverTypes
<1> QED BY <1>1, <1>2, <1>3 DEF CallInv

LEMMA RxSizeKeepsCall == ASSUME IndInv, CallInv, RxSize PROVE CallInv'
<1> USE DEF RxSize
<1>1. BootIsQuiet'
  BY Constants
     DEF IndInv, CallInv, BootIsQuiet, Booting, ModeFitsStep, ChipTypes, DriverTypes
<1>2. SendingIsQuiet'
  BY Constants
     DEF IndInv, CallInv, SendingIsQuiet, ModeFitsStep, ChipTypes, DriverTypes
<1>3. BufferFitsStep'
  <2>1. packetSize' <= 1 => Len(rxBuffer') = packetSize'
    <3>1. packetSize' \in 0..FifoSize
      BY DEF IndInv, ChipTypes
    <3>2. packetSize' <= 1 => packetSize' \in 0..1
      BY <3>1, Constants
    <3> QED BY <3>2, UnreadTyped
  <2> QED BY <2>1 DEF CallInv, BufferFitsStep
<1> QED BY <1>1, <1>2, <1>3 DEF CallInv

LEMMA RxBurstKeepsCall == ASSUME IndInv, CallInv, RxBurst PROVE CallInv'
<1> USE DEF RxBurst
<1>1. BootIsQuiet'
  BY Constants
     DEF IndInv, CallInv, BootIsQuiet, Booting, ModeFitsStep, ChipTypes, DriverTypes
<1>2. SendingIsQuiet'
  BY Constants
     DEF IndInv, CallInv, SendingIsQuiet, ModeFitsStep, ChipTypes, DriverTypes
<1>3. BufferFitsStep'
  BY Constants
     DEF IndInv, CallInv, BufferFitsStep, ModeFitsStep, ChipTypes, DriverTypes
<1> QED BY <1>1, <1>2, <1>3 DEF CallInv

LEMMA RxClearKeepsCall == ASSUME IndInv, CallInv, RxClear PROVE CallInv'
<1> USE DEF RxClear, Step
<1>1. BootIsQuiet'
  BY Constants
     DEF IndInv, CallInv, BootIsQuiet, Booting, ModeFitsStep, ChipTypes, DriverTypes
<1>2. SendingIsQuiet'
  BY Constants
     DEF IndInv, CallInv, SendingIsQuiet, ModeFitsStep, ChipTypes, DriverTypes
<1>3. BufferFitsStep'
  BY Constants
     DEF IndInv, CallInv, BufferFitsStep, ModeFitsStep, ChipTypes, DriverTypes
<1> QED BY <1>1, <1>2, <1>3 DEF CallInv

LEMMA TransmitKeepsCall ==
  ASSUME IndInv, CallInv, NEW f \in Uplinks, Transmit(f) PROVE CallInv'
<1> USE DEF Transmit, EnterSleep, WriteOpMode, Step
<1>1. BootIsQuiet'
  BY Constants
     DEF IndInv, CallInv, BootIsQuiet, Booting, ModeFitsStep, ChipTypes, DriverTypes
<1>2. SendingIsQuiet'
  BY Constants
     DEF IndInv, CallInv, SendingIsQuiet, ModeFitsStep, ChipTypes, DriverTypes
<1>3. BufferFitsStep'
  BY Constants
     DEF IndInv, CallInv, BufferFitsStep, ModeFitsStep, ChipTypes, DriverTypes
<1> QED BY <1>1, <1>2, <1>3 DEF CallInv

LEMMA ReceiveKeepsCall == ASSUME IndInv, CallInv, Receive PROVE CallInv'
<1> USE DEF Receive, WriteOpMode, Step
<1>1. BootIsQuiet'
  BY Constants
     DEF IndInv, CallInv, BootIsQuiet, Booting, ModeFitsStep, ChipTypes, DriverTypes
<1>2. SendingIsQuiet'
  BY Constants
     DEF IndInv, CallInv, SendingIsQuiet, ModeFitsStep, ChipTypes, DriverTypes
<1>3. BufferFitsStep'
  BY Constants
     DEF IndInv, CallInv, BufferFitsStep, ModeFitsStep, ChipTypes, DriverTypes
<1> QED BY <1>1, <1>2, <1>3 DEF CallInv

LEMMA AvailableKeepsCall == ASSUME IndInv, CallInv, Available PROVE CallInv'
<1> USE DEF Available, DIO0
<1>1. BootIsQuiet'
  BY Constants
     DEF IndInv, CallInv, BootIsQuiet, Booting, ModeFitsStep, ChipTypes, DriverTypes
<1>2. SendingIsQuiet'
  BY Constants
     DEF IndInv, CallInv, SendingIsQuiet, ModeFitsStep, ChipTypes, DriverTypes
<1>3. BufferFitsStep'
  BY Constants DEF IndInv, CallInv, BufferFitsStep, SetForDirection, SetToReceive,
         ModeFitsStep, ChipTypes, DriverTypes
<1> QED BY <1>1, <1>2, <1>3 DEF CallInv

LEMMA ReadKeepsCall == ASSUME IndInv, CallInv, Read PROVE CallInv'
<1> USE DEF Read
<1>1. BootIsQuiet'
  BY Constants
     DEF IndInv, CallInv, BootIsQuiet, Booting, ModeFitsStep, ChipTypes, DriverTypes
<1>2. SendingIsQuiet'
  BY Constants
     DEF IndInv, CallInv, SendingIsQuiet, ModeFitsStep, ChipTypes, DriverTypes
<1>3. BufferFitsStep'
  BY Constants
     DEF IndInv, CallInv, BufferFitsStep, ModeFitsStep, ChipTypes, DriverTypes
<1> QED BY <1>1, <1>2, <1>3 DEF CallInv

LEMMA SleepRadioKeepsCall == ASSUME IndInv, CallInv, SleepRadio PROVE CallInv'
<1> USE DEF SleepRadio, WriteOpMode
<1>1. BootIsQuiet'
  BY Constants
     DEF IndInv, CallInv, BootIsQuiet, Booting, ModeFitsStep, ChipTypes, DriverTypes
<1>2. SendingIsQuiet'
  BY Constants
     DEF IndInv, CallInv, SendingIsQuiet, ModeFitsStep, ChipTypes, DriverTypes
<1>3. BufferFitsStep'
  BY Constants
     DEF IndInv, CallInv, BufferFitsStep, ModeFitsStep, ChipTypes, DriverTypes
<1> QED BY <1>1, <1>2, <1>3 DEF CallInv

LEMMA ChipTxDoneKeepsCall == ASSUME IndInv, CallInv, ChipTxDone PROVE CallInv'
<1> USE DEF ChipTxDone, Raise
<1>1. BootIsQuiet'
  BY Constants
     DEF IndInv, CallInv, BootIsQuiet, Booting, ModeFitsStep, ChipTypes, DriverTypes
<1>2. SendingIsQuiet'
  BY Constants
     DEF IndInv, CallInv, SendingIsQuiet, ModeFitsStep, ChipTypes, DriverTypes
<1>3. BufferFitsStep'
  BY Constants
     DEF IndInv, CallInv, BufferFitsStep, ModeFitsStep, ChipTypes, DriverTypes
<1> QED BY <1>1, <1>2, <1>3 DEF CallInv

LEMMA ChipHearsFrameKeepsCall ==
  ASSUME IndInv, CallInv, ChipHearsFrame PROVE CallInv'
<1> USE DEF ChipHearsFrame
<1>1. BootIsQuiet'
  BY Constants
     DEF IndInv, CallInv, BootIsQuiet, Booting, ModeFitsStep, ChipTypes, DriverTypes
<1>2. SendingIsQuiet'
  BY Constants
     DEF IndInv, CallInv, SendingIsQuiet, ModeFitsStep, ChipTypes, DriverTypes
<1>3. BufferFitsStep'
  BY Constants
     DEF IndInv, CallInv, BufferFitsStep, ModeFitsStep, ChipTypes, DriverTypes
<1> QED BY <1>1, <1>2, <1>3 DEF CallInv

LEMMA ChipStoresByteKeepsCall ==
  ASSUME IndInv, CallInv, ChipStoresByte PROVE CallInv'
<1> USE DEF ChipStoresByte
<1>1. BootIsQuiet'
  BY Constants
     DEF IndInv, CallInv, BootIsQuiet, Booting, ModeFitsStep, ChipTypes, DriverTypes
<1>2. SendingIsQuiet'
  BY Constants
     DEF IndInv, CallInv, SendingIsQuiet, ModeFitsStep, ChipTypes, DriverTypes
<1>3. BufferFitsStep'
  BY Constants
     DEF IndInv, CallInv, BufferFitsStep, ModeFitsStep, ChipTypes, DriverTypes
<1> QED BY <1>1, <1>2, <1>3 DEF CallInv

LEMMA ChipEndsFrameKeepsCall == ASSUME IndInv, CallInv, ChipEndsFrame PROVE CallInv'
<1> USE DEF ChipEndsFrame, Raise
<1>1. BootIsQuiet'
  BY Constants
     DEF IndInv, CallInv, BootIsQuiet, Booting, ModeFitsStep, ChipTypes, DriverTypes
<1>2. SendingIsQuiet'
  BY Constants
     DEF IndInv, CallInv, SendingIsQuiet, ModeFitsStep, ChipTypes, DriverTypes
<1>3. BufferFitsStep'
  BY Constants
     DEF IndInv, CallInv, BufferFitsStep, ModeFitsStep, ChipTypes, DriverTypes
<1> QED BY <1>1, <1>2, <1>3 DEF CallInv

LEMMA RestartKeepsCall == ASSUME IndInv, CallInv, Restart PROVE CallInv'
<1> USE DEF Restart
<1>1. BootIsQuiet'
  BY Constants
     DEF IndInv, CallInv, BootIsQuiet, Booting, ModeFitsStep, ChipTypes, DriverTypes
<1>2. SendingIsQuiet'
  BY Constants
     DEF IndInv, CallInv, SendingIsQuiet, ModeFitsStep, ChipTypes, DriverTypes
<1>3. BufferFitsStep'
  BY Constants
     DEF IndInv, CallInv, BufferFitsStep, ModeFitsStep, ChipTypes, DriverTypes
<1> QED BY <1>1, <1>2, <1>3 DEF CallInv

LEMMA NextKeepsCall == ASSUME IndInv, CallInv, [Next]_vars PROVE CallInv'
<1>1. CASE HardwareReset
  BY <1>1, HardwareResetKeepsCall
<1>2. CASE ConfigSleep
  BY <1>2, ConfigSleepKeepsCall
<1>3. CASE ConfigLoRa
  BY <1>3, ConfigLoRaKeepsCall
<1>4. CASE ConfigSettings
  BY <1>4, ConfigSettingsKeepsCall
<1>5. CASE ConfigStandby
  BY <1>5, ConfigStandbyKeepsCall
<1>6. CASE TxSetup
  BY <1>6, TxSetupKeepsCall
<1>7. CASE TxPointer
  BY <1>7, TxPointerKeepsCall
<1>8. CASE TxLoad
  BY <1>8, TxLoadKeepsCall
<1>9. CASE TxGo
  BY <1>9, TxGoKeepsCall
<1>10. CASE TxPoll
  BY <1>10, TxPollKeepsCall
<1>11. CASE TxCheck
  BY <1>11, TxCheckKeepsCall
<1>12. CASE TxClear
  BY <1>12, TxClearKeepsCall
<1>13. CASE TxStandby
  BY <1>13, TxStandbyKeepsCall
<1>14. CASE RxSetup
  BY <1>14, RxSetupKeepsCall
<1>15. CASE RxGo
  BY <1>15, RxGoKeepsCall
<1>16. CASE RxAddr
  BY <1>16, RxAddrKeepsCall
<1>17. CASE RxSize
  BY <1>17, RxSizeKeepsCall
<1>18. CASE RxBurst
  BY <1>18, RxBurstKeepsCall
<1>19. CASE RxClear
  BY <1>19, RxClearKeepsCall
<1>20. CASE \E f \in Uplinks : Transmit(f)
  BY <1>20, TransmitKeepsCall
<1>21. CASE Receive
  BY <1>21, ReceiveKeepsCall
<1>22. CASE Available
  BY <1>22, AvailableKeepsCall
<1>23. CASE Read
  BY <1>23, ReadKeepsCall
<1>24. CASE SleepRadio
  BY <1>24, SleepRadioKeepsCall
<1>25. CASE ChipTxDone
  BY <1>25, ChipTxDoneKeepsCall
<1>26. CASE ChipHearsFrame
  BY <1>26, ChipHearsFrameKeepsCall
<1>27. CASE ChipStoresByte
  BY <1>27, ChipStoresByteKeepsCall
<1>28. CASE ChipEndsFrame
  BY <1>28, ChipEndsFrameKeepsCall
<1>29. CASE Restart
  BY <1>29, RestartKeepsCall
<1>30. CASE UNCHANGED vars
  BY <1>30 DEF vars, CallInv, BootIsQuiet, Booting, SendingIsQuiet, BufferFitsStep
<1> QED BY <1>1, <1>2, <1>3, <1>4, <1>5, <1>6, <1>7, <1>8, <1>9, <1>10, <1>11,
         <1>12, <1>13, <1>14, <1>15, <1>16, <1>17, <1>18, <1>19, <1>20, <1>21,
         <1>22, <1>23, <1>24, <1>25, <1>26, <1>27, <1>28, <1>29, <1>30 DEF Next,
         Driver, Caller, Chip

LEMMA InitCall == ASSUME Init PROVE CallInv
  BY DEF Init, PowerOn, CallInv, BootIsQuiet, SendingIsQuiet, BufferFitsStep

\* What RadioDriver sees while a call is under way, and between calls.
Quiet(mode, dio) ==
  /\ RadioMode = mode /\ RadioIrq = {} /\ RadioDioMapping = dio
  /\ RadioFifo = NoFrame /\ RadioBuffer = NoFrame

ChipSeen ==
  /\ RadioMode = reg.OpMode /\ RadioIrq = irq /\ RadioDioMapping = reg.DioMapping1
  /\ RadioFifo = IF RxDone \notin irq \/ reg.OpMode = SLEEP
                 THEN NoFrame ELSE Frame(Announced)
  /\ RadioBuffer = IF readBytes = 0 THEN NoFrame ELSE Frame(rxBuffer)

Plain == pc \in {"idle"} \cup Sending \cup Reading

Shown ==
  /\ Starting => Quiet(TX, TxDone)
  /\ Booting => Quiet(STANDBY, RxDone)
  /\ pc \in Arming => Quiet(RX, RxDone)
  /\ Plain => ChipSeen
  /\ Starting \/ Booting \/ pc \in Arming \/ Plain

LEMMA ShownNow == IndInv => Shown
<1> SUFFICES ASSUME IndInv PROVE Shown
  OBVIOUS
<1> USE DEF RadioMode, RadioIrq, RadioDioMapping, RadioFifo, RadioBuffer, Calling
<1>1. Starting => Quiet(TX, TxDone)
  <2>1. Starting => ~Booting /\ pc \notin Arming
    BY DEF Starting, Booting, IndInv, ModeFitsStep
  <2> QED BY <2>1 DEF Quiet
<1>2. Booting => Quiet(STANDBY, RxDone)
  <2>1. Booting => ~Starting /\ pc \notin Arming
    BY DEF Starting, Booting
  <2> QED BY <2>1 DEF Quiet
<1>3. pc \in Arming => Quiet(RX, RxDone)
  <2>1. pc \in Arming => ~Starting /\ ~Booting
    BY DEF Starting, Booting, IndInv, ModeFitsStep
  <2> QED BY <2>1 DEF Quiet
<1>4. Plain => ChipSeen
  <2>1. Plain => ~Starting /\ ~Booting /\ pc \notin Arming
    BY DEF Plain, Starting, Booting, IndInv, ModeFitsStep
  <2> QED BY <2>1 DEF ChipSeen
<1>5. Starting \/ Booting \/ pc \in Arming \/ Plain
  BY DEF IndInv, DriverTypes, ModeFitsStep, Starting, Booting, Plain
<1> QED BY <1>1, <1>2, <1>3, <1>4, <1>5 DEF Shown

LEMMA ShownNext == IndInv' => Shown'
  BY ShownNow, PTL

\* The frame that RadioDriver sees announced, by step.
AnnouncedByStep ==
  /\ pc = "rxSize" => Announced = Whole(reg.FifoAddrPtr, reg.RxNbBytes)
  /\ pc = "rxBurst" => Announced = rxBuffer \o Cells(reg.FifoAddrPtr + Len(rxBuffer),
                                                   packetSize - Len(rxBuffer))
  /\ pc = "rxClear" => Announced = rxBuffer
  /\ pc \notin {"rxSize", "rxBurst", "rxClear"} =>
       Announced = Whole(reg.RxCurrentAddr, reg.RxNbBytes)

LEMMA AnnouncedNow == AnnouncedByStep
  BY DEF AnnouncedByStep, Announced

LEMMA AnnouncedNext == AnnouncedByStep'
  BY AnnouncedNow, PTL

\* Reading one cell more does not change what will be handed over.
LEMMA BurstGoesOn ==
  ASSUME ChipTypes, NEW s \in Seq(Contents), NEW b \in Int, NEW n \in Nat, n > 0
  PROVE  Append(s, fifo[b % FifoSize]) \o Cells(b + 1, n - 1) = s \o Cells(b, n)
<1> DEFINE t == Append(s, fifo[b % FifoSize])
           u == Cells(b + 1, n - 1)
           v == Cells(b, n)
<1>1. ASSUME NEW c \in Int PROVE c % FifoSize \in Addrs /\ fifo[c % FifoSize] \in Contents
  <2>1. c % FifoSize \in Addrs
    BY Constants
  <2> QED BY <2>1 DEF ChipTypes
<1>2. u \in Seq(Contents) /\ Len(u) = n - 1
  BY <1>1 DEF Cells
<1>3. v \in Seq(Contents) /\ Len(v) = n
  BY <1>1 DEF Cells
<1>4. t \in Seq(Contents) /\ Len(t) = Len(s) + 1
  BY <1>1
<1>5. /\ \A i \in 1..(n - 1) : u[i] = v[i + 1]
      /\ v[1] = fifo[b % FifoSize]
  <2>1. ASSUME NEW i \in 1..(n - 1) PROVE u[i] = v[i + 1]
    <3>1. (b + 1) + i - 1 = b + (i + 1) - 1 /\ i + 1 \in 1..n
      OBVIOUS
    <3> QED BY <3>1 DEF Cells
  <2>2. 1 \in 1..n /\ b + 1 - 1 = b
    OBVIOUS
  <2> QED BY <2>1, <2>2 DEF Cells
<1>6. /\ \A i \in 1..Len(s) : t[i] = s[i]
      /\ t[Len(s) + 1] = fifo[b % FifoSize]
  BY <1>1
<1> HIDE DEF t, u, v
<1>7. t \o u \in Seq(Contents) /\ Len(t \o u) = Len(s) + n
  <2>1. t \o u \in Seq(Contents) /\ Len(t \o u) = Len(t) + Len(u)
    BY <1>2, <1>4, ConcatProperties
  <2>2. Len(s) \in Nat
    BY LenProperties
  <2>3. Len(t) + Len(u) = Len(s) + n
    BY <1>2, <1>4, <2>2
  <2> QED BY <2>1, <2>3
<1>8. s \o v \in Seq(Contents) /\ Len(s \o v) = Len(s) + n
  BY <1>3, ConcatProperties
<1>9. ASSUME NEW i \in 1..(Len(s) + n) PROVE (t \o u)[i] = (s \o v)[i]
  <2>1. (s \o v)[i] = IF i <= Len(s) THEN s[i] ELSE v[i - Len(s)]
    BY <1>3, <1>8, ConcatProperties
  <2>2. (t \o u)[i] = IF i <= Len(s) + 1 THEN t[i] ELSE u[i - (Len(s) + 1)]
    BY <1>2, <1>4, <1>7, ConcatProperties
  <2>3. CASE i <= Len(s)
    BY <1>6, <2>1, <2>2, <2>3
  <2>4. CASE i = Len(s) + 1
    BY <1>5, <1>6, <2>1, <2>2, <2>4
  <2>5. CASE i > Len(s) + 1
    <3>1. /\ i - (Len(s) + 1) \in 1..(n - 1)
          /\ (i - (Len(s) + 1)) + 1 = i - Len(s)
      BY <2>5
    <3>2. u[i - (Len(s) + 1)] = v[i - Len(s)]
      BY <1>5, <3>1
    <3>3. Len(s) \in Nat
      BY LenProperties
    <3> QED BY <2>1, <2>2, <2>5, <3>2, <3>3
  <2>6. i <= Len(s) \/ i = Len(s) + 1 \/ i > Len(s) + 1
    <3>1. Len(s) \in Nat
      BY LenProperties
    <3> QED BY <3>1
  <2> QED BY ONLY <2>3, <2>4, <2>5, <2>6
<1>10. /\ t \o u = [i \in 1..(Len(s) + n) |-> (t \o u)[i]]
       /\ s \o v = [i \in 1..(Len(s) + n) |-> (s \o v)[i]]
  BY <1>7, <1>8, SequenceAsFunction
<1>11. t \o u = s \o v
  BY <1>9, <1>10
<1> QED BY <1>11 DEF t, u, v

\* The steps of RadioDriver, as what it sees.
RadioStep == [Radio!Next(Frame(Announced'))]_(Radio!radioVars)

LEMMA Stutters ==
  ASSUME RadioMode' = RadioMode, RadioIrq' = RadioIrq,
         RadioDioMapping' = RadioDioMapping,
         RadioFifo' = RadioFifo, RadioBuffer' = RadioBuffer
  PROVE  RadioStep
  BY DEF RadioStep, Radio!radioVars

\* A step of a call already under way.
LEMMA CallGoesOn ==
  ASSUME IndInv, IndInv',
         \/ Starting /\ Starting'
         \/ Booting /\ Booting'
         \/ pc \in Arming /\ pc' \in Arming
  PROVE  RadioStep
<1>1. Shown /\ Shown'
  BY ShownNow, ShownNext
<1>2. CASE Starting /\ Starting'
  BY <1>1, <1>2, Stutters DEF Shown, Quiet
<1>3. CASE Booting /\ Booting'
  BY <1>1, <1>3, Stutters DEF Shown, Quiet
<1>4. CASE pc \in Arming /\ pc' \in Arming
  BY <1>1, <1>4, Stutters DEF Shown, Quiet
<1> QED BY <1>2, <1>3, <1>4

LEMMA Resets == ASSUME IndInv', Booting' PROVE RadioStep
<1>1. Quiet(STANDBY, RxDone)'
  BY ShownNext DEF Shown
<1>2. Radio!ResetAndConfig
  BY <1>1 DEF Quiet, Radio!ResetAndConfig, Radio!STANDBY, Radio!RxDone
<1> QED BY <1>2 DEF RadioStep, Radio!Next

LEMMA Starts == ASSUME IndInv', Starting' PROVE RadioStep
<1>1. Quiet(TX, TxDone)'
  BY ShownNext DEF Shown
<1>2. Radio!StartTx
  BY <1>1 DEF Quiet, Radio!StartTx, Radio!TX, Radio!TxDone
<1> QED BY <1>2 DEF RadioStep, Radio!Next

LEMMA Arms == ASSUME IndInv', pc' \in Arming PROVE RadioStep
<1>1. Quiet(RX, RxDone)'
  BY ShownNext DEF Shown
<1>2. Radio!Receive
  BY <1>1 DEF Quiet, Radio!Receive, Radio!RX, Radio!RxDone
<1> QED BY <1>2 DEF RadioStep, Radio!Next

\* A step between the calls, or a poll, that changes nothing RadioDriver sees.
LEMMA NothingSeen ==
  ASSUME IndInv, IndInv', Plain, Plain',
         reg'.OpMode = reg.OpMode, reg'.DioMapping1 = reg.DioMapping1, irq' = irq,
         readBytes' = readBytes, readBytes # 0 => rxBuffer' = rxBuffer,
         RxDone \in irq /\ reg.OpMode # SLEEP => Announced' = Announced
  PROVE  RadioStep
<1>1. ChipSeen /\ ChipSeen'
  BY ShownNow, ShownNext DEF Shown
<1> QED BY <1>1, Stutters DEF ChipSeen

LEMMA CellsTyped ==
  ASSUME ChipTypes, NEW a \in Int, NEW n \in Nat PROVE Cells(a, n) \in Seq(Contents)
<1>1. ASSUME NEW c \in Int PROVE fifo[c % FifoSize] \in Contents
  <2>1. c % FifoSize \in Addrs
    BY Constants
  <2> QED BY <2>1 DEF ChipTypes
<1> QED BY <1>1 DEF Cells

LEMMA HardwareResetShown ==
  ASSUME IndInv, IndInv', CallInv, CallInv', HardwareReset PROVE RadioStep
<1>1. Booting /\ Booting'
  BY DEF HardwareReset, Step, Booting, IndInv, ModeFitsStep, DriverTypes
<1> QED BY <1>1, CallGoesOn

LEMMA ConfigSleepShown ==
  ASSUME IndInv, IndInv', CallInv, CallInv', ConfigSleep PROVE RadioStep
<1>1. Booting /\ Booting'
  BY DEF ConfigSleep, Step, Booting, IndInv, ModeFitsStep, DriverTypes
<1> QED BY <1>1, CallGoesOn

LEMMA ConfigLoRaShown ==
  ASSUME IndInv, IndInv', CallInv, CallInv', ConfigLoRa PROVE RadioStep
<1>1. (Starting /\ Starting') \/ (Booting /\ Booting')
  BY DEF ConfigLoRa, Step, Starting, Booting, IndInv, DriverTypes
<1> QED BY <1>1, CallGoesOn

LEMMA ConfigSettingsShown ==
  ASSUME IndInv, IndInv', CallInv, CallInv', ConfigSettings PROVE RadioStep
<1>1. (Starting /\ Starting') \/ (Booting /\ Booting')
  BY DEF ConfigSettings, Step, Starting, Booting, IndInv, DriverTypes
<1> QED BY <1>1, CallGoesOn

LEMMA ConfigStandbyShown ==
  ASSUME IndInv, IndInv', CallInv, CallInv', ConfigStandby PROVE RadioStep
<1>1. CASE ret = "txSetup"
  BY <1>1, CallGoesOn DEF ConfigStandby, Starting
<1>2. CASE ret = "idle"
  <2>1. Booting /\ Plain'
    BY <1>2 DEF ConfigStandby, Booting, Plain
  <2>2. /\ reg'.OpMode = STANDBY /\ irq' = {} /\ reg'.DioMapping1 = RxDone
        /\ readBytes' = 0
    BY <1>2 DEF ConfigStandby, WriteOpMode, Booting, CallInv, BootIsQuiet,
                BufferFitsStep, IndInv, ChipTypes
  <2>3. Quiet(STANDBY, RxDone) /\ ChipSeen'
    BY <2>1, ShownNow, ShownNext DEF Shown
  <2> QED BY <2>2, <2>3, Stutters DEF Quiet, ChipSeen
<1> QED BY <1>1, <1>2 DEF IndInv, DriverTypes

LEMMA TxSetupShown ==
  ASSUME IndInv, IndInv', CallInv, CallInv', TxSetup PROVE RadioStep
<1>1. Starting /\ Starting'
  BY DEF TxSetup, Step, Starting
<1> QED BY <1>1, CallGoesOn

LEMMA TxPointerShown ==
  ASSUME IndInv, IndInv', CallInv, CallInv', TxPointer PROVE RadioStep
<1>1. Starting
  BY DEF TxPointer, Starting
<1>2. CASE pc' = "txLoad"
  BY <1>1, <1>2, CallGoesOn DEF Starting
<1>3. CASE pc' = "reset"
  <2>1. Booting'
    BY <1>3 DEF TxPointer, Booting, IndInv, ModeFitsStep, DriverTypes
  <2> QED BY <2>1, Resets
<1> QED BY <1>2, <1>3 DEF TxPointer

LEMMA TxLoadShown ==
  ASSUME IndInv, IndInv', CallInv, CallInv', TxLoad PROVE RadioStep
<1>1. Starting /\ Starting'
  BY DEF TxLoad, Step, Starting
<1> QED BY <1>1, CallGoesOn

LEMMA TxGoShown ==
  ASSUME IndInv, IndInv', CallInv, CallInv', TxGo PROVE RadioStep
<1>1. Starting /\ Plain'
  BY DEF TxGo, Step, Starting, Plain
<1>2. /\ reg'.OpMode = TX /\ irq' = {} /\ reg'.DioMapping1 = TxDone
      /\ readBytes' = 0
  BY DEF TxGo, Step, WriteOpMode, CallInv, SendingIsQuiet, BufferFitsStep, IndInv,
         ChipTypes, SetForDirection, SetToSend
<1>3. Quiet(TX, TxDone) /\ ChipSeen'
  BY <1>1, ShownNow, ShownNext DEF Shown
<1> QED BY <1>2, <1>3, Stutters DEF Quiet, ChipSeen

LEMMA TxPollShown ==
  ASSUME IndInv, IndInv', CallInv, CallInv', TxPoll PROVE RadioStep
<1>1. Plain /\ Plain'
  BY DEF TxPoll, Plain
<1>2. RxDone \notin irq
  BY DEF TxPoll, CallInv, SendingIsQuiet
<1> QED BY <1>1, <1>2, NothingSeen DEF TxPoll

LEMMA TxCheckShown ==
  ASSUME IndInv, IndInv', CallInv, CallInv', TxCheck PROVE RadioStep
<1>1. CASE pc' = "reset"
  <2>1. Booting'
    BY <1>1 DEF TxCheck, Booting, IndInv, ModeFitsStep, DriverTypes
  <2> QED BY <2>1, Resets
<1>2. CASE pc' = "txPoll"
  <2>1. Plain /\ Plain'
    BY <1>2 DEF TxCheck, Plain
  <2>2. RxDone \notin irq
    BY DEF TxCheck, CallInv, SendingIsQuiet
  <2> QED BY <2>1, <2>2, NothingSeen DEF TxCheck
<1> QED BY <1>1, <1>2 DEF TxCheck

LEMMA TxClearShown ==
  ASSUME IndInv, IndInv', CallInv, CallInv', TxClear PROVE RadioStep
<1>1. Plain /\ Plain'
  BY DEF TxClear, Step, Plain
<1>2. ChipSeen /\ ChipSeen'
  BY <1>1, ShownNow, ShownNext DEF Shown
<1>3. /\ RxDone \notin irq /\ reg.OpMode = STANDBY /\ readBytes = 0
      /\ reg' = reg /\ irq' = {} /\ readBytes' = 0
  BY DEF TxClear, Step, CallInv, SendingIsQuiet, BufferFitsStep
<1>4. Radio!FinishTx
  BY <1>2, <1>3 DEF ChipSeen, Radio!FinishTx, Radio!STANDBY
<1> QED BY <1>4 DEF RadioStep, Radio!Next

LEMMA TxStandbyShown ==
  ASSUME IndInv, IndInv', CallInv, CallInv', TxStandby PROVE RadioStep
<1>1. Plain /\ Plain'
  BY DEF TxStandby, Step, Plain
<1>2. /\ reg.OpMode = STANDBY /\ reg'.OpMode = STANDBY /\ irq = {} /\ irq' = irq
      /\ reg'.DioMapping1 = reg.DioMapping1 /\ readBytes = 0 /\ readBytes' = 0
  BY DEF TxStandby, Step, WriteOpMode, CallInv, SendingIsQuiet, BufferFitsStep,
         IndInv, ChipTypes
<1> QED BY <1>1, <1>2, NothingSeen

LEMMA RxSetupShown ==
  ASSUME IndInv, IndInv', CallInv, CallInv', RxSetup PROVE RadioStep
<1> QED BY CallGoesOn DEF RxSetup, Step

LEMMA RxGoShown ==
  ASSUME IndInv, IndInv', CallInv, CallInv', RxGo PROVE RadioStep
<1>1. pc \in Arming /\ Plain'
  BY DEF RxGo, Step, Plain
<1>2. /\ reg'.OpMode = RX /\ irq' = {} /\ reg'.DioMapping1 = RxDone
      /\ readBytes' = 0
  BY DEF RxGo, Step, WriteOpMode, IndInv, ChipTypes, SetForDirection, SetToReceive
<1>3. Quiet(RX, RxDone) /\ ChipSeen'
  BY <1>1, ShownNow, ShownNext DEF Shown
<1> QED BY <1>2, <1>3, Stutters DEF Quiet, ChipSeen

LEMMA RxAddrShown ==
  ASSUME IndInv, IndInv', CallInv, CallInv', RxAddr PROVE RadioStep
<1>1. Plain /\ Plain'
  BY DEF RxAddr, Step, Plain
<1>2. /\ reg'.OpMode = reg.OpMode /\ reg'.DioMapping1 = reg.DioMapping1
      /\ reg'.RxNbBytes = reg.RxNbBytes /\ reg'.FifoAddrPtr = reg.RxCurrentAddr
  BY DEF RxAddr, Write, IndInv, ChipTypes
<1>3. Announced' = Announced
  <2>1. /\ Announced = Whole(reg.RxCurrentAddr, reg.RxNbBytes)
        /\ Announced' = Whole(reg.FifoAddrPtr, reg.RxNbBytes)'
    BY AnnouncedNow, AnnouncedNext DEF AnnouncedByStep, RxAddr, Step
  <2> QED BY <1>2, <2>1 DEF RxAddr, Whole, Cells, Unread
<1>4. readBytes' = readBytes /\ irq' = irq /\ rxBuffer' = rxBuffer
  BY DEF RxAddr
<1> QED BY <1>1, <1>2, <1>3, <1>4, NothingSeen

LEMMA RxSizeShown ==
  ASSUME IndInv, IndInv', CallInv, CallInv', RxSize PROVE RadioStep
<1>1. Plain /\ Plain'
  BY DEF RxSize, Plain
<1>2. Announced' = Announced
  <2>1. Announced = Whole(reg.FifoAddrPtr, reg.RxNbBytes)
    BY AnnouncedNow DEF AnnouncedByStep, RxSize
  <2>2. CASE reg.RxNbBytes <= 1
    <3>1. pc' = "rxClear" /\ rxBuffer' = Unread(reg.RxNbBytes)
      BY <2>2 DEF RxSize
    <3>2. Announced' = rxBuffer'
      BY <3>1, AnnouncedNext DEF AnnouncedByStep
    <3> QED BY <2>1, <2>2, <3>1, <3>2 DEF Whole
  <2>3. CASE ~(reg.RxNbBytes <= 1)
    <3>1. /\ pc' = "rxBurst" /\ rxBuffer' = << >> /\ packetSize' = reg.RxNbBytes
          /\ reg' = reg /\ fifo' = fifo
      BY <2>3 DEF RxSize, IndInv, NothingHandedOverStale
    <3>2. /\ Announced' = rxBuffer' \o Cells(reg.FifoAddrPtr + Len(rxBuffer),
                                             packetSize - Len(rxBuffer))'
      BY <3>1, AnnouncedNext DEF AnnouncedByStep
    <3>3. /\ reg.FifoAddrPtr + Len(<< >>) = reg.FifoAddrPtr
          /\ reg.RxNbBytes - Len(<< >>) = reg.RxNbBytes
      BY NothingRead, Constants DEF IndInv, ChipTypes
    <3>4. Cells(reg.FifoAddrPtr, reg.RxNbBytes) \in Seq(Contents)
      BY CellsTyped DEF IndInv, ChipTypes
    <3>5. Announced' = << >> \o Cells(reg.FifoAddrPtr, reg.RxNbBytes)
      BY <3>1, <3>2, <3>3 DEF Cells
    <3>6. << >> \o Cells(reg.FifoAddrPtr, reg.RxNbBytes)
            = Cells(reg.FifoAddrPtr, reg.RxNbBytes)
      BY <3>4, ConcatEmptySeq
    <3> QED BY <2>1, <2>3, <3>5, <3>6 DEF Whole
  <2> QED BY <2>2, <2>3
<1>3. readBytes = 0
  BY DEF RxSize, CallInv, BufferFitsStep
<1> QED BY <1>1, <1>2, <1>3, NothingSeen DEF RxSize

LEMMA RxBurstShown ==
  ASSUME IndInv, IndInv', CallInv, CallInv', RxBurst PROVE RadioStep
<1>1. Plain /\ Plain'
  BY DEF RxBurst, Plain
<1>2. /\ rxBuffer \in Seq(Contents) /\ Len(rxBuffer) \in Nat /\ packetSize \in Nat
      /\ Len(rxBuffer) < packetSize /\ reg.FifoAddrPtr \in Nat
  BY Constants DEF RxBurst, IndInv, ChipTypes, DriverTypes, NothingHandedOverStale
<1> DEFINE a == reg.FifoAddrPtr + Len(rxBuffer)
           n == packetSize - Len(rxBuffer)
<1>3. Announced = rxBuffer \o Cells(a, n)
  BY AnnouncedNow DEF AnnouncedByStep, RxBurst
<1>4. rxBuffer' = Append(rxBuffer, fifo[a % FifoSize])
  BY DEF RxBurst, NextCell
<1>5. a \in Int /\ n \in Nat /\ n > 0
  BY <1>2
<1>6. Announced = rxBuffer' \o Cells(a + 1, n - 1)
  BY <1>2, <1>3, <1>4, <1>5, BurstGoesOn DEF IndInv
<1>7. Len(rxBuffer') = Len(rxBuffer) + 1 /\ rxBuffer' \in Seq(Contents)
  BY <1>2, RxBurstKeeps DEF RxBurst, IndInv, DriverTypes
<1>8. Announced' = rxBuffer' \o Cells(a + 1, n - 1)
  <2>1. CASE pc' = "rxBurst"
    <3>1. Announced' = rxBuffer' \o Cells(reg.FifoAddrPtr + Len(rxBuffer),
                                         packetSize - Len(rxBuffer))'
      BY <2>1, AnnouncedNext DEF AnnouncedByStep
    <3>2. /\ reg'.FifoAddrPtr + Len(rxBuffer') = a + 1
          /\ packetSize' - Len(rxBuffer') = n - 1 /\ fifo' = fifo
      BY <1>2, <1>7 DEF RxBurst
    <3> QED BY <3>1, <3>2 DEF Cells
  <2>2. CASE pc' = "rxClear"
    <3>1. Announced' = rxBuffer'
      BY <2>2, AnnouncedNext DEF AnnouncedByStep
    <3>2. n - 1 = 0
      BY <1>2, <1>7, <2>2 DEF RxBurst
    <3>3. Cells(a + 1, 0) = << >>
      BY DEF Cells
    <3> QED BY <1>7, <3>1, <3>2, <3>3, ConcatEmptySeq
  <2> QED BY <2>1, <2>2 DEF RxBurst
<1>9. readBytes = 0
  BY DEF RxBurst, CallInv, BufferFitsStep
<1>10. Announced' = Announced
  BY <1>6, <1>8
<1> QED BY <1>1, <1>9, <1>10, NothingSeen DEF RxBurst

LEMMA RxClearShown ==
  ASSUME IndInv, IndInv', CallInv, CallInv', RxClear PROVE RadioStep
<1>1. Plain /\ Plain'
  BY DEF RxClear, Step, Plain
<1>2. ChipSeen /\ ChipSeen'
  BY <1>1, ShownNow, ShownNext DEF Shown
<1>3. /\ RxDone \in irq /\ armed /\ reg.OpMode = RX /\ reg.DioMapping1 = RxDone
  BY
     DEF RxClear, Step, CallInv, BufferFitsStep, IndInv, ModeFitsStep,
         SetForDirection,
         SetToReceive
<1>4. RadioFifo = Frame(rxBuffer)
  BY <1>2, <1>3, AnnouncedNow DEF AnnouncedByStep, ChipSeen, RxClear, Step
<1>5. RadioBuffer' = Frame(rxBuffer)
  <2>1. readBytes' = Len(rxBuffer) /\ rxBuffer' = rxBuffer
    BY DEF RxClear, Step, CallInv, BufferFitsStep
  <2>2. CASE Len(rxBuffer) = 0
    <3>1. rxBuffer = << >>
      BY <2>2, EmptySeq DEF IndInv, DriverTypes
    <3> QED BY <1>2, <2>1, <2>2, <3>1 DEF ChipSeen, Frame
  <2>3. CASE Len(rxBuffer) # 0
    BY <1>2, <2>1, <2>3 DEF ChipSeen, Frame
  <2> QED BY <2>2, <2>3
<1>6. /\ RadioIrq' = {} /\ RadioFifo' = NoFrame /\ RadioMode' = RadioMode
      /\ RadioDioMapping' = RadioDioMapping
  BY <1>2 DEF ChipSeen, RxClear
<1>7. Radio!DIO0
  BY <1>2, <1>3 DEF ChipSeen, Radio!DIO0
<1>8. Radio!Available
  BY <1>4, <1>5, <1>6, <1>7 DEF Radio!Available
<1> QED BY <1>8 DEF RadioStep, Radio!Next

LEMMA TransmitShown ==
  ASSUME IndInv, IndInv', CallInv, CallInv', NEW f \in Uplinks, Transmit(f) PROVE RadioStep
<1>1. Starting'
  BY DEF Transmit, Step, Starting
<1> QED BY <1>1, Starts

LEMMA ReceiveShown ==
  ASSUME IndInv, IndInv', CallInv, CallInv', Receive PROVE RadioStep
<1> QED BY Arms DEF Receive, Step

LEMMA AvailableShown ==
  ASSUME IndInv, IndInv', CallInv, CallInv', Available PROVE RadioStep
<1>1. Plain /\ Plain'
  BY DEF Available, Plain
<1>2. Announced' = Announced
  <2>1. /\ Announced = Whole(reg.RxCurrentAddr, reg.RxNbBytes)
        /\ Announced' = Whole(reg.RxCurrentAddr, reg.RxNbBytes)'
    BY AnnouncedNow, AnnouncedNext DEF AnnouncedByStep, Available
  <2> QED BY <2>1 DEF Available, Whole, Cells, Unread
<1> QED BY <1>1, <1>2, NothingSeen DEF Available

LEMMA ReadShown ==
  ASSUME IndInv, IndInv', CallInv, CallInv', Read PROVE RadioStep
<1>1. Plain /\ Plain'
  BY DEF Read, Plain
<1>2. ChipSeen /\ ChipSeen'
  BY <1>1, ShownNow, ShownNext DEF Shown
<1>3. Announced' = Announced
  <2>1. /\ Announced = Whole(reg.RxCurrentAddr, reg.RxNbBytes)
        /\ Announced' = Whole(reg.RxCurrentAddr, reg.RxNbBytes)'
    BY AnnouncedNow, AnnouncedNext DEF AnnouncedByStep, Read
  <2> QED BY <2>1 DEF Read, Whole, Cells, Unread
<1>4. reg' = reg /\ irq' = irq /\ readBytes' = 0
  BY DEF Read
<1>5. Radio!Read
  BY <1>2, <1>3, <1>4 DEF ChipSeen, Radio!Read
<1> QED BY <1>5 DEF RadioStep, Radio!Next

LEMMA SleepRadioShown ==
  ASSUME IndInv, IndInv', CallInv, CallInv', SleepRadio PROVE RadioStep
<1>1. Plain /\ Plain'
  BY DEF SleepRadio, Plain
<1>2. ChipSeen /\ ChipSeen'
  BY <1>1, ShownNow, ShownNext DEF Shown
<1>3. /\ reg'.OpMode = SLEEP /\ reg'.DioMapping1 = reg.DioMapping1
      /\ irq' = irq /\ readBytes' = 0
  BY DEF SleepRadio, WriteOpMode, IndInv, ChipTypes
<1>4. Radio!SleepRadio
  BY <1>2, <1>3 DEF ChipSeen, Radio!SleepRadio, Radio!SLEEP
<1> QED BY <1>4 DEF RadioStep, Radio!Next

LEMMA ChipTxDoneShown ==
  ASSUME IndInv, IndInv', CallInv, CallInv', ChipTxDone PROVE RadioStep
<1>1. CASE ~Plain
  <2>1. Starting \/ Booting \/ pc \in Arming
    BY <1>1, ShownNow DEF Shown
  <2> QED BY <2>1, CallGoesOn DEF ChipTxDone, Starting, Booting
<1>2. CASE Plain
  <2>1. Plain'
    BY <1>2 DEF ChipTxDone, Plain
  <2>2. ChipSeen /\ ChipSeen'
    BY <1>2, <2>1, ShownNow, ShownNext DEF Shown
  <2>3. /\ reg.OpMode = TX /\ reg'.OpMode = STANDBY /\ irq' = irq \cup {TxDone}
        /\ reg'.DioMapping1 = reg.DioMapping1 /\ readBytes' = readBytes
        /\ rxBuffer' = rxBuffer
    BY DEF ChipTxDone, Raise, IndInv, ChipTypes, SetForDirection, SetToSend
  <2>4. Announced' = Announced
    <3>1. /\ reg'.RxCurrentAddr = reg.RxCurrentAddr /\ reg'.RxNbBytes = reg.RxNbBytes
          /\ reg'.FifoAddrPtr = reg.FifoAddrPtr
      BY DEF ChipTxDone, IndInv, ChipTypes
    <3> QED BY <3>1 DEF ChipTxDone, Announced, Whole, Cells, Unread
  <2>5. RxDone \in irq' <=> RxDone \in irq
    BY <2>3
  <2>6. RadioFifo' = RadioFifo
    BY <2>2, <2>3, <2>4, <2>5 DEF ChipSeen
  <2>7. Radio!ChipTxDone
    BY <2>2, <2>3, <2>6
       DEF ChipSeen, Radio!ChipTxDone, Radio!TX, Radio!STANDBY, Radio!TxDone
  <2> QED BY <2>7 DEF RadioStep, Radio!Next
<1> QED BY <1>1, <1>2

LEMMA ChipHearsFrameShown ==
  ASSUME IndInv, IndInv', CallInv, CallInv', ChipHearsFrame PROVE RadioStep
<1>1. CASE ~Plain
  <2>1. Starting \/ Booting \/ pc \in Arming
    BY <1>1, ShownNow DEF Shown
  <2> QED BY <2>1, CallGoesOn DEF ChipHearsFrame, Starting, Booting
<1>2. CASE Plain
  <2>1. Plain'
    BY <1>2 DEF ChipHearsFrame, Plain
  <2>2. Announced' = Announced
    BY DEF ChipHearsFrame, Announced, Whole, Cells, Unread
  <2> QED BY <1>2, <2>1, <2>2, NothingSeen DEF ChipHearsFrame
<1> QED BY <1>1, <1>2

LEMMA ChipStoresByteShown ==
  ASSUME IndInv, IndInv', CallInv, CallInv', ChipStoresByte PROVE RadioStep
<1>1. CASE ~Plain
  <2>1. Starting \/ Booting \/ pc \in Arming
    BY <1>1, ShownNow DEF Shown
  <2> QED BY <2>1, CallGoesOn DEF ChipStoresByte, Starting, Booting
<1>2. CASE Plain
  <2>1. Plain'
    BY <1>2 DEF ChipStoresByte, Plain
  <2>2. ChipSeen /\ ChipSeen'
    BY <1>2, <2>1, ShownNow, ShownNext DEF Shown
  <2>3. /\ reg.OpMode = RX /\ reg'.OpMode = RX
        /\ reg'.DioMapping1 = reg.DioMapping1
        /\ readBytes' = readBytes /\ rxBuffer' = rxBuffer
    BY DEF ChipStoresByte, IndInv, ChipTypes, ModeFitsStep
  <2>4. irq' = irq
    BY DEF ChipStoresByte
  <2>5. CASE RxDone \notin irq
    BY <1>2, <2>1, <2>3, <2>4, <2>5, NothingSeen
  <2>6. CASE RxDone \in irq
    <3>1. Radio!ChipReceives(Frame(Announced'))
      BY <2>2, <2>3, <2>4, <2>6
         DEF ChipSeen, Radio!ChipReceives, Radio!RX, Radio!RxDone
    <3> QED BY <3>1 DEF RadioStep, Radio!Next
  <2> QED BY <2>5, <2>6
<1> QED BY <1>1, <1>2

LEMMA ChipEndsFrameShown ==
  ASSUME IndInv, IndInv', CallInv, CallInv', ChipEndsFrame PROVE RadioStep
<1>1. CASE ~Plain
  <2>1. Starting \/ Booting \/ pc \in Arming
    BY <1>1, ShownNow DEF Shown
  <2> QED BY <2>1, CallGoesOn DEF ChipEndsFrame, Starting, Booting
<1>2. CASE Plain
  <2>1. Plain'
    BY <1>2 DEF ChipEndsFrame, Plain
  <2>2. ChipSeen /\ ChipSeen'
    BY <1>2, <2>1, ShownNow, ShownNext DEF Shown
  <2>3. /\ reg.OpMode = RX /\ reg'.OpMode = RX
        /\ reg'.DioMapping1 = reg.DioMapping1
        /\ readBytes' = readBytes /\ rxBuffer' = rxBuffer
    BY DEF ChipEndsFrame, IndInv, ChipTypes, ModeFitsStep
  <2>4. irq' = irq \cup {RxDone}
    BY <2>3 DEF ChipEndsFrame, Raise, IndInv, SetForDirection, SetToReceive
  <2>5. Radio!ChipReceives(Frame(Announced'))
    BY <2>2, <2>3, <2>4 DEF ChipSeen, Radio!ChipReceives, Radio!RX, Radio!RxDone
  <2> QED BY <2>5 DEF RadioStep, Radio!Next
<1> QED BY <1>1, <1>2

LEMMA RestartShown ==
  ASSUME IndInv, IndInv', CallInv, CallInv', Restart PROVE RadioStep
<1>1. Booting'
  BY DEF Restart, Booting
<1> QED BY <1>1, Resets

LEMMA NextShown ==
  ASSUME IndInv, IndInv', CallInv, CallInv', [Next]_vars PROVE RadioStep
<1>1. CASE HardwareReset
  BY <1>1, HardwareResetShown
<1>2. CASE ConfigSleep
  BY <1>2, ConfigSleepShown
<1>3. CASE ConfigLoRa
  BY <1>3, ConfigLoRaShown
<1>4. CASE ConfigSettings
  BY <1>4, ConfigSettingsShown
<1>5. CASE ConfigStandby
  BY <1>5, ConfigStandbyShown
<1>6. CASE TxSetup
  BY <1>6, TxSetupShown
<1>7. CASE TxPointer
  BY <1>7, TxPointerShown
<1>8. CASE TxLoad
  BY <1>8, TxLoadShown
<1>9. CASE TxGo
  BY <1>9, TxGoShown
<1>10. CASE TxPoll
  BY <1>10, TxPollShown
<1>11. CASE TxCheck
  BY <1>11, TxCheckShown
<1>12. CASE TxClear
  BY <1>12, TxClearShown
<1>13. CASE TxStandby
  BY <1>13, TxStandbyShown
<1>14. CASE RxSetup
  BY <1>14, RxSetupShown
<1>15. CASE RxGo
  BY <1>15, RxGoShown
<1>16. CASE RxAddr
  BY <1>16, RxAddrShown
<1>17. CASE RxSize
  BY <1>17, RxSizeShown
<1>18. CASE RxBurst
  BY <1>18, RxBurstShown
<1>19. CASE RxClear
  BY <1>19, RxClearShown
<1>20. CASE \E f \in Uplinks : Transmit(f)
  BY <1>20, TransmitShown
<1>21. CASE Receive
  BY <1>21, ReceiveShown
<1>22. CASE Available
  BY <1>22, AvailableShown
<1>23. CASE Read
  BY <1>23, ReadShown
<1>24. CASE SleepRadio
  BY <1>24, SleepRadioShown
<1>25. CASE ChipTxDone
  BY <1>25, ChipTxDoneShown
<1>26. CASE ChipHearsFrame
  BY <1>26, ChipHearsFrameShown
<1>27. CASE ChipStoresByte
  BY <1>27, ChipStoresByteShown
<1>28. CASE ChipEndsFrame
  BY <1>28, ChipEndsFrameShown
<1>29. CASE Restart
  BY <1>29, RestartShown
<1>30. CASE UNCHANGED vars
  BY <1>30, Stutters
     DEF vars, RadioMode, RadioIrq, RadioDioMapping, RadioFifo, RadioBuffer, Calling,
         Starting, Booting, Announced, Whole, Cells, Unread
<1> QED BY <1>1, <1>2, <1>3, <1>4, <1>5, <1>6, <1>7, <1>8, <1>9, <1>10, <1>11,
         <1>12, <1>13, <1>14, <1>15, <1>16, <1>17, <1>18, <1>19, <1>20, <1>21,
         <1>22, <1>23, <1>24, <1>25, <1>26, <1>27, <1>28, <1>29, <1>30 DEF Next,
         Driver, Caller, Chip

LEMMA InitShown == ASSUME Init, IndInv PROVE Radio!Initialize
<1>1. Booting
  BY DEF Init, Booting
<1>2. Quiet(STANDBY, RxDone)
  BY <1>1, ShownNow DEF Shown
<1> QED BY <1>2 DEF Quiet, Radio!Initialize, Radio!STANDBY, Radio!RxDone

\* SX1278.c, register by register and with a chip that goes on receiving between any
\* two accesses, implements the driver of one step per call on which the main loop
\* is built.
THEOREM DriverImplementsRadio == Spec => RefinesRadioDriver
<1>1. Init => IndInv /\ CallInv /\ Radio!Initialize
  BY InitInv, InitCall, InitShown
<1>2. IndInv /\ CallInv /\ [Next]_vars => IndInv' /\ CallInv' /\ RadioStep
  BY NextInv, NextKeepsCall, NextShown
<1> QED BY <1>1, <1>2, PTL DEF Spec, RefinesRadioDriver, RadioStep

================================================================================
