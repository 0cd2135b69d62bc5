# A formal model of the LoRa sensor node

TLA+ specifications of the SAM D21 sensor-node firmware in `src/`, the TLC
configurations that check them on small instances, and proofs checked by TLAPS.
Paths below are relative to `src/src/`.

## The system

The firmware is one bare-metal loop (`main.c`) and three interrupt handlers (RTC,
SERCOM1 SPI, SERCOM5 UART). Every cycle the node sleeps in Standby for a fixed
interval, reads the DHT11, sends one DATA or ERROR packet over the SX1278 radio,
waits up to a second for the gateway's ACK, and sleeps again. ID and sequence
advance once a cycle whatever the outcome; nothing is retransmitted.

| Component | State | Operations | Talks to |
| --- | --- | --- | --- |
| Main loop and application, `main.c`, `app/lora_app.c` | `nodeContext`, `loraReady`, `receiverStarted` | `Initialize`, `Tasks` | calls everything below |
| State machine, `app/node_state.c` | `NODE_STATE_Context` (owned by the caller) | `Initialize`, `HandleEvent` | decodes frames with the codec |
| Response builder, `app/node_response.c` | none | `Build` | codec |
| Packet codec, `protocol/` | none | `Encode`, `Decode`, CRC | |
| Radio driver, `drivers/sx1278/` | `SX1278_t` (buffer, `readBytes`), the chip's registers | `init`, `transmit`, `receive`, `available`, `read` | SPI, DIO0 pin |
| RTC sleep, `app/node_power.c` | `rtcWakePending`, `powerReady`, RTC, NVIC, PRIMASK | `Initialize`, `Sleep`, RTC callback | UART and SPI drain, radio |
| Active-time clock, `app/app_time.h` | last count, milliseconds, remainder | `Initialize`, `NowMs` | TC4/TC5 counter |
| Debug log and UART, `app/debug_log.h`, `plib_sercom5_usart.c` | static line buffer, transfer object, transmitter | `Printf`, `Write`, handler | |
| SPI writer, `plib_sercom1_spi_master.c` | transfer object | `WriteRead`, `IsBusy`, handler | |
| DHT11 driver, `drivers/sensors/DHT11.c` | last sample | `Init`, `Read`, getters | one pin |
| Start-up, `config/default/initialization.c` and the PLIBs it calls | clocks, wait states, enabled interrupts | `SYS_Initialize` | before everything above |
| C run-time, pins, event system; vendored headers | none of interest | | |

What is hard about it, and what makes each part correct:

- **Time that wraps.** Deadlines are differences of a 32-bit millisecond counter
  which is itself computed from a 32-bit hardware counter. Correct means exact in
  true time (`DeadlineIsExact`, `TimeIsExact`).
- **A lossy, delaying, repeating medium.** Old ACKs must not acknowledge a new
  cycle although IDs wrap after 256 (`RefinesNodeCycle`, `IdTracksSequence`,
  `PendingIsCurrent`).
- **A flag that caches the radio's mode.** `receiverStarted` must never claim a
  receiver that is off, and arming twice must not discard an ACK
  (`ReceiverFlagHonest`, `AckIsNotDiscarded`).
- **Progress.** Whatever the air brings and whichever call fails, the cycle ends,
  or the node has stopped for good (`KeepsCycling`, `NoStuckTransmission`,
  `TransmitsOnlyInTransaction`).
- **An interrupt against a sleep instruction.** No lost, early or left-over
  wake-up (`NoLostWakeup`, `NeverEarly`, `StoppedIsQuiet`, `EverySleepEnds`).
- **Two writers of one UART transfer** and a Standby that must not cut a byte
  short (`LineIsWhole`, `NoTornLine`, `DrainedIsSilent`, `DrainSucceeds`).
- **A transfer that ends inside an interrupt.** The radio driver polls `IsBusy` and
  has no other signal; the SPI must be neither early, which cuts an answer short, nor
  late for ever (`AnswersAreComplete`, `SelectedWhileShifting`,
  `BufferHasOwner`, `EveryTransferEnds`).
- **Pulses measured by counting polls.** A DHT11 bit is told by one look at the line;
  late polls must not misread it, and no sample may be an old one
  (`GoodReadingSucceeds`, `SampleIsFresh`, `ReadingEnds`).
- **A wire format that must mean the same at both ends** (`AcceptedIffUndamaged`,
  `AcceptedIsCanonical`, `SampleSurvives`, `CrcIsRemainder`).
- **A radio that works on while its registers are read**, and keeps its power when the
  processor is reset. A frame arriving during the reading of another must never
  produce one that was not sent (`DeliveredIsReceived`), nor may the chip ever be on
  the air with settings that were ignored (`OnAirAsConfigured`).
- **A start-up whose order matters**: a clock exchanged under the running processor,
  a peripheral that survives the reset (`CpuKeepsItsClock`, `StartsInOrder`).
- **A buffer filled without a check** (`DumpFits`).

## Modules

| Module | Models | Correspondence |
| --- | --- | --- |
| `PacketContract` | `LORA_PACKET_Message` and its validity | a frame is the message its bytes spell out and whether length and CRC hold |
| `NodeState` | `app/node_state.c` with a clock and any legal caller | one formula per handler; `context` and `action` are the C structs; `now` is the tick; `waited`, `sincePoll` are history in true time |
| `NodeResponse` | `app/node_response.c` | `Build` as an operator from a request to a result and the message encoded |
| `RadioDriver` | `SX1278.c` and the chip | one operator per driver call; `mode`, `irq`, `dioMapping` are the chip, `fifo` is the frame a raised RxDone announces, `rxBuffer` is the driver's buffer |
| `Sx1278` | the same, register by register | one action per access another party can tell apart; `reg`, `irq`, `fifo` (bytes), `rxNext`, `incoming` are the chip, `pc` is the place in the driver |
| `StartUp` | `SYS_Initialize`, the clock, flash, NVIC and RTC initialisation, `LORA_APP_Initialize` | `pc` is the place; one action per write that the processor's clock, a peripheral or an interrupt depends on |
| `FrameDump` | `LORA_APP_PrintFrame` and its helpers | `cursor` is the C pointer as a distance; one action per piece appended |
| `LoraApp` | the node: `lora_app.c` composing the three above with the chip, the air and the gateway | `pc` is the place in the loop; one action per step between which clock, chip or gateway can act |
| `NodeCycle` | what the node promises | abstract: four phases, a cycle number, whether the gateway heard this cycle's uplink, the outcome |
| `NodePower` | `app/node_power.c`, the RTC and its handler, PRIMASK, NVIC, WFI | one action per register access another party can see; the handler preempts |
| `UartLog` | `debug_log.h`, `plib_sercom5_usart.c`, the transmitter, the drain | one action per byte or look; the handler preempts, the transmitter runs by itself |
| `SpiMaster` | `plib_sercom1_spi_master.c`, `SX1278_hw.c`'s use of it, the shift registers | `WriteRead` step by step, the handler's reads of RXC, DRE and TXC as separate actions while the bus shifts on |
| `Dht11` | `DHT11.c`, `LORA_APP_ReadSensor`, the sensor | a poll of the line per action; the sensor's pulses and true time run beside it |
| `NodePacket` | `node_packet.c`, `crc16.c` over `NodeResponse` and `PacketContract` | `Encode`, `Decode` and the CRC on bytes; the way of one packet with what may happen to it |
| `AppTime` | `app/app_time.h` | `NowMs` as one action; `total` is true time as history |
| `NodeStateProofs`, `LoraAppProofs`, `Sx1278Proofs`, `NodePowerProofs`, `SpiMasterProofs` | the proofs about the module of that name | |
| `SampleProofs` | the proofs about `Dht11` and `NodePacket`, the way of a sample | |
| `LogProofs` | the proofs about `UartLog` and `FrameDump` | |
| `AppTimeProofs` | the proofs about `AppTime`, and about `StartUp` and `AppTime` together | |
| `MCNodeState`, `MCLoraApp`, `MCNodePower`, `MCUartLog`, `MCAppTime`, `MCSpiMaster`, `MCDht11`, `MCNodePacket`, `MCSx1278`, `MCFrameDump` | small instances | |

`LoraApp` takes `NodeState`, `RadioDriver` and `NodeResponse` as instances over its
own variables, and each of its steps that raises an event is the state machine's
own handler. `UsesStateMachine` checks that all its other writes to the context are
those `NodeState` allows a caller; so what is proved of every legal caller holds of
this one (`LoopIsLegalCaller`, `NodeWaitIsBounded`). `SleepReturns` and `SleepFails` of `LoraApp` stand for what `NodePower`
and `UartLog` show in detail, `SensorResults` for what `Dht11` shows, a frame with its
validity for what `NodePacket` shows; `Tick` stands for `AppTime`.

`MCAppTime` composes `AppTime` with `StartUp`: the counter counts from the step that
initialises it, and the time is first asked for when the start-up has ended.

`Sx1278` is checked and proved to implement `RadioDriver`, on which `LoraApp` runs. A call takes
effect with its first write of RegOpMode, or with the hardware reset; a frame is
fetched when its flags are cleared. The abstract `fifo` is what the driver will hand
over: the cells it has still to read and the part it already has. A frame that
arrives meanwhile is then nothing but the abstract step in which a frame overwrites
another; if its RxDone is cleared with that of the first, it is lost, and that too is
a behaviour of `RadioDriver`. Bytes of two frames in one buffer are one damaged frame,
which the decoder refuses.

Definitions marked as faulty variants are never part of a specification. Each is a
plausible slip in the definition that follows it and shows that some property
depends on the code being as it is.

## Runs

| Run | Module | Question |
| --- | --- | --- |
| `node_state` | `MCNodeState` | do identity, pending pair and deadline stay exact under any caller and across all wraps? |
| `node` | `MCLoraApp` | does the node implement `NodeCycle`, is it a legal caller of the state machine, is its view of the radio right? |
| `node_liveness` | `MCLoraApp` | on a busy and on an empty channel: does every cycle end and the next one start; is an ACK in the radio ever thrown away when nothing else came in? |
| `node_power` | `MCNodePower` | can the RTC interrupt be lost, come early, or be left over; does every sleep end? |
| `uart_log` | `MCUartLog` | are lines whole, and does a drained UART really stand still, even if waits run out; does every drain succeed on a UART that does not stall? |
| `uart_logs_off` | `MCUartLog` | does every drain succeed with the logs off: violated, see below |
| `spi_master` | `MCSpiMaster` | is every SPI transfer complete, exclusive and finite however bus, handler and caller interleave? |
| `sensor_reading` | `MCDht11` | are the bits those the sensor sent, the sample of this reading, and does every reading end on a good, bad or frozen line? |
| `packet_codec` | `MCNodePacket` | does a packet survive the way, is damage noticed, is the CRC the polynomial's remainder? |
| `app_time` | `MCAppTime` | has the starting processor always a clock its flash can follow, is every interrupt enabled after its driver, whatever ran before the reset; and are the milliseconds exact from then on, however they are read? |
| `sx1278` | `MCSx1278` | can the chip, going on between any two register accesses, or a reset of the processor make the driver deliver what was not received or use the air unconfigured? is it the `RadioDriver` the node is built on? |
| `frame_dump` | `MCFrameDump` | does the dump of every frame fit its buffers? |

### Bounds

- Counters are a few values wide (`TickMod`, `IdMod`, `SeqMod`, `CountMod`, `MsMod`,
  `MaxCount`), so that every wrap happens within a run, and the relations that
  matter hold as in the code: the timeout and one polling gap fit the tick, the
  sequence is a multiple of the ID. The proofs remove these bounds: they hold for
  every width and for every size that meets the assumptions.
- `PollGapMs` bounds the time between two events of the loop, in the model as in the
  code, where it is the longest blocking call.
- `AckLife` is how many cycles an ACK may live on the air; with two cycles and two
  IDs a stale ACK with the right ID and the wrong sequence occurs. An ACK that lives
  for `SeqMod` cycles would match again: 65536 cycles in the code.
- `Channels` are the sets of frames others may send; one is chosen for a behaviour.
  `node` runs on the busy channel, `node_liveness` on that and on an empty one.
  `Stalls` of `UartLog` likewise: whether the UART may stall.
- `TxTimeoutPolls` is two polls of DIO0: one that finds nothing and waits, one that
  gives up, with TxDone before, between and after.
- `MaxLength` of a log line is three bytes: both registers of the transmitter full
  and a byte in memory. `SleptCap` bounds a history variable above every interval.
  `MaxTotal` ends the observation of `AppTime` after several wraps.
- `SpiMaster` makes transfers of one and two bytes, the sizes the program uses, which
  differ in that the first byte is, or is not, the last.
  `WaitAttempts` bounds the counted wait that precedes the sleep.
- `Dht11` counts time in units of 5 µs. The driver's 1 µs polls take one unit, coarser
  than in the code, and its limits are scaled with them. Bytes have two bits: the sum
  overflows, and there is a first, an inner and a last bit.
  `Jitter` is by how many units a poll may be late. The proofs are about any unit and
  bytes of any number of bits.
- `NodePacket` takes the edges of every field, every single wrong bit, pairs at chosen
  distances, bursts up to sixteen bits, every cut, and byte strings at 8, 9, 64 and 65
  bytes. That every pair of wrong bits in a packet is noticed is evaluated once, as the
  assumption `TwoAreNoticed`. `CrcIsRemainder` is compared on packets, not on the stray strings.
- `Sx1278` has frames of no byte, of one and of two, and a FIFO of three cells. A frame
  can overwrite another in part or not at all, also while it is read, and the one after
  it the rest; a burst of one byte or none is skipped; frames reach into the
  transmitter's half. Two frames have the same length, so that one can take the other's
  place byte by byte while the driver reads, and be delivered before it has ended: that
  is why `DeliveredIsReceived` allows for a frame whose last byte is stored (`CameIn`).
- `StartUp` has nothing to bound. `FrameDump` runs with the program's own sizes.

### Fairness

`LoraApp` assumes that the loop takes its next step and that the clock runs, both
while the processor is awake; nothing of the gateway, the air or the transmitter.
`NodePower` assumes that the core executes and takes interrupts, that an enabled
counter counts, and that the handler does not starve the program: a tick of 1/1024 s
is tens of thousands of core cycles. `SpiMaster` assumes that the bus clock shifts, that
a pending interrupt is taken, and that the program runs while none is pending. `Dht11`
assumes that the driver polls and that time passes; of the sensor only that a pulse it
has begun ends, unless the line freezes. A wake-up by another interrupt is never
assumed. The safety runs use no fairness; `Sx1278`, `StartUp` and `FrameDump` state none.

## The divergence found

`uart_logs_off`: `NODE_POWER_DrainPeripherals` (`app/node_power.c:76`) waits for the
UART's TXC flag. TXC rises when a frame has left the shift register, so it is down
until the first byte. The repository's `README.md` (lines 259-260) offers
`IS_DEBUG` 0 "to disable all logs"; then nothing is ever written, the drain of the
first sleep runs out, `NODE_POWER_Sleep` fails and the application stops the node
before its first uplink. With logs on the start-up messages raise the flag
(`uart_log`). That TXC is down after reset is taken from the device; the SPI writer
in the same tree guards the corresponding case
(`plib_sercom1_spi_master.c`, `IsBusy`).

## What is proved

Every theorem is of the form `Spec => []Inv`, `Spec => [][A]_v` or `Spec => Abstract`,
and holds for every value of the constants that meets the named ASSUMEs next to
them; TLC evaluates those in the runs. The argument is the same everywhere: an inductive
invariant that holds initially (`InitInv`), that every action keeps (one lemma, or one
step of `NextInv`, per action) and that implies the property. What each invariant adds to
the properties is what makes it inductive.

`NodeStateProofs`, for every width of tick, ID and sequence and every set of frames:

- `Invariance`: `IndInv` adds to the checked invariants that a terminal action leaves the
  machine idle (`TerminalMeansIdle`), and `CounterTellsWait`: while waiting, the wrapping
  difference of tick and start is the true time waited, and the last event was before
  the deadline. Without the latter the difference could have wrapped unseen and neither
  bound would be inductive.
- `TypeCorrectness`, `IdNeverDrifts`, `PendingIsNeverStale`, `WaitEndsInTime` and
  `DeadlineDecides` follow: typing, `IdTracksSequence`, `PendingIsCurrent`,
  `WaitIsBounded`, `DeadlineIsExact`. They rest on lemmas about unsigned subtraction
  and on one lemma per handler.

`LoraAppProofs`, about the whole node, for every width, timeout, interval and channel. A
channel may send any frames but ACKs to this node (`AirAssumption`): those the
gateway alone sends. The invariant of the state machine is taken over from
`NodeStateProofs`, whose lemmas are used through an instance:

- `NodeInvariance`: `IndInv` ties the place in the loop to the state of the transaction
  (`StateFitsStep`), the last result to the event raised (`ActionFitsState`), the flag to
  the chip's mode (`ReceiverIsKnown`, `RadioIsQuiet`), the pending time stamp to the
  time of the last event (`StampIsRecent`), and says that every ACK on the air answers
  an uplink of this node (`AcksAreOfUplinks`, `FramesAreFromAir`).
- `FlagIsHonest`, `TransmissionNeverSticks` and `TransmitterIsOwned`: the three safety
  invariants of the run `node`.
- `LoopIsLegalCaller` (`UsesStateMachine`): each step of the loop is one of the state
  machine's handlers, one of the writes allowed to its caller, or leaves it alone.
- `AckSurvivesRearming` (`AckIsNotDiscarded`): needs `RearmsAfterOthers`, that on a quiet
  channel no frame but the ACK reaches the wait with the receiver not armed.
- `NodeKeepsItsPromise` (`RefinesNodeCycle`), by step simulation (`StepKinds`,
  `CycleStep`). Its hypothesis `AckLife + 1 < SeqMod` is the one the code cannot enforce:
  an ACK that lives until its sequence number comes again would acknowledge a cycle
  the gateway did not hear. In the code that is 65536 cycles.

`Sx1278Proofs`, for every set of frames, every size of the FIFO that holds each of them,
every transmitter base and every timeout:

- `DriverInvariance`: `ModeFitsStep`, `ConfiguredByStep` and `SetForDirection` say what
  each step of the driver finds in the registers; `IncomingIsStored` and
  `UplinkIsLoaded` which cells of the ring hold which frame. `NothingHandedOverStale` is
  the heart: among the cells the driver has still to read there is no last byte of a
  frame from before the arming. Between the reading of the address and that of the
  length another frame may end; the cells up to the new length are then those of the old
  frame followed by the new one, wherever the ring wraps (`CellAfterCell`). `LastIsRead`
  says that a frame after which nothing was stored is read as it is.
- `NothingStaleDelivered` (`DeliveredIsReceived`) and `OnlyConfiguredOnAir`
  (`OnAirAsConfigured`) follow.
- `DriverImplementsRadio` (`RefinesRadioDriver`), by step simulation: one lemma per action
  (`...Shown`), on the invariant and on `CallInv`, which says what the flags and
  the buffer are at each step of a call. `BurstGoesOn` shows that reading one cell more
  does not change what will be handed over.

`NodePowerProofs`, for every set of intervals, clock rate and counter width:
`PowerInvariance`, `PowerTypes` (`TypeOK`), `SleepIsNeverShort` (`NeverEarly`),
`WakeupIsNeverLost` (`NoLostWakeup`) and `CounterIsQuietBetweenSleeps` (`StoppedIsQuiet`).
The invariant follows the news of the match from the counter to the callback
(`CounterTells`): before the match nothing claims it, afterwards it is in the flag and
the NVIC, in the running handler or in `rtcWakePending`. `TicksRoundsUp` is why no
sleep is short.

`SpiMasterProofs`, for transfers of any length: `SpiInvariance`, `SpiTypes` (`TypeOK`),
`EveryAnswerIsRead` (`AnswersAreComplete`), `SelectedUntilShifted`
(`SelectedWhileShifting`) and the action property `BufferIsOwned` (`BufferHasOwner`).
The invariant says that at most one byte is on its way and where it is
(`OneByteAtATime`), so that TXC, which the handler trusts at the end, tells the truth
(`CompleteIsEmpty`).

`LogProofs`, for every set of lines of any length: `LogInvariance`,
`LinesAreNotTorn` (`NoTornLine`), `LinesAreWhole` (`LineIsWhole`), `DrainIsComplete`
(`DrainedIsSilent`) and, with the logs on, `LoggingNodeDrains` (`DrainSucceeds`). Its
hypothesis `Debug` is what the divergence above is about: without it the property is
false. The invariant says which of call and handler writes (`OneWriter`) and that TXC
is up exactly when all that was ever written has gone (`SentIsComplete`).

`AppTimeProofs`, for every counter width and rate: `TimeInvariance`, `TimeNeverDrifts`
(`TimeIsExact`) and `WrapIsHarmless` (`CountFollowsTotal`). The heart is
`CarriedDivision`: dividing a sum is the same as dividing the parts if the remainder is
carried. Of start-up and clock composed as in `MCAppTime`: `BootInvariance`,
`ClockIsNeverLost` (`CpuKeepsItsClock`), `InterruptsStartInOrder` (`StartsInOrder`) and
`TimeIsExactFromBoot` (`TimeIsExact` from reset on). `BootInv` says at each step which
clocks run and which drivers are ready, whatever ran before the reset.

Of the frame dump, for every maximal frame length of up to two digits and every buffer
that holds its dump, `LogProofs` has `EveryDumpFits` (`DumpFits`). The inductive invariant
adds where the cursor is after how many bytes, and how many digits are still to come
(`CursorFollows`). With the program's sizes the assumption leaves 8 bytes to spare.

`SampleProofs`, the way of a sample. A definition by recursion is a CHOOSE for the prover:
that such a function exists and has the values its equations say is proved once
(`LeastNat`, `Induction`, `Recursion`), from the well-foundedness of the numbers, over
sets and over functions instead of predicates and operators, and then used for each
recursive definition (`...Unfolds`).

Of `Dht11`, for every unit of time, every length of a byte and every set of words:

- `TimingAssumption` says when a sensor can be read at all: a loop looks at the line
  within every pulse and does not give up on one, and the one look at a bit falls into a
  one, but between a zero and the next bit. The run evaluates it (`CodeTimesFit`) with the
  times of `DHT11.h` and those its comments give for the sensor: it is met as long as
  interrupts delay a poll by no more than 14 µs.
- `ReadingInvariant`: `InTime` says for each place of the driver which pulse the sensor is
  in, how long it still lasts (`SeenInTime`) and how much of it a loop has counted
  (`Counted`); so no count reaches its limit and no edge is missed. `BitsRight` says
  which bits are the sensor's even after it has stopped: a line that freezes high while
  a bit is looked at spoils that bit, but then the loop that follows runs out.
- `SampleFresh` (`SampleIsFresh`) and `GoodReadingNeverFails` (`GoodReadingSucceeds`) follow;
  `ChecksumIsTheSensors` is that a sum that overflows is compared as the sensor meant it.

Of `NodePacket`, for every set of valid messages (`TrafficAssumption`), and for every cut,
every appended or unrelated byte string and every pattern of wrong bits that is no
multiple of the CRC's polynomial (`DamageAssumption`):

- `CrcIsDivision` (`CrcIsRemainder`): the byte loop and the shifts compute the remainder of
  the long division, for byte strings of any length. `Aligned` relates the register after any number of
  bits to what is then left of the division.
- `PacketInvariant`: a frame on the way is the packet that was sent, or bytes that the
  decoder refuses. A cut or a tail contradicts the length byte (`CutsAreRefused`,
  `LongerIsRefused`). For wrong bits (`FlipsAreRefused`): if both frames were packets both
  would leave nothing when divided (`PacketLeavesNothing`); the division is linear
  (`DivisionIsLinear`), so the wrong bits alone would leave nothing, wherever they begin
  (`DivisionShifts`).
- `OnlyUndamagedPackets` (`AcceptedIffUndamaged`) rests on `RoundTrip`, what is encoded is
  decoded; `OnlyCanonicalPackets` (`AcceptedIsCanonical`) on `Canonical`, what is decoded is
  what would be encoded, for any byte string.
- `SamplesSurvive` (`SampleSurvives`), for every value of the two 16-bit fields.
- `BurstsAreNoticed` and `OddIsNoticed`: what `DamageAssumption` asks of a pattern holds of
  every burst of up to sixteen bits and of every odd number of wrong bits. That it holds
  of every two is evaluated in the run.

Only model-checked: all liveness properties (`KeepsCycling`, `EverySleepEnds`,
`EveryTransferEnds`, `ReadingEnds`), since the prover treats neither ENABLED nor fairness.

## What is abstracted or left out

- `LoraApp` has no step for paths the code cannot take: `SX1278_LoRaEntryRx` always
  returns 1, `DHT11_Init` never fails here, a pass in `WAIT_TX_RESULT` is excluded by
  `NoStuckTransmission`, and a response that cannot be built does not occur with the
  node's own address. If start-up fails the context is never used.
- A driver call of `RadioDriver` is one step. The driver reports a frame of length
  zero as no frame (`NoFrame`); its flags are cleared all the same.
- In `Sx1278` the many settings SX1278_config writes are one setting, which is only
  taken in LoRa mode. Spreading factor 6 is not configured. The pointer the FIFO
  increments is written before every burst, so only its start is kept. Where the
  receiver stores the first frame after it is armed is not documented: both choices
  are explored. The caller is `lora_app.c` reduced to the order of its calls: it reads
  a frame that is available before it does anything else, and then arms anew.
  SX1278_RSSI and SX1278_RSSI_LoRa change nothing and are never called.
- In `StartUp`, a clock that does not start leaves the processor waiting for ever, as
  the code does; no liveness is claimed. That writes to a peripheral without clock are
  lost, that flash needs no wait state at 1 MHz and one at 48 MHz, and that the RTC
  survives every reset but that of the power supply, is taken from the device.
- Of the log lines only the frame dump is modelled in its length; the others are short
  and of fixed form. The text is never modelled.
- The radio driver's waits for its SPI transfers are unbounded in the code; that they
  end is `EveryTransferEnds`, from the fairness above. 16-bit words, dummy bytes, the
  callback and `TransferSetup` of the SPI writer are never used and left out.
- `SLEEPDEEP` is set and restored around WFI and has no other user; it is left out.
- Not modelled: the C run-time's start (`startup_xc32.c`), the fault handlers and
  system-call stubs, pin multiplexing and the unused event system keep no state that
  the program reads or changes later. UART reception cannot happen, since RXEN is
  never set. The calls of the generated PLIBs that nobody makes are left out.
- About 25000 lines of the tree are vendored register definitions and core headers
  (`packs/`): constants without behaviour. They are most of the source lines that no
  definition maps; what the models rest on of the devices is marked as external.
- A reset starts the sequence at zero again; the repository documents this as out of
  scope, and `LoraApp` has no restart. `Sx1278` and `StartUp` have one.

## Plan

Every invariant, action property and refinement that a run checks is proved. What could
follow: that the detailed modules implement the steps that stand for them in `LoraApp`
(`NodePower` for its sleep, `Dht11` for its sensor results), in the way `Sx1278` implements
`RadioDriver`.
