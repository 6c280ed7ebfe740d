# Verification of the swashispin-mini DAC sequencer

swashispin-mini is an FPGA that drives 24 DAC channels.  A host tool
(`asm/squish.py`) writes programs over a UART into a register file; each
channel runs its program on its own, and a launcher starts armed channels in
the same clock.  This directory holds TLA+ models of that hardware, the TLC
configurations that check them and TLAPS proofs.

## The system

| Component | Source | State | Operations |
|---|---|---|---|
| serial sequencer (one per channel) | `rtl/src/serial_sequencer.sv`, `rtl/lib/bram.sv` | pc, insn and out stages, program memory, read-back word | start, halt, store, read back, address; fetch, stall, forward, write back |
| execution core (per channel) | `rtl/src/dc_core.sv`, `dc_decode.sv`, `include/dc.svh` | iterate stage, SPI buffer, idle buffer, hold stage, `o_armed` | take an instruction, unroll it, shift it, gather idles, hold, strobe LDAC |
| SPI master (per channel) | `rtl/src/dc_spi_master.sv` | state, phase and bit counters, shift registers | start, shift, done |
| control registers (per channel) | `rtl/src/dc_ctrl.sv`, `dc.sv` | divisor, delay, chip-select rest, LDAC cycles | apply |
| launcher | `rtl/src/launch.sv` | mask, trigger use, launches left, armed lines, state, start lines | new control word, clear, launch |
| processor | `rtl/src/processor.sv` | trigger synchroniser | wiring, read-back and marker multiplexers |
| register file | `rtl/src/uart_regs.sv` | registers, command, byte counter | write, read |
| byte queues, UART line | `rtl/lib/fifo.sv`, `uart.sv`, `receiver.sv`, `transmitter.sv`, `baudx16_generator.sv` | pointers, bit and sample counters | enqueue, dequeue, sample, shift |
| edge detectors | `rtl/lib/edge_detector.sv` | three flip-flops | pulse |
| DAC models | `rtl/lib/ad5791.sv`, `ad5541a.sv` | shift and data registers | frame, LDAC |
| host tool | `asm/squish.py` | none between invocations; the file, programs and launch within one | parse, assemble, load, start, launch, clear, read back, print |

How they interact.  The host's register writes reach the sequencers, control
registers and launcher as levels (addresses, counts) and as edge-detected
strobes of one clock.  A sequencer offers a word and its address; the core
takes it with `o_next`, and in that clock returns the word as modified, which
the sequencer writes back.  The core raises `o_armed` for a step that waits for
a start; the launcher compares all armed lines with its mask and answers with a
start pulse of one clock.  The host polls `o_empty` and `o_armed`.  The tool
reads a whole assembly file before it sends anything, then writes registers one
after another; every strobe is three writes (clear, assert, clear).  It keeps
nothing between invocations and does not ask the board what earlier ones left.

What is hard.  Everything is concurrent: three pipeline stages with
write-backs behind read-aheads, two buffers in front of one hold stage, frames
of any length, host strobes in any clock, feedback loops with registers on the
way (armed line to start line).  There is no error handling that would notice a
lost pulse, a lost byte or a stale word.  `PROJECT.json` lists each hazard at
its line.

What makes each part correct:

- sequencer: a run of n iterations delivers its d + 1 words n times, in order,
  each as modified by the deliveries before; every run ends;
- SPI master: words reach the slave whole, in a known number of clocks;
- core: every step of every instruction is executed once and in order, armed
  steps only with a start; the timing of hold, LDAC and chip select is exact;
- launcher: a start pulse goes to channels that have an armed step, and to no
  other; launches are counted exactly; none is forgotten;
- register file and UART: a command takes effect once and completely;
- host tool: a file is taken as a whole or not at all; each program gets its own
  section's channel, registers, repetition and instructions; the words stored,
  started, read back and printed are the words written; a sweep climbs from one
  voltage to the other without leaving the range; a load works on a board in any
  state.

## Modules

| Module | Role |
|---|---|
| `SerialSequencer` | the sequencer, one action per kind of clock edge (`Tick`, `HostStore`, `HostReadBack`, `HostAddress`, `HostStart`, `HostHalt`); the core's `i_next` is a parameter |
| `ProgramOrder` | abstract: program order without a pipeline |
| `SequencerObserved` | the sequencer with an observer, three kinds of host, properties, refinement mapping, inductive invariants |
| `SequencerProofs` | theorems about `SequencerObserved` |
| `MCSequencer` | instance for TLC |
| `DcSpiMaster` | the SPI master, one action per branch of its state machine |
| `SpiFrame` | abstract: words given to the slave whole |
| `SpiLink` | SPI master, slave and a divisor that the host rewrites; properties |
| `SpiProofs` | theorems about `SpiLink` |
| `DcDecode` | instruction words, decoding, the modified word |
| `DcSteps` | the steps an instruction stands for |
| `DcCore` | the four stages of the core; one step is one clock edge |
| `DcExecutor` | abstract: the steps executed in order |
| `DcCoreObserved`, `MCDcCore` | properties of the core with an observer, inductive invariant; instance for TLC |
| `CoreProofs` | theorems about `DcCoreObserved` and `LaunchedCore` |
| `Launch` | the launcher; one action per kind of clock edge |
| `LaunchedChannels` | the launcher with abstract channels and the host; properties and inductive invariant |
| `LaunchProofs` | theorems about `LaunchedChannels` |
| `LaunchedCore`, `MCLaunchedCore` | the launcher with the core of one channel |
| `BoundedQueue` | abstract: a queue that drops what it has no room for |
| `ByteQueue` | the ring of `fifo.sv`; properties and refinement mapping |
| `QueueProofs` | theorems about `ByteQueue` and `UartLine` |
| `UartRegs` | the register file's state machine, one action per branch, over two `BoundedQueue`s |
| `RegisterFile` | abstract: commands take effect one at a time, answers are words of one moment |
| `RegisterLink`, `MCRegisterLink` | register file, line and host; properties; instance for TLC |
| `LinkProofs` | theorems about `RegisterLink` |
| `ByteLine` | abstract: bytes arrive, each once and in order |
| `UartLine`, `MCUartLine` | the queue, the transmitter and the receiver, each end with ticks of its own; instance for TLC |
| `EdgeDetector` | the edge detectors of one strobe register |
| `HostSessions` | the sessions of `squish.py`, which may be killed, in front of the strobe registers and behind the read-back path |
| `SessionProofs` | theorems about `HostSessions` |
| `StatusRegisters` | the order of the bits of the empty register |
| `SquishInsn` | the assembler and disassembler of instructions, and the encoding in three registers |
| `SquishAsm` | the parser, each loop a mode and each branch an action; what a file says, read as a whole |
| `SquishOps` | the register writes that programs and launches become |
| `SquishMain`, `MCSquish` | invocations of the tool, killed at any command, and the board behind it; properties; instance for TLC |
| `SquishInvariant` | the inductive invariant of `SquishMain` |
| `SquishProofs` | theorems about `SquishMain` |

A step of a module is a rising edge of `i_clk`.  All registers of the code are
assigned from the values before the edge; a module's action conjoins one
operator per `always_ff` block, and the combinational outputs (`Propagate`,
`S2H`, `AllReady`, ...) are operators on the unprimed state.  Names follow the
code where TLA+ allows.  Definitions commented "fault" are variants of the next
definition with a plausible mistake in it; nothing uses them.  They exist so
that each property can be seen to fail on one of them (`mutants` in
`PROJECT.json`).

Abstractions:

- A word of the sequencer is any value; `Modify` is any function on words, as
  the sequencer does not look into them.
- Strobes are the one-clock pulses behind the edge detectors.  The UART needs
  at least five bytes for a register write, so two pulses never share a clock.
- In `DcCore` an SPI frame takes any number of clocks of at least one, which
  `SpiLink` justifies (`FrameEnds`, `DeliversFrames`).  The DAC word is its
  20-bit field, the register address above it never changes.  The marker bit
  is carried beside the other fields and left out.
- In `LaunchedChannels` a channel is a flag "waits with an armed step" and the
  `o_armed` register behind it; `LaunchedCore` shows that the core implements
  this.  A start pulse may be lost, as it may in the code.
- The layers of the UART rest on each other: `UartRegs` uses the queue that
  `ByteQueue` implements (`RingIsQueue`), and `RegisterLink` the line that
  `UartLine` implements (`DeliversBytes`).  In `RegisterLink` a byte arrives at
  any time, but not faster than a line can send, and the line takes an answer's
  bytes at any time.  Registers whose number no command of the tool uses read as
  anything, as an index out of range does in hardware.
- In `UartLine` the baud generators are replaced by what they are for: ticks of
  two clocks, at any time, that are never more than `MaxSkew` apart within a
  frame.  The receiver sees a start bit in any clock of its own, before the
  transmitter's next tick (a tick is seven clocks on the board).  A line without
  noise is assumed.
- In `HostSessions` a word is known by the place it is stored at, and a run is the
  flag `p.r_active` with any fetch address.  The registers that a session loads
  before it starts a channel are left out.
- In the `Squish` modules a source line is the record of what its directive and
  its numbers say; how it is spelled is left out.  A voltage is a number of units,
  `Digit` of which make the last digit that is printed, so that a file may have
  voltages finer than that; a voltage that is printed is rounded to the digit.
  Arithmetic is exact.  The tool's floating point has 53 bits for codes of 20; it
  could differ only for a voltage within that precision of the middle between two
  codes.  The core's sweep (`Steps` of `DcSteps`) is
  what the codes of an assembled sweep are compared with.
- In `SquishMain` a command takes effect at once: `RegisterLink` and
  `HostSessions` show that it takes effect once and completely.  Channels are at
  rest.  Where a number is cut, it is cut in the model: a command carries 32 bits
  (`NumberSent`, `MaskSent`), a run takes the bits of the repetition that the
  sequencer has (`IterMod`), the launcher a bit for each channel of the board.
  What earlier sessions left is a value `Stale` that no program has, in
  every register and memory, and strobes that are all high or all low.

## Runs

| Run | Shows | Instance |
|---|---|---|
| `sequencer_solo` | order, content, write-back, termination, refinement of `ProgramOrder` | 3 addresses, 2 word values, 1 or 2 iterations |
| `sequencer_shared_address` | *violated*: the last word of a run is read through the shared address register | 2 addresses |
| `spi_link` | whole words, frame time, termination under divisor changes, refinement of `SpiFrame` | 3 bits, counter modulo 4, divisors 0 to 2 |
| `dc_core` | order, timing, chip select, drain, refinement of `DcExecutor` | 4 words: a strobed ramp, an armed SPI word, a repeated idle, an armed idle |
| `launcher` | start pulses, launch count, completion | 2 channels, up to 2 launches |
| `launched_core` | the core implements the abstract channel | one channel, programs arming SPI steps |
| `launched_core_start` | *violated*: a start pulse during the previous hold is lost | the same |
| `register_link` | framing, commands in order, answers whole, room in the queue, refinement of `RegisterFile` | 2 writable registers, 1 status register, words of 3 bytes, queues of 2, every byte also a command |
| `uart_line` | bytes arrive whole and in order under drift, refinement of `ByteLine`; the ring is a queue, refinement of `BoundedQueue` | 2 bits, 6 ticks a bit, drift of up to 2 ticks, 3 places |
| `host_sessions` | one pulse for each strobe and none for others; the words read are the words stored and the parts of a word belong together | 2 channels, 2 addresses, 2 parts |
| `status_registers` | *violated*: the empty flag of a channel is at another channel's bit | 3 channels |
| `host_tool` | the file is parsed as written; instructions survive encoding and printing; sweeps climb; loads leave nothing stale; what is read back was loaded | DAC of 6 bits, deltas and holds of 5, iterations of 3; 6 units and 5.25 codes to a printed digit; repetitions of 2 bits for a sequencer of 1; files of up to 7 lines; 2 channels, 2 addresses |

Why the bounds are enough.  Three addresses are one more than the two stages
that hold words, so that full, wrapping and one-word pipelines all occur (the
depth is chosen at each start); two word values tell a word from its modified
form; two iterations distinguish the last from the others.  In the SPI link the
counter wraps below the divisor, and three bits have a first, a middle and a
last.  In the core the hold counts 0, 1 and 2 are the cases of its counters
(zero, the test `<= 1`, counting), two iterations give a last and a first one,
and the idle counter wraps.  The observer's clock counts stop at `MaxClocks`,
one above the longest time compared.  The launcher's two channels are the least
that can be armed apart.  Three places are the least depth that is no power of
two.  In the register link queues shorter than a word make the answer wait for
room, and addresses that are also data bytes make lost framing visible; eight
bytes on the wire hold two writes, one behind the other.  On the UART line
two bits have a first and a last, and a drift of 2 of 6 ticks is the largest
below half a bit, the worst the sampling can bear; the board's 16 ticks are more
room for the same test.  (The run was also made with 3 bits of 8 ticks, a drift
of 3 and a queue of 2 places, which takes five minutes.)  A write takes at least five bytes of ten bits
of sixteen ticks, far more than the 4 clocks that `Pace` gives the detectors.
For the host tool the fields are so narrow that every pair of voltages, within
the range and one step outside, occurs with every number of levels, and every
time unit with a hold that rounds, one that is too long and one of zero.  A digit
printed is 6 voltages and 5.25 codes (on the board 5.24 codes), so that most
voltages cannot be printed as written and half a digit costs up to 3 codes, as on
the board.  Sweeps that come back a code off, and sweeps whose line is rejected,
both occur.  A repetition may be more than the sequencer can count to, a launch
may name channels beyond the board and beyond a register, and a count that is
beyond a register.  Seven
lines are two programs of the least length and a launch behind them, or one
with every directive, in every order; the instructions are offered as the last
line of a short file, and all of them are tried there.

Deadlock is checked in every run.  `SpiLink`, `RegisterLink`, `UartLine` and
`HostSessions` state a `TypeOK` for the reader; their runs check what it does
not say.

### Findings

1. `sequencer_shared_address`: when the pc stage ends a run, the memory's read
   port goes over to the host's address register one fetch too early
   (`serial_sequencer.sv:244`).  `squish.py` starts a channel and then loads the
   next one through the same register.
2. `launched_core_start`: `o_armed` does not wait for the hold of the step
   before, so the launcher may fire early; the pulse is lost and the launch is
   counted (`dc_core.sv:345`).
3. `status_registers`: `o_dc_empty_bus` is declared in ascending order, so that
   `squish.py` shows the empty flag of channel 23 - n as that of channel n
   (`processor.sv:138`).

Seen while modelling, without a run of its own:

- when an armed idle step leaves, its buffer keeps `r_arm` (`dc_core.sv:236`), so
  that `o_armed` rises once more for the step behind it, armed or not, and the
  launcher may count a launch for it; an armed idle at the end of a program never
  raises `o_armed`, which asks for an SPI step behind it (`dc_core.sv:346`).
  `CoreIsChannel` is therefore checked for programs that arm SPI steps only;
- `.repeat 1024` passes `squish.py`, which takes 16 bits, and is 0 in the
  sequencer's 10 bits; the channel stays active until a halt.  `LoadsPrograms`
  says that the low bits are what a run gets, and `RunEnds` is checked for counts
  that fit;
- the count of a `.launch` and its channels are not bounded by the parser, and
  `reg_bytes()` keeps 32 bits of them without a message: a count of 2^32 is none
  (`LoadsPrograms` says what the launcher is given);
- four decimals are coarser than a code.  `lvl v=0.00002` is code 1, is printed as
  `+0.0000` and assembles to code 0 then; a level written with more than four
  decimals may come back up to 3 codes off.  A printed sweep carries a rounded
  second voltage, so that it may come back one code per step steeper or flatter,
  and with voltages written more finely off by up to 2 * 3 codes and a step over
  its length.  One with the largest step, or within that of it, may be rejected; a
  strobed `set dr` prints as a level (`PrintedReassembles` says what comes back and
  which lines may be rejected);
- a voltage after `v+` that the delta field cannot hold is cut to the largest
  delta without a message;
- one strobe applies all four control registers of a channel, those the program
  does not give included: these hold the last program's values, or an earlier
  session's (`LoadsPrograms` speaks of those given);
- a `.launch` whose mask is on the next line keeps an empty mask when the file
  ends there;
- `.program` takes any channel number, and a second program of a channel
  replaces the first one while that may be running.

## Fairness

- `SoloSpec`: the core takes a word again and again (`Consumes`).  `dc_core`
  does so because every hold is a finite count and every frame ends; an armed
  step that never gets a start is outside this model.
- `SpiLink`: the clock runs.  A host that rewrites the divisor for ever is
  excluded in `FrameEnds` by its premise.
- `FairSpec` of the core: the clock runs and frames end (`spi_link` shows it).
- `LaunchedChannels`: the clock runs and a channel in use loads its next armed
  step.  `LaunchesComplete` has the premises that the host leaves the launcher
  alone, that no trigger is asked for and that the mask is the set of all
  channels; the code needs the last, as it compares for equality.
- `RegisterLink`: the clock runs, a byte that was sent arrives and a byte that is
  queued is taken.  Nothing is assumed of the host.
- `UartLine`: both clocks run, and the receiver's looks at the line.

## Proofs

The inductive invariants (`ContentInv`, `LaunchInv`, `LinkInv`, `CoreInv`, the
core's `OrderInv`, `WiredInv`, `Inv`, `LineInv`, `RegInv`, `SessionInv` and, of the
tool, `SessionOK` and `FileOK`) were model-checked before they were proved, on the
instances of the runs; the runs keep the properties they imply.  Every safety
property that a run checks has a theorem.
A theorem about a refinement shows that initial states are initial and that
every step is a step or a stutter; where the abstract specification promises
fairness as well, the theorem speaks of its safety part and the run of both.

`SequencerProofs`, for every memory size, set of words, `Modify`, iteration
width and set of iteration counts (assumptions in `SerialSequencer`):

- `SequencerTypeCorrect`, `ObserverTypeCorrect`: type correctness;
- `ConsecutivePcsAnyHost` from `OrderInv`.  `ConsecutivePcs` speaks of the words
  of the present run, so the invariant has to bound the words of earlier runs
  (`stale`) and to say that a run with iterations left is active;
- `DeliversProgramSoloHost` and `WriteBackCurrentSoloHost` from `ContentInv`.
  What has been fetched is right only because the memory equals the program
  while an address is still to be read, and because in the last clock, when
  the port is the host's, the host's address is the word's;
- `SequencerImplementsOrder`: every clock is a step of `ProgramOrder` or a stutter.
  `ContentInv` gives the word of the step; what is new is that the addresses the
  pipeline has still to deliver (`FetchLeft`) are those the abstract head walks
  over, over the wrap at the end of an iteration as well (`RunMovesHead`).

`SpiProofs`, for every frame width, width of the phase counter and set of
divisors, rewritten in any clock:

- `SpiTypeCorrect`, `BitsAlwaysInOrder` and `FrameTakesExactly` from `LinkInv`:
  the two shift registers hold what is still to be sent in front of what has
  been received, and while the divisor stays the clocks so far are a function of
  the state, the bit and the phase count;
- `LinkDeliversFrames`: the link implements `SpiFrame`.

`LaunchProofs`, for every set of channels, every launch count and every host
pace of at least one clock between pulses:

- `LaunchTypeCorrect`, `StartFindsStepAlways`, `LaunchesAlwaysAddUp` from
  `LaunchInv`.  A start pulse leaves stale armed lines behind; the invariant
  says in which states of the launcher they have settled.  A clear shortens the
  way back to `ARM`, and there the host's pace closes the gap: that is the
  disjunct with `quiet = 0`.

`CoreProofs`, for every program, field width and set of control settings, with
frames of any length and starts in any clock (assumptions in `DcDecode`, `DcCore`
and `DcCoreObserved`; the observer's counts must not stop within a step's time):

- `CoreTypeCorrect` from `StageTypes`, which adds to the checked `TypeOK` that a
  bubble has no iterations left: what it holds is never added to;
- `FramesAlwaysSelected` and `EmptyAlwaysQuiet` from `FrameInv`, which follows a
  frame from its request to its end.  Only a buffer that is done is ever reloaded
  or released (`SbufCases`); that an invalid buffer stays done rests on its
  chip-select count being zero;
- `StepsHeldExactly` and `LdacAlwaysExact` from `HoldInv`: the two counters are
  functions of the clocks the step has been held;
- `SelectAlwaysRests` from `RestInv`: the clocks since the last frame and the
  clocks still to be counted down add up to the rest due;
- `CoreExecutesInOrder`: the core implements `DcExecutor`, which executes the
  steps of one instruction after another.  Under the mapping the steps in flight
  are those in the buffers, oldest first, and those the iterate stage has still
  to give, which `DcSteps` defines by a fold.  The proof follows a step from
  stage to stage: the fold in front of an instruction (`AddsAreExtend`,
  `ExtendFirst`, `ExtendBehind`), one iteration leaving the iterate stage
  (`IterateGives`), the buffers taking it (`BuffersTake`), the older of the two
  going to the hold stage (`OldestLeaves`).  The strengthening `OrderInv` adds
  that a bubble is never marked idle: the idle buffer would gather it;
- `CoreAlwaysChannel`: wired to the launcher the core is the channel that
  `LaunchedChannels` assumes, for programs that arm SPI steps only
  (`ArmsSpiOnly`, the programs of the run; with an armed idle it is false, see
  above).  `StartFindsCore` puts this and the launcher's theorems together: with
  such programs a start pulse finds a core with an armed step that is shifted,
  and launches add up.  It needs a host that leaves at least one clock between
  two pulses (`GapAssumption`), as the UART does.

`QueueProofs`, for every depth of at least two and every set of items:

- `QueueTypeCorrect` and `PointersAlwaysAgree`, the inductive invariant: without
  `PointersAgree` a full ring is not told from an empty one;
- `RingIsQueue`: every step of the ring is a step of `BoundedQueue` under the
  mapping `Contents`.  Lemmas say what advancing a pointer round the ring does
  to the place n ahead of it, and that a place is counted once.

And of the line behind it, for every number of bits and of ticks of a bit, and
every drift below half a bit within a frame:

- `LineTypeCorrect` and `SamplesAlwaysInOrder` from `LineInv`.  Its heart is
  `Aligned`: both ends count the ticks of the same frame, and the two counts
  differ by the drift, so that the transmitter's bit is the one that the receiver
  samples next or the one before.  With half a bit of drift a sample may fall
  into the neighbour, and the invariant fails there;
- `LineKeepsQueue`: the ring is a bounded queue here too, where a byte may come in
  the clock in which the transmitter takes one;
- `LineDeliversInOrder`: the line implements the safety part of `ByteLine`.

`LinkProofs`, for every number of registers and of bytes of a word, every queue of
at least two places and every line with at least two clocks from byte to byte (a
byte takes 160 ticks on the board, whose queues have 8 places):

- `LinkTypeCorrect`, `StreamAlwaysIntact`, `QueueAlwaysHasRoom` and
  `NothingEverLeftOver` from `RegInv`.  `StreamIntact` says that what the state
  machine has consumed of a command and what lies in the queue and on the wire are
  the commands pending, byte by byte.  It is inductive only with three facts:
  a read is the last command pending, as the host waits for the answer
  (`ReadIsLast`); the bytes of an answer, received, queued and still to be sent,
  are one word (`ReplyWhole`); and the state machine takes a byte before the next
  one can arrive (`KeepsUp`), which is where the two places and the two clocks
  are needed;
- `LinkServesInOrder`: the safety part of the refinement of `RegisterFile`.  A byte
  that completes a command is the abstract command, every other step a stutter.

`SessionProofs`, for every number of channels, addresses and parts of a word, and
every host that leaves at least four clocks between two commands:

- `SessionTypeCorrect`, `NeverStrayStart`, `StrobesAlwaysOnce`, `AlwaysReadsStored`
  and `AlwaysReadsWhole` from `SessionInv`, which says for every remainder of a
  strobe or of a read-back what the registers, the detectors and the read path
  hold, by the clocks since the last command.  The first write of a strobe, which
  clears the register, is what makes this hold after a session that was killed
  anywhere.  With less than four clocks a pulse is still on its way when the next
  command comes.

`SquishProofs`, for every width of the DAC, the delta, the hold, the iteration
and the register fields, every voltage range and all lines of every mnemonic:

- `SweepClimbsAlways`: a sweep that is accepted has its codes in the range, from
  the first voltage on, in even steps, as far as the second one; one that is
  rejected names the least number of levels that is accepted.  The step is
  bounded by what the rounded-up division gives (`CeilBounds`, `CeilLeast`) and,
  where it leaves the range, by the division that pulls it back (`PulledBackUp`,
  `PulledBackDown`); `UnrolledCode` says that the core's addition modulo the
  DAC's range of the sign-extended delta is the integer sum, as long as that is
  a code; `AdviceIsLeast` is the claim about the message.  The proof needs a delta
  field of at least two bits (`InsnAssumption`): with fewer the largest delta is
  0, and the message divides by it;
- `WordsAlwaysCarry`: what is stored through three registers decodes to the
  instruction, and its fields lie where the core takes them from.  `AssembleType`
  says that every accepted line gives fields in range, `InsnsOK` carries this
  through the parser, `EncodedDigits` takes the word apart, digit by digit, and
  `PlacesOfFields` finds the same digits from the sizes of the packed structure.

- `PrintedAlwaysReassembles`: the line that is printed of an instruction
  assembles to it again, but for its voltages, and for these it gives bounds.  A
  number of cycles is printed in the largest unit that leaves no fraction, so it
  comes back whole.  The code of a voltage that can be printed as it is written is
  printed as a voltage that is rounded, and comes back whichever of the two is
  coarser (`CodeComesBack`); the code of a finer voltage comes back within half a
  digit and half a code (`Rounding`, `CodeNear`).  The second voltage of a sweep is
  the one rounded most: its step comes back within a code if both voltages can be
  printed (`StepNear`), else within what the roundings of both ends cost together
  (`StepRounded`).  A sweep whose line is rejected had the largest step, or one
  within these bounds of it (`TooSteep`).  Codes and deltas at the end of
  their range are clamped, and there the rounding has to be known
  (`PrintAssumption`: the DAC has an even number of codes, and the two extreme
  deltas come back from the voltages printed of them, which TLC evaluates for the
  values of the run);
- `FilesAlwaysParsed`: what the parser makes of a file, line by line, is what the
  file says as a whole, and it rejects exactly the files that are not well formed
  so far.  Lemmas follow each part of `WrittenPrograms`, `WrittenLaunch` and
  `WellFormed` over a file that is a line longer (`SectionsAppend`, `WrittenAppend`,
  `LaunchAppend`, `WellFormedAppend`).  `FileOK` says what has been made of the lines
  dealt with: the programs closed are those of the sections closed, the one open
  is that of the section open, and the last line dealt with is one that the mode
  may be behind.  It needs the line that ended a program: while that one is
  looked at again at the top it is neither empty nor an instruction, else an
  instruction would be rejected there that the file allows;
- `LoadsAlwaysPrograms` and `ReadsAlwaysBack` from `ParsedOK`, `BoardType` and
  `SessionOK` (`SquishInvariant`).  The commands of a session are cut into groups: the strobes cleared,
  the control registers of a program, each of its instructions, its start, the
  launch.  For a command within a group `SessionOK` says what is left to be sent,
  which registers hold what the group has written, and what the programs before
  have made of the board: memories and control registers of the last program of
  each channel, one run for each program, nothing of channels without one.  The
  registers start with values of an earlier session and the strobes all high or all low; that every
  group clears its strobe first is what makes the invariant hold.  What a run and
  the launcher are given is what is left of the file's numbers in the bits there
  are for them (`RunIsAsked`, `LaunchOpsAre`).  For read-back it
  says which words have been printed, which parts of the next one have been
  answered, and that the depth latched is that of the program.

The assumptions are those of `SquishInsn` (`InsnAssumption`, which makes the range's
ends voltages that can be printed, and `PrintAssumption`), of `DcDecode`, of
`SquishOps` (`WordAssumption`: a register's word has a bit for every channel of the
board), of `SquishMain` (`IterAssumption`), and of `SquishAsm`: `SizesAssumption` bounds the number of markers by the
registers there are for them, and `LinesAssumption` says what lines can be.  Files
name channels of the board only: the tool takes any number behind `.program`, and
what it sends for others no channel hears.

Where a proof needs induction, over the length of a sequence or of a fold, it uses
that finite sets are well-founded under inclusion, which gives induction for one
given set of naturals (`SetInduction`); this is enough for sequences of commands
and for the steps of an instruction.

Only model-checked: liveness (`RunEnds`, `FrameEnds`, `PipelineDrains`,
`LaunchesComplete` and the fair parts of `ServesCommands` and `DeliversBytes`), as
fairness and ENABLED are out of the prover's reach.

## Not modelled

Of the tool: the wording of messages, the register dump of `-o`, the time
estimate, the printout of the launcher (`-r launch`) and the transport through
the simulator's socket, which is test equipment.  Channels that are still running
when they are loaded: the tool promises nothing of them.  The DAC models, the
baud generator's divisor counter, the marker multiplexer and the marker bit in
the core.  A host that is killed within a register write leaves the register
file waiting for the rest, with no way back in the code; a line with noise gives
bytes the receiver cannot tell from data.  Neither has a promise in the code to
check.  The legacy C assembler in `asm/src` writes an older register layout.
Board top levels, pin buffers and vendor primitives have no state worth a model;
test benches and simulators are stimulus; `pcb`, `data` (recorded spectra and
scripts that plot them) and `exp` hold no program.

## Plan

1. Done: sequencer, SPI master, core, launcher, launcher with core; byte queue,
   register file, UART line, strobes, read-back; the host tool from the file to
   the registers and back; theorems for every safety property of them, and for
   the refinements as far as they are safety.
2. `Channel`: sequencer and core together, with `o_empty` and the host's reload,
   and the armed idle, which then takes over the runs of `LaunchedCore`; `Ad5791`
   at the core's outputs (SYNC and LDAC order).
3. Proofs: what `Channel` adds, on top of `SequencerImplementsOrder` and
   `CoreExecutesInOrder`.
