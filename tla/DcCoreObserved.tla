--------------------------- MODULE DcCoreObserved ---------------------------
(***************************************************************************)
(* The core's properties, with an observer that remembers the step loaded  *)
(* into the hold stage, the clocks it has been there, and the clocks chip  *)
(* select has been high.                                                   *)
(***************************************************************************)
EXTENDS DcCore, DcSteps

CONSTANT MaxClocks   \* the observer's clock counts stop here

Address == 0 .. AddrMod - 1 \union {None}
IterNo  == 0 .. IterMax \union {None}
Code    == 0 .. DacMod - 1 \union {None}
Cycles  == 0 .. CycleMod - 1

StepType == [addr: Address, iter: IterNo, spi_din: Code, strb_ldac: BOOLEAN,
             hold_cycles: Cycles, arm: BOOLEAN, idle: BOOLEAN]

\* The counts do not stop within a step's time.
ASSUME ClocksAssumption ==
    /\ MaxClocks \in Nat \ {0} /\ CycleMod <= MaxClocks
    /\ \A c \in Ctrl : c.ldac + 2 < MaxClocks
ASSUME NoneAssumption == None \notin StepType

VARIABLES
    step,   \* the step in the hold stage, None between steps
    held,   \* clocks since it was loaded
    ldac,   \* the LDAC setting it was loaded with
    gap,    \* clocks since the last frame ended
    rest    \* clocks chip select must be high before the next frame

observer == <<step, held, ldac, gap, rest>>
allvars == <<vars, observer>>

Count(n) == IF n < MaxClocks THEN n + 1 ELSE n

IdleStep(b) ==
    [addr |-> b.addr, iter |-> b.iter, spi_din |-> 0, strb_ldac |-> FALSE,
     hold_cycles |-> b.hold_cycles, arm |-> b.arm, idle |-> TRUE]

SpiStep(b) ==
    [addr |-> b.addr, iter |-> b.iter, spi_din |-> b.spi_din, strb_ldac |-> b.strb_ldac,
     hold_cycles |-> b.hold_cycles, arm |-> b.arm, idle |-> FALSE]

ObserveHold ==
    \/ /\ S2H
       /\ held' = 1
       /\ ldac' = IF ~ibuf.valid /\ sbuf.valid THEN ctrl.ldac ELSE 0
       /\ step' = IF ibuf.valid THEN IdleStep(ibuf)
                  ELSE IF sbuf.valid THEN SpiStep(sbuf) ELSE None
    \/ /\ ~S2H
       /\ held' = Count(held)
       /\ UNCHANGED <<step, ldac>>

\* rest: cs_up of the frame before, then two clocks and the delay of the next.
Longer(a, b) == IF a > b THEN a ELSE b

ObserveSelect(done) ==
    /\ gap' = IF done THEN 1 ELSE Count(gap)
    /\ rest' = IF sbuf'.valid /\ sbuf'.spi_start /\ ~sbuf.spi_start
               THEN rest + 2 + sbuf'.delay
               ELSE IF done THEN Longer(sbuf.cs_up, 1) ELSE rest

ObservedInit == Init /\ step = None /\ held = MaxClocks /\ ldac = 0 /\ gap = MaxClocks /\ rest = 0

ObservedNext == \E done \in BOOLEAN : Clock(done) /\ ObserveHold /\ ObserveSelect(done)

ObservedSpec == ObservedInit /\ [][ObservedNext]_allvars

-----------------------------------------------------------------------------
(* Properties. *)

\* Every register of the core holds a value of its type.
TypeOK ==
    /\ offer \in Program \union {None} /\ addr \in 0 .. AddrMod - 1
    /\ start \in BOOLEAN /\ ctrl \in Ctrl /\ spi_busy \in BOOLEAN /\ armed \in BOOLEAN
    /\ it.iters \in 0 .. IterMax /\ it.hold_cycles \in 0 .. CycleMod - 1
    /\ {it.bubble, it.idle, it.arm, it.strb_ldac} \subseteq BOOLEAN
    /\ ~it.bubble => it.spi_din \in 0 .. DacMod - 1
    /\ sbuf.hold_cycles \in 0 .. CycleMod - 1 /\ sbuf.delay \in Nat /\ sbuf.cs_up \in Nat
    /\ {sbuf.valid, sbuf.arm, sbuf.cs_n, sbuf.spi_start, sbuf.spi_done, sbuf.done} \subseteq BOOLEAN
    /\ ibuf.hold_cycles \in 0 .. CycleMod - 1 /\ {ibuf.valid, ibuf.arm} \subseteq BOOLEAN
    /\ h.ldac_cycles \in Nat /\ h.cycles_left \in 0 .. CycleMod - 1
    /\ {h.ldac_n, h.done} \subseteq BOOLEAN

\* Chip select is low exactly while the SPI master shifts: no step reloads the
\* SPI buffer under a running frame, and no frame runs unselected.
SelectFramesFrame == sbuf.cs_n <=> ~spi_busy

\* Between two frames chip select is high for the cs_up cycles of the first,
\* the delay cycles of the second and the two clocks of the handover.
SelectRests == [][sbuf.cs_n /\ ~sbuf'.cs_n => gap >= (IF rest < MaxClocks THEN rest ELSE MaxClocks)]_allvars

\* Clocks a step occupies the hold stage before the next may be loaded.
Dwell ==
    IF step.strb_ldac THEN Longer(step.hold_cycles, ldac + 2)
    ELSE IF step.idle THEN Longer(step.hold_cycles, 1) ELSE step.hold_cycles

\* A step is held for its hold cycles and one, and never less than its LDAC
\* strobe takes; the stage is free from then on.
HeldExactly == step # None => (h.done <=> held > Dwell)

\* LDAC is low for the configured cycles and one after a strobing step loads,
\* and at no other time.
LdacStrobe == ~h.ldac_n <=> (step # None /\ step.strb_ldac /\ held <= ldac + 1)

\* With o_empty the channel is at rest: no frame, no LDAC strobe, no step to
\* come, so that the host may load a new program (squish.py reads the flag).
EmptyIsQuiet == OutEmpty => ~spi_busy /\ sbuf.cs_n /\ h.ldac_n /\ ~sbuf.spi_start

\* Once the sequencer offers no more words, everything that was taken leaves the
\* stages and the channel comes to rest for good, as long as frames end and start
\* pulses keep coming: no step stays behind in a buffer (o_empty, which squish.py
\* and the host wait for).
Frames == WF_allvars(Clock(TRUE) /\ ObserveHold /\ ObserveSelect(TRUE))
Ticks == WF_allvars(ObservedNext)
FairSpec == ObservedSpec /\ Ticks /\ Frames
PipelineDrains == (<>[]Empty /\ []<>start) => <>[]OutEmpty

-----------------------------------------------------------------------------
(* The inductive invariant. *)

\* The types of the registers and stages.
PipeTypes ==
    /\ offer \in Program \union {None} /\ addr \in 0 .. AddrMod - 1
    /\ start \in BOOLEAN /\ ctrl \in Ctrl /\ spi_busy \in BOOLEAN /\ armed \in BOOLEAN
    /\ it \in [addr: Address, iters: 0 .. IterMax, spi_din: Code, dspi_din: Code,
               strb_ldac: BOOLEAN, hold_cycles: Cycles, arm: BOOLEAN, idle: BOOLEAN,
               bubble: BOOLEAN]
    /\ it.bubble => it.iters = 0
    /\ ~it.bubble => it.spi_din \in 0 .. DacMod - 1 /\ it.dspi_din \in 0 .. DacMod - 1
    /\ sbuf \in [valid: BOOLEAN, addr: Address, iter: IterNo, spi_din: Code,
                 strb_ldac: BOOLEAN, hold_cycles: Cycles, arm: BOOLEAN, delay: Nat,
                 cs_up: Nat, cs_n: BOOLEAN, spi_start: BOOLEAN, spi_done: BOOLEAN,
                 done: BOOLEAN]
    /\ ibuf \in [valid: BOOLEAN, addr: Address, iter: IterNo, hold_cycles: Cycles, arm: BOOLEAN]
    /\ h \in [addr: Address, iter: IterNo, spi_din: Code, ldac_cycles: Nat, ldac_n: BOOLEAN,
              cycles_left: Cycles, done: BOOLEAN]

\* The types of the stages and of the observer.
StageTypes ==
    /\ PipeTypes
    /\ step \in StepType \union {None} /\ ldac \in Nat
    /\ held \in 1 .. MaxClocks /\ gap \in 1 .. MaxClocks /\ rest \in Nat

\* Where the SPI buffer and the SPI master are in a frame: asked for and delayed,
\* shifting, at rest, over.
FrameInv ==
    /\ sbuf.cs_n <=> ~spi_busy
    /\ sbuf.spi_start => ~spi_busy
    /\ ~sbuf.spi_done <=> spi_busy \/ sbuf.spi_start
    /\ sbuf.delay > 0 => sbuf.spi_start
    /\ sbuf.done => sbuf.spi_done
    /\ ~sbuf.valid => sbuf.done /\ sbuf.cs_up = 0

\* What is left of a count of n clocks that began with the step.
Left(n) == IF held <= n THEN n - held + 1 ELSE 0

\* The hold stage's counters are functions of the clocks the step has been held.
HoldInv ==
    /\ h.done => h.ldac_n
    /\ step = None => h.ldac_n /\ h.ldac_cycles = 0
    /\ step # None =>
        /\ h.cycles_left = Left(step.hold_cycles)
        /\ h.ldac_cycles = IF step.strb_ldac THEN Left(ldac) ELSE 0
        /\ ~h.ldac_n <=> step.strb_ldac /\ held <= ldac + 1
        /\ h.done <=> held > Dwell
        /\ ldac + 2 < MaxClocks /\ ~(step.strb_ldac /\ step.idle)

\* The clocks still to be spent before chip select falls are enough.
RestInv ==
    gap < MaxClocks =>
        /\ sbuf.spi_start => gap + sbuf.delay >= rest
        /\ sbuf.spi_done /\ ~sbuf.done => gap + Longer(sbuf.cs_up, 1) > rest
        /\ sbuf.done => gap > rest

CoreInv == StageTypes /\ FrameInv /\ HoldInv /\ RestInv

-----------------------------------------------------------------------------
(* Refinement of the executor. *)

Decoded(d) ==
    [iters |-> d.iters, spi_din |-> d.spi_din, dspi_din |-> d.dspi_din,
     strb_ldac |-> d.strb_ldac, hold_cycles |-> d.hold_cycles, arm |-> d.arm, idle |-> d.idle]

\* What each stage has still to execute, the idle buffer before the SPI buffer.
InFlight ==
    LET idles == IF ibuf.valid THEN <<IdleStep(ibuf)>> ELSE <<>>
        spis == IF sbuf.valid THEN <<SpiStep(sbuf)>> ELSE <<>>
        iterating == IF it.bubble THEN <<>> ELSE Steps(it.addr, Decoded(it))
    IN  Extend(idles \o spis, iterating)

Executor == INSTANCE DcExecutor WITH
    Insns <- {Decode(insn) : insn \in Program},
    Addr <- 0 .. AddrMod - 1,
    pending <- InFlight,
    current <- step

\* The pipeline executes every step of every instruction it takes once and in
\* order, with the value of its iteration, and an armed step only on a start.
ExecutesInOrder == Executor!Spec
=============================================================================
