------------------------------- MODULE DcCore -------------------------------
(***************************************************************************)
(* The execution pipeline of a channel, rtl/src/dc_core.sv: the iterate    *)
(* stage unrolls an instruction into steps, the SPI buffer shifts a step's *)
(* word into the DAC while the step before it is held, the idle buffer     *)
(* gathers steps that only wait, and the hold stage strobes LDAC and       *)
(* counts the step's cycles.  One step of the module is one clock edge.    *)
(*                                                                         *)
(* The SPI master is SpiFrame's: a frame takes any number of clocks.  The  *)
(* sequencer's output, the launcher's start line and the control registers *)
(* are registers of other parts; they are variables here and change as     *)
(* those parts may change them.  Fields the code leaves 'bx hold None.     *)
(***************************************************************************)
EXTENDS DcDecode

CONSTANTS
    Program,   \* instruction words the sequencer may offer
    AddrMod,   \* addresses are told apart modulo this
    Ctrl,      \* control settings: [delay, cs_up, ldac]
    None       \* no value

ASSUME ProgramAssumption == Program \subseteq InsnWord
ASSUME AddrAssumption == AddrMod \in Nat \ {0}
ASSUME CtrlAssumption == Ctrl \subseteq [delay: Nat, cs_up: Nat, ldac: Nat]

VARIABLES
    offer,     \* the sequencer's output word, None while it is empty
    addr,      \* its address
    start,     \* the launcher's registered start line
    ctrl,      \* dc_ctrl's registers
    it,        \* iterate stage
    sbuf,      \* SPI buffer
    ibuf,      \* idle buffer
    spi_busy,  \* the SPI master is shifting
    h,         \* hold stage
    armed      \* o_armed

vars == <<offer, addr, start, ctrl, it, sbuf, ibuf, spi_busy, h, armed>>

EmptySbuf ==
    [valid |-> FALSE, addr |-> None, iter |-> None, spi_din |-> None, strb_ldac |-> FALSE,
     hold_cycles |-> 0, arm |-> FALSE, delay |-> 0, cs_up |-> 0, cs_n |-> TRUE,
     spi_start |-> FALSE, spi_done |-> TRUE, done |-> TRUE]

EmptyHold ==
    [addr |-> None, iter |-> None, spi_din |-> None, ldac_cycles |-> 0, ldac_n |-> TRUE,
     cycles_left |-> 0, done |-> TRUE]

Init ==
    /\ offer \in Program \union {None} /\ addr = 0
    /\ start = FALSE /\ ctrl \in Ctrl
    /\ it = [addr |-> None, iters |-> 0, spi_din |-> None, dspi_din |-> None,
             strb_ldac |-> FALSE, hold_cycles |-> 0, arm |-> FALSE, idle |-> FALSE,
             bubble |-> TRUE]
    /\ sbuf = EmptySbuf
    /\ ibuf = [valid |-> FALSE, addr |-> None, iter |-> None, hold_cycles |-> 0, arm |-> FALSE]
    /\ spi_busy = FALSE
    /\ h = EmptyHold
    /\ armed = FALSE

-----------------------------------------------------------------------------
(* Propagation. *)

Empty == offer = None

ReleasedUnarmed(arm) == h.done            \* fault: an armed step does not wait

\* A held step is over and the next, if it is armed, has its start.
Released(arm) == h.done /\ (arm => start)

\* From the buffers to the hold stage; the idle buffer is the older.
S2H ==
    \/ ~sbuf.valid /\ ~ibuf.valid /\ h.done
    \/ ~sbuf.valid /\ ibuf.valid /\ it.bubble /\ Empty /\ Released(ibuf.arm)
    \/ sbuf.valid /\ sbuf.done /\ Released(IF ibuf.valid THEN ibuf.arm ELSE sbuf.arm)

I2SOverwrites == ~sbuf.valid \/ S2H       \* fault: the idle buffer may go instead

\* From the iterate stage to the buffers.
I2S == ~sbuf.valid \/ (~ibuf.valid /\ S2H)

\* o_next: the sequencer's word is taken.
Taken == I2S /\ it.iters = 0 /\ ~Empty

-----------------------------------------------------------------------------
(* Stages. *)

BubbleKeepsIdle == it' = [it EXCEPT !.bubble = TRUE]   \* fault: missing reset
Bubble == it' = [it EXCEPT !.bubble = TRUE, !.idle = FALSE]

\* Fault: the DAC word grows beyond its width.
CountDownUnwrapped ==
    it' = [it EXCEPT !.iters = @ - 1, !.arm = FALSE, !.spi_din = @ + it.dspi_din]

CountDown ==
    it' = [it EXCEPT !.iters = @ - 1, !.arm = FALSE, !.spi_din = (@ + it.dspi_din) % DacMod]

Iterate ==
    \/ /\ Taken
       /\ it' = [addr |-> addr, bubble |-> FALSE,
                 iters |-> Decode(offer).iters, spi_din |-> Decode(offer).spi_din,
                 dspi_din |-> Decode(offer).dspi_din, strb_ldac |-> Decode(offer).strb_ldac,
                 hold_cycles |-> Decode(offer).hold_cycles, arm |-> Decode(offer).arm,
                 idle |-> Decode(offer).idle]
    \/ I2S /\ it.iters = 0 /\ Empty /\ Bubble
    \/ I2S /\ it.iters > 0 /\ CountDown
    \/ ~I2S /\ UNCHANGED it

\* Fault: chip select falls before the delay is over.
DelaySelects == sbuf' = [sbuf EXCEPT !.delay = @ - 1, !.cs_n = FALSE]
Delay == sbuf' = [sbuf EXCEPT !.delay = @ - 1]

\* Fault: the frame's end does not wait for the cs_up cycles.
RestIgnored == sbuf' = [sbuf EXCEPT !.cs_n = TRUE, !.done = TRUE]
Rest ==
    sbuf' = [sbuf EXCEPT !.cs_n = TRUE, !.done = sbuf.cs_up <= 1,
                         !.cs_up = IF @ > 0 THEN @ - 1 ELSE 0]

\* The delay, the frame, the chip-select rest; done is the SPI master's o_done.
Shift(done) ==
    \/ sbuf.delay > 0 /\ Delay
    \/ /\ sbuf.delay = 0 /\ ~sbuf.spi_done
       /\ sbuf' = [sbuf EXCEPT !.spi_start = FALSE, !.cs_n = done, !.spi_done = done]
    \/ sbuf.delay = 0 /\ sbuf.spi_done /\ Rest

SpiBuffer(done) ==
    \/ /\ I2S /\ ~it.idle /\ it.bubble
       /\ sbuf' = EmptySbuf
    \/ /\ I2S /\ ~it.idle /\ ~it.bubble
       /\ sbuf' = [valid |-> TRUE, addr |-> it.addr, iter |-> it.iters, spi_din |-> it.spi_din,
                   strb_ldac |-> it.strb_ldac, hold_cycles |-> it.hold_cycles, arm |-> it.arm,
                   delay |-> ctrl.delay, cs_up |-> ctrl.cs_up, cs_n |-> TRUE,
                   spi_start |-> TRUE, spi_done |-> FALSE, done |-> FALSE]
    \/ /\ ~(I2S /\ ~it.idle) /\ S2H /\ ~ibuf.valid /\ sbuf.valid
       /\ sbuf' = [sbuf EXCEPT !.valid = FALSE, !.arm = FALSE, !.delay = 0, !.cs_up = 0,
                               !.cs_n = TRUE, !.spi_done = TRUE, !.done = TRUE]
    \/ /\ ~(I2S /\ ~it.idle) /\ ~(S2H /\ ~ibuf.valid /\ sbuf.valid)
       /\ Shift(done)

SpiMaster(done) ==
    \/ ~spi_busy /\ ~done /\ spi_busy' = (sbuf.spi_start /\ sbuf.delay = 0)
    \/ spi_busy /\ spi_busy' = ~done

\* An idle step that follows another adds its cycles to it.
IdleBuffer ==
    \/ /\ I2S /\ it.idle /\ ibuf.valid
       /\ ibuf' = [ibuf EXCEPT !.hold_cycles = (@ + it.hold_cycles) % CycleMod]
    \/ /\ I2S /\ it.idle /\ ~ibuf.valid
       /\ ibuf' = [valid |-> TRUE, addr |-> it.addr, iter |-> it.iters,
                   hold_cycles |-> it.hold_cycles, arm |-> it.arm]
    \/ /\ ~(I2S /\ it.idle) /\ S2H /\ ibuf.valid
       /\ ibuf' = [ibuf EXCEPT !.valid = FALSE]
    \/ /\ ~(I2S /\ it.idle) /\ ~(S2H /\ ibuf.valid)
       /\ UNCHANGED ibuf

HeldLonger == h.cycles_left = 0 /\ h.ldac_cycles = 0 /\ h.ldac_n   \* fault: off by one
HeldOut == h.cycles_left <= 1 /\ h.ldac_cycles = 0 /\ h.ldac_n

StrobeShort == h.ldac_cycles <= 1         \* fault: off by one
StrobeOver == h.ldac_cycles = 0

Hold ==
    \/ /\ S2H /\ ibuf.valid
       /\ h' = [addr |-> ibuf.addr, iter |-> ibuf.iter, spi_din |-> 0, ldac_cycles |-> 0,
                ldac_n |-> TRUE, cycles_left |-> ibuf.hold_cycles, done |-> FALSE]
    \/ /\ S2H /\ ~ibuf.valid /\ sbuf.valid
       /\ h' = [addr |-> sbuf.addr, iter |-> sbuf.iter, spi_din |-> sbuf.spi_din,
                ldac_cycles |-> IF sbuf.strb_ldac THEN ctrl.ldac ELSE 0,
                ldac_n |-> ~sbuf.strb_ldac, cycles_left |-> sbuf.hold_cycles,
                done |-> ~sbuf.strb_ldac /\ sbuf.hold_cycles = 0]
    \/ /\ S2H /\ ~ibuf.valid /\ ~sbuf.valid
       /\ h' = EmptyHold
    \/ /\ ~S2H
       /\ h' = [h EXCEPT !.ldac_cycles = IF @ > 0 THEN @ - 1 ELSE 0,
                         !.cycles_left = IF @ > 0 THEN @ - 1 ELSE 0,
                         !.ldac_n = StrobeOver, !.done = HeldOut]

\* Fault: o_armed does not wait for the SPI frame.
ArmedEarly ==
    armed' = \/ sbuf.valid /\ sbuf.arm
             \/ sbuf.valid /\ ibuf.arm /\ ~start /\ (sbuf.done \/ (Empty /\ it.bubble))

Armed ==
    armed' = \/ sbuf.valid /\ sbuf.arm /\ sbuf.done
             \/ sbuf.valid /\ ibuf.arm /\ ~start /\ (sbuf.done \/ (Empty /\ it.bubble))

-----------------------------------------------------------------------------
(* The surroundings: a word stays offered until it is taken; the launcher  *)
(* and the host write their registers when they like.                      *)

Offer ==
    IF Taken THEN addr' = (addr + 1) % AddrMod /\ offer' \in Program \union {None}
    ELSE addr' = addr /\ offer' \in (IF Empty THEN Program \union {None} ELSE {offer})

Clock(done) ==
    /\ Iterate /\ SpiBuffer(done) /\ SpiMaster(done) /\ IdleBuffer /\ Hold /\ Armed
    /\ Offer
    /\ start' \in BOOLEAN
    /\ ctrl' \in Ctrl

Next == \E done \in BOOLEAN : Clock(done)

Spec == Init /\ [][Next]_vars

-----------------------------------------------------------------------------

\* Fault: o_empty forgets the SPI buffer.
OutEmptyNoSbuf == Empty /\ it.bubble /\ ~ibuf.valid /\ h.done

OutEmpty == Empty /\ it.bubble /\ ~sbuf.valid /\ ~ibuf.valid /\ h.done

=============================================================================
