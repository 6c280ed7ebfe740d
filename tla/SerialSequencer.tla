--------------------------- MODULE SerialSequencer ---------------------------
(***************************************************************************)
(* The per-channel program sequencer, rtl/src/serial_sequencer.sv: a three *)
(* stage pipeline (pc, insn, out) over a block RAM that holds the program. *)
(* One step is one rising edge of i_clk; every register is assigned from   *)
(* the values the registers had before the edge.                           *)
(*                                                                         *)
(* The host reaches the sequencer through its registers: the address       *)
(* register is a level (ildst_addr), the start, halt, store and read-back  *)
(* strobes arrive as one-cycle pulses of the edge detectors.  The UART     *)
(* writes one register at a time, so no two pulses share a clock.          *)
(***************************************************************************)
EXTENDS Naturals

CONSTANTS
    MaxPc,      \* last address of the program memory (2^PC_WIDTH - 1)
    Insn,       \* instruction words
    Zero,       \* the word 'h0
    Modify,     \* what dc_decode computes: the word written back after use
    IterMod,    \* 2^ITER_WIDTH, the width of the iteration register
    HostIters   \* iteration counts the host writes

Pc == 0 .. MaxPc

ASSUME MaxPcAssumption == MaxPc \in Nat
ASSUME ZeroAssumption == Zero \in Insn
ASSUME ModifyAssumption == Modify \in [Insn -> Insn]
ASSUME IterModAssumption == IterMod \in Nat \ {0}
ASSUME HostItersAssumption == HostIters \subseteq Nat

VARIABLES
    p,           \* pc stage
    i,           \* insn stage
    o,           \* out stage
    imem,        \* the program memory
    rd_data,     \* registered read data of port b of the memory
    insn_rd,     \* the word latched for the host's read-back
    ildst_addr   \* the host's load/store address register

vars == <<p, i, o, imem, rd_data, insn_rd, ildst_addr>>

TypeOK ==
    /\ p \in [pc: Pc, iters: 0 .. IterMod - 1, depth: Pc, active: BOOLEAN]
    /\ i \in [pc: Pc, valid: BOOLEAN]
    /\ o \in [pc: Pc, insn: Insn, buffered: BOOLEAN, valid: BOOLEAN]
    /\ imem \in [Pc -> Insn]
    /\ rd_data \in Insn
    /\ insn_rd \in Insn
    /\ ildst_addr \in Pc

(***************************************************************************)
(* After reset the stages are empty.  The memory and its read register are *)
(* not reset and hold anything.                                            *)
(***************************************************************************)
Init ==
    /\ p = [pc |-> 0, iters |-> 0, depth |-> 0, active |-> FALSE]
    /\ i = [pc |-> 0, valid |-> FALSE]
    /\ o = [pc |-> 0, insn |-> Zero, buffered |-> FALSE, valid |-> FALSE]
    /\ imem \in [Pc -> Insn]
    /\ rd_data \in Insn
    /\ insn_rd = Zero
    /\ ildst_addr = 0

-----------------------------------------------------------------------------
(* Combinational outputs. *)

OutInsn == IF o.buffered THEN o.insn ELSE rd_data

Propagate(next) == IF o.valid THEN next ELSE i.valid \/ p.active

\* The out stage takes an address the consumer is just modifying.
NotForwarded == FALSE                     \* fault: no forwarding
Forwarded == i.valid /\ o.valid /\ i.pc = o.pc

-----------------------------------------------------------------------------
(* The three stages. *)

LastPcLate == p.pc > p.depth              \* fault: off by one
LastPc == p.pc >= p.depth

\* Fault: the iteration register is not counted down.
AdvanceUncounted ==
    p' = [p EXCEPT !.pc = IF LastPc THEN 0 ELSE p.pc + 1,
                   !.active = ~(LastPc /\ p.iters = 1)]

Advance ==
    p' = [p EXCEPT !.pc = IF LastPc THEN 0 ELSE p.pc + 1,
                   !.iters = IF LastPc THEN p.iters - 1 ELSE p.iters,
                   !.active = ~(LastPc /\ p.iters = 1)]

\* Fault: the pc stage does not wait for the stages behind it.
PcStageUnstalled(next) ==
    \/ p.iters > 0 /\ Advance
    \/ p.iters = 0 /\ UNCHANGED p

PcStage(next) ==
    \/ Propagate(next) /\ p.iters > 0 /\ Advance
    \/ ~(Propagate(next) /\ p.iters > 0) /\ UNCHANGED p

InsnStage(next) ==
    \/ Propagate(next) /\ i' = [pc |-> p.pc, valid |-> p.iters > 0]
    \/ ~Propagate(next) /\ UNCHANGED i

OutStage(next) ==
    \/ /\ Propagate(next)
       /\ o' = [pc |-> i.pc, valid |-> i.valid, buffered |-> Forwarded,
                insn |-> IF Forwarded THEN Modify[OutInsn] ELSE Zero]
    \/ /\ ~Propagate(next)
       /\ o.valid /\ ~o.buffered
       /\ o' = [o EXCEPT !.insn = rd_data, !.buffered = TRUE]
    \/ /\ ~Propagate(next)
       /\ ~(o.valid /\ ~o.buffered)
       /\ UNCHANGED o

(***************************************************************************)
(* The memory's two ports.  While the pc stage is active, port a writes    *)
(* back the word the consumer takes and port b reads for the insn stage;   *)
(* otherwise both ports are addressed by the host's address register.      *)
(***************************************************************************)
\* Fault: the write-back ignores the buffered word.
WriteBackUnbuffered(next) ==
    IF next /\ o.valid THEN [imem EXCEPT ![o.pc] = Modify[rd_data]] ELSE imem

WriteBack(next) ==
    IF next /\ o.valid THEN [imem EXCEPT ![o.pc] = Modify[OutInsn]] ELSE imem

Memory(next) ==
    /\ imem' = IF p.active THEN WriteBack(next) ELSE imem
    /\ rd_data' = imem[IF p.active THEN i.pc ELSE ildst_addr]

Pipeline(next) == InsnStage(next) /\ OutStage(next)

-----------------------------------------------------------------------------
(* One clock edge, by the host event it coincides with. *)

Tick(next) ==
    /\ PcStage(next) /\ Pipeline(next) /\ Memory(next)
    /\ UNCHANGED <<insn_rd, ildst_addr>>

\* The host stores a word.  While a run is active the strobe changes nothing.
HostStore(next, word) ==
    /\ ~p.active
    /\ PcStage(next) /\ Pipeline(next)
    /\ imem' = [imem EXCEPT ![ildst_addr] = word]
    /\ rd_data' = imem[ildst_addr]
    /\ UNCHANGED <<insn_rd, ildst_addr>>

\* The host latches whatever port b read last.
HostReadBack(next) ==
    /\ PcStage(next) /\ Pipeline(next) /\ Memory(next)
    /\ insn_rd' = rd_data
    /\ UNCHANGED ildst_addr

\* The host writes the address register.
HostAddress(next, addr) ==
    /\ PcStage(next) /\ Pipeline(next) /\ Memory(next)
    /\ ildst_addr' = addr
    /\ UNCHANGED insn_rd

\* Fault: a start after a halt goes on where the halt fell.
HostStartKeepsPc(next, iters, depth) ==
    /\ ~p.active
    /\ p' = [p EXCEPT !.iters = iters % IterMod, !.depth = depth, !.active = TRUE]
    /\ Pipeline(next) /\ Memory(next)
    /\ UNCHANGED <<insn_rd, ildst_addr>>

\* The host starts a run.  While one is active the strobe changes nothing.
HostStart(next, iters, depth) ==
    /\ ~p.active
    /\ p' = [pc |-> 0, iters |-> iters % IterMod, depth |-> depth, active |-> TRUE]
    /\ Pipeline(next) /\ Memory(next)
    /\ UNCHANGED <<insn_rd, ildst_addr>>

\* A halt stops the pc stage only; the two stages behind it keep their words.
HostHalt(next) ==
    /\ p' = [p EXCEPT !.iters = 0, !.active = FALSE]
    /\ Pipeline(next) /\ Memory(next)
    /\ UNCHANGED <<insn_rd, ildst_addr>>

\* A clock edge that neither starts nor ends a run.
Run(next) ==
    \/ Tick(next)
    \/ \E word \in Insn : HostStore(next, word)
    \/ HostReadBack(next)
    \/ \E addr \in Pc : HostAddress(next, addr)

Next ==
    \E next \in BOOLEAN :
        \/ Run(next)
        \/ \E iters \in HostIters, depth \in Pc : HostStart(next, iters, depth)
        \/ HostHalt(next)

Spec == Init /\ [][Next]_vars

=============================================================================
