------------------------------ MODULE DcDecode ------------------------------
(***************************************************************************)
(* Instruction words and their decoding, rtl/src/dc_decode.sv.  The SPI    *)
(* word is its DAC field: the register and address bits above it never     *)
(* change.  All fields keep their width by a modulus.                      *)
(***************************************************************************)
EXTENDS Naturals

CONSTANTS
    DacMod,     \* 2^DC_DAC_WIDTH
    DeltaMod,   \* 2^DC_DELTA_WIDTH
    CycleMod,   \* 2^DC_CYCLE_WIDTH
    IterMax     \* 2^DC_CORE_ITER_WIDTH - 1

ASSUME DecodeAssumption ==
    /\ DeltaMod \in Nat /\ DeltaMod > 1
    /\ DacMod \in Nat /\ DacMod >= DeltaMod
    /\ CycleMod \in Nat /\ CycleMod >= DeltaMod
    /\ IterMax \in Nat

InsnWord == [iters: 0 .. IterMax, spi_din: 0 .. DacMod - 1, delta: 0 .. DeltaMod - 1,
             strb_ldac: BOOLEAN, hold_cycles: 0 .. CycleMod - 1, modify: BOOLEAN,
             arm: BOOLEAN, sticky_arm: BOOLEAN, idle: BOOLEAN]

\* The delta as a DAC step: its sign bit fills the upper bits.
SignExtend(delta) ==
    IF 2 * delta >= DeltaMod THEN DacMod - DeltaMod + delta ELSE delta

\* What the iterate stage loads.
Decode(insn) ==
    [iters |-> insn.iters, spi_din |-> insn.spi_din, dspi_din |-> SignExtend(insn.delta),
     strb_ldac |-> insn.strb_ldac, hold_cycles |-> insn.hold_cycles,
     arm |-> insn.arm \/ insn.sticky_arm, idle |-> insn.idle]

\* What the sequencer writes back: an idle's delta is added without its sign.
Modified(insn) ==
    [insn EXCEPT
        !.arm = FALSE,
        !.hold_cycles = IF insn.modify /\ insn.idle THEN (@ + insn.delta) % CycleMod ELSE @,
        !.spi_din = IF insn.modify /\ ~insn.idle THEN (@ + SignExtend(insn.delta)) % DacMod ELSE @]
=============================================================================
