------------------------------- MODULE DcSteps -------------------------------
(***************************************************************************)
(* The steps an instruction stands for (the golden sequence of             *)
(* rtl/tb/dc_tb.sv), as sequences.                                         *)
(***************************************************************************)
EXTENDS DcDecode, SequencesExt

\* The n-th step of an instruction counts its iterations down.
Steps(a, insn) ==
    [n \in 1 .. insn.iters + 1 |->
        [addr |-> a, iter |-> insn.iters - (n - 1),
         spi_din |-> IF insn.idle THEN 0
                     ELSE (insn.spi_din + (n - 1) * insn.dspi_din) % DacMod,
         strb_ldac |-> insn.strb_ldac /\ ~insn.idle,
         hold_cycles |-> insn.hold_cycles,
         arm |-> insn.arm /\ n = 1, idle |-> insn.idle]]

Merge(step, next) ==
    [step EXCEPT !.hold_cycles = (@ + next.hold_cycles) % CycleMod]

AddStep(steps, next) ==
    IF steps # <<>> /\ Last(steps).idle /\ next.idle
    THEN Append(Front(steps), Merge(Last(steps), next))
    ELSE Append(steps, next)

Extend(steps, more) == FoldLeft(AddStep, steps, more)
=============================================================================
