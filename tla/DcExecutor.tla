----------------------------- MODULE DcExecutor -----------------------------
(***************************************************************************)
(* What a channel's core promises, without its pipeline: every instruction *)
(* it takes is unrolled into steps, and the steps are executed once each,  *)
(* in program order, an armed step only with a start pulse.  Waiting steps *)
(* that follow one another are executed as one, armed as the first is.     *)
(***************************************************************************)
EXTENDS DcSteps

CONSTANTS Insns, Addr, None

VARIABLES
    start,     \* the start line
    pending,   \* steps taken and not yet executed, oldest first
    current    \* the step being held, None between steps

vars == <<start, pending, current>>

Init == start = FALSE /\ pending = <<>> /\ current = None

\* An instruction may be taken in the clock that executes a step.
Intake == {<<>>} \union {Steps(a, insn) : a \in Addr, insn \in Insns}

Execute ==
    /\ pending # <<>>
    /\ Head(pending).arm => start
    /\ current' = Head(pending)
    /\ \E new \in Intake : pending' = Extend(Tail(pending), new)

\* The step goes on, or is over and nothing follows at once.
Wait ==
    /\ current' \in {current, None}
    /\ \E new \in Intake : pending' = Extend(pending, new)

Next == (Execute \/ Wait) /\ start' \in BOOLEAN

Spec == Init /\ [][Next]_vars
=============================================================================
