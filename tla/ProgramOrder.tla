---------------------------- MODULE ProgramOrder ----------------------------
(***************************************************************************)
(* What a channel's sequencer promises, without its pipeline.  A run of    *)
(* depth d and n iterations delivers n * (d + 1) words, at the addresses   *)
(* 0, 1, .., d, 0, 1, ..; each is the word the program holds there at that *)
(* moment, and is replaced by its modified form as it is delivered.        *)
(* A halt ends the run; at most InFlight words fetched before a halt or    *)
(* before a new start may still be delivered ahead of the next run, and of *)
(* those only the order is promised.                                       *)
(***************************************************************************)
EXTENDS Naturals

CONSTANTS MaxPc, Insn, Modify, Iterations

Pc == 0 .. MaxPc

InFlight == 2

VARIABLES
    prog,        \* the program, as the deliveries so far have left it
    pos,         \* address of the run's next word
    depth,       \* last address of the run
    remaining,   \* words the run has still to deliver
    stale,       \* words fetched by an earlier run, not yet delivered
    taken        \* the last word delivered, and its address

vars == <<prog, pos, depth, remaining, stale, taken>>

Init ==
    /\ prog \in [Pc -> Insn]
    /\ pos = 0 /\ depth = 0 /\ remaining = 0 /\ stale = 0
    /\ taken \in Pc \X Insn

\* The word delivered next: the run's, or any word left over from before.
Head(a, word) ==
    \/ stale = 0 /\ remaining > 0 /\ a = pos /\ word = prog[pos]
    \/ stale > 0 /\ a \in Pc /\ word \in Insn

Take(a, word) ==
    /\ Head(a, word)
    /\ taken' = <<a, word>>

Deliver ==
    /\ \E a \in Pc, word \in Insn :
          Take(a, word) /\ prog' = [prog EXCEPT ![a] = Modify[word]]
    /\ \/ /\ stale = 0
          /\ remaining' = remaining - 1
          /\ pos' = IF pos < depth THEN pos + 1 ELSE 0
          /\ UNCHANGED stale
       \/ /\ stale > 0
          /\ stale' = stale - 1
          /\ UNCHANGED <<pos, remaining>>
    /\ UNCHANGED depth

\* What is left in flight when a run ends early or the next one starts.
Leave == stale' \in {n \in 0 .. InFlight : n <= stale + remaining}

\* A halt may fall into the clock of a delivery.
Halt ==
    /\ remaining' = 0 /\ pos' \in Pc
    /\ Leave
    /\ \/ UNCHANGED <<prog, taken>>
       \/ \E a \in Pc, word \in Insn :
             Take(a, word) /\ prog' = [prog EXCEPT ![a] = Modify[word]]
    /\ UNCHANGED depth

\* A run starts once the earlier one is fetched, with the program as stored.
Start ==
    /\ remaining <= InFlight
    /\ \E n \in Iterations, d \in Pc : remaining' = n * (d + 1) /\ depth' = d
    /\ pos' = 0 /\ prog' \in [Pc -> Insn]
    /\ Leave
    /\ \/ UNCHANGED taken
       \/ \E a \in Pc, word \in Insn : Take(a, word)

Next == Deliver \/ Halt \/ Start

Spec == Init /\ [][Next]_vars

=============================================================================
