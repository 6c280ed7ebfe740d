---------------------------- MODULE RegisterFile ----------------------------
(***************************************************************************)
(* What the register file promises the host: the commands take effect one  *)
(* at a time, whole and in the order they were sent, and the answer to a   *)
(* read is the word its register held at one moment.                       *)
(***************************************************************************)
EXTENDS Naturals, Sequences

CONSTANTS
    NumWrite,   \* registers 0 .. NumWrite - 1 are the host's
    NumRead,    \* the registers behind them show the state of the channels
    Value,      \* words the channels show
    Word

VARIABLES
    regs,      \* the registers
    pending,   \* commands that have not taken effect
    reply,     \* the answer on its way to the host, as a sequence of 0 or 1 words
    answer     \* the last answer the host has

vars == <<regs, pending, reply, answer>>

Reg == 0 .. NumWrite + NumRead - 1
StatusReg == NumWrite .. NumWrite + NumRead - 1

Init ==
    /\ regs \in [Reg -> Word]
    /\ pending = <<>> /\ reply = <<>>
    /\ answer \in Word

\* The status registers may change in any step, the others become kept.
Registers(kept) ==
    \E status \in [StatusReg -> Value] :
        regs' = [a \in Reg |-> IF a \in StatusReg THEN status[a] ELSE kept[a]]

Command == [read : BOOLEAN, addr : Reg, word : Word]

\* A command joins the others, unless an answer is on its way.
Issue ==
    /\ reply = <<>>
    /\ Len(pending') = Len(pending) + 1
    /\ SubSeq(pending', 1, Len(pending)) = pending
    /\ pending'[Len(pending')] \in Command
    /\ UNCHANGED <<regs, reply, answer>>

Write ==
    /\ pending # <<>> /\ ~Head(pending).read
    /\ pending' = Tail(pending)
    /\ Registers([regs EXCEPT ![Head(pending).addr] = Head(pending).word])
    /\ UNCHANGED <<reply, answer>>

Read ==
    /\ pending # <<>> /\ Head(pending).read
    /\ pending' = Tail(pending)
    /\ reply' = <<regs[Head(pending).addr]>>
    /\ Registers(regs)
    /\ UNCHANGED answer

Deliver ==
    /\ reply # <<>>
    /\ answer' = Head(reply)
    /\ reply' = <<>>
    /\ Registers(regs)
    /\ UNCHANGED pending

Status ==
    /\ Registers(regs)
    /\ UNCHANGED <<pending, reply, answer>>

Next ==
    \/ Issue \/ Write \/ Read \/ Deliver \/ Status

\* Every command takes effect and every answer arrives.
Spec == Init /\ [][Next]_vars /\ WF_vars(Write \/ Read) /\ WF_vars(Deliver)

=============================================================================
