-------------------------- MODULE SequencerObserved --------------------------
(***************************************************************************)
(* The sequencer with an observer.  The observer keeps what the channel is *)
(* expected to deliver (prog), which of the words in flight belong to an   *)
(* earlier run (stale), and the last word delivered (taken).  It never     *)
(* restricts the sequencer.  SoloHost describes the host of a single       *)
(* channel; SharedHost the host that also loads other channels through the *)
(* same address register, as asm/squish.py does.                           *)
(***************************************************************************)
EXTENDS SerialSequencer

VARIABLES prog, stale, taken

allvars == <<vars, prog, stale, taken>>

Occupied(valid) == IF valid THEN 1 ELSE 0
Flight == Occupied(i.valid) + Occupied(o.valid)
Live == Flight - stale

Busy == p.active \/ Flight > 0

ObservedInit ==
    /\ Init
    /\ prog = imem
    /\ stale = 0
    /\ taken = <<0, Zero>>

-----------------------------------------------------------------------------
(* What the observer does in a clock, by what the clock did to the run. *)

Delivered(next) == next /\ o.valid

Deliver(next) ==
    /\ taken' = IF Delivered(next) THEN <<o.pc, OutInsn>> ELSE taken
    /\ prog' = IF Delivered(next) THEN [prog EXCEPT ![o.pc] = Modify[OutInsn]] ELSE prog

ObserveRun(next) ==
    /\ Deliver(next)
    /\ stale' = IF Delivered(next) /\ stale > 0 THEN stale - 1 ELSE stale

\* The new run's program is the memory as it stands; what is in flight is old.
ObserveStart(next) ==
    /\ taken' = IF Delivered(next) THEN <<o.pc, OutInsn>> ELSE taken
    /\ prog' = imem'
    /\ stale' = Occupied(i'.valid) + Occupied(o'.valid)

ObserveHalt(next) ==
    /\ Deliver(next)
    /\ stale' = Occupied(i'.valid) + Occupied(o'.valid)

ObservedNext ==
    \E next \in BOOLEAN :
        \/ Run(next) /\ ObserveRun(next)
        \/ /\ \E iters \in HostIters, depth \in Pc : HostStart(next, iters, depth)
           /\ ObserveStart(next)
        \/ HostHalt(next) /\ ObserveHalt(next)

-----------------------------------------------------------------------------
(* Hosts. *)

\* A channel's program is stored only while the channel is idle.
StoresWhenIdle == Busy /\ ~p.active => imem' = imem

\* The address register holds the program's last address when its run starts.
ParkedAtStart == ~p.active /\ p'.active => ildst_addr = p'.depth

\* A register write takes a UART frame: long after a start, when the pipeline
\* has filled and waits for the core.
Paced == Busy /\ ildst_addr' # ildst_addr => UNCHANGED <<p, i, o>>

\* The host that loads other channels through the same address register.
SharedHost == StoresWhenIdle /\ ParkedAtStart /\ Paced

\* The host of one channel: the address register rests until the run drains.
SoloHost == StoresWhenIdle /\ ParkedAtStart /\ (Busy => ildst_addr' = ildst_addr)

AnyHostSpec == ObservedInit /\ [][ObservedNext]_allvars

SharedNext == ObservedNext /\ SharedHost
SharedSpec == ObservedInit /\ [][SharedNext]_allvars

\* The consumer takes a word again and again: dc_core's holds are finite.
Consumes == WF_allvars(Tick(TRUE) /\ ObserveRun(TRUE))

SoloNext == ObservedNext /\ SoloHost
SoloSpec == ObservedInit /\ [][SoloNext]_allvars /\ Consumes

-----------------------------------------------------------------------------
(* Properties. *)

\* Every register, and the observer's variables, hold values of their types.
ObserverTypeOK ==
    /\ TypeOK
    /\ prog \in [Pc -> Insn]
    /\ stale \in 0 .. Flight
    /\ taken \in Pc \X Insn

Successor(pc) == IF pc < p.depth THEN pc + 1 ELSE 0

\* The words of a run in flight are at consecutive addresses of the run, and
\* the pc stage is one past the youngest of them: no stall, halt or restart
\* makes serial_sequencer.sv's pipeline skip or repeat an address.
ConsecutivePcs ==
    /\ Live = 2 => i.pc = Successor(o.pc)
    /\ Live > 0 /\ i.valid => p.pc = Successor(i.pc)
    /\ Live > 0 /\ ~i.valid => p.pc = Successor(o.pc)
    /\ Live > 0 \/ p.iters > 0 => p.pc <= p.depth
    /\ Live > 0 /\ p.iters = 0 => p.pc = 0

\* The word offered to the core is the one the program holds at its address,
\* with every modification made by earlier deliveries, however the core stalls
\* (serial_sequencer_tb.sv:168 asserts this of w_insn).
DeliversProgram == o.valid /\ stale = 0 => OutInsn = prog[o.pc]

\* While a run is being fetched the memory holds the program as modified so
\* far: no write-back comes too late for the fetch that follows it.
WriteBackCurrent == p.active => imem = prog

\* Every run that is started is fetched to its end, while the core consumes.
RunEnds == p.active ~> ~p.active

\* Address and number of the present run's words that are still to come.
HeadPc == IF Live = 2 \/ (Live = 1 /\ ~i.valid) THEN o.pc
          ELSE IF Live = 1 THEN i.pc ELSE p.pc

ToFetch == IF p.iters = 0 THEN 0 ELSE p.iters * (p.depth + 1) - p.pc

Promise == INSTANCE ProgramOrder WITH
    Iterations <- {n % IterMod : n \in HostIters},
    pos <- HeadPc,
    depth <- p.depth,
    remaining <- Live + ToFetch

\* The sequencer with its read-ahead, forwarding and buffering delivers what
\* one without a pipeline would: a run of n iterations of a program of d + 1
\* words delivers n * (d + 1) words, in order, each as modified so far.
ImplementsOrder == Promise!Spec

-----------------------------------------------------------------------------
(* Inductive invariants. *)

\* For any host: a run with iterations left is active.
OrderInv ==
    /\ ObserverTypeOK
    /\ p.iters > 0 => p.active
    /\ ConsecutivePcs

\* For the host of one channel: the last word of a run is read at the host's
\* address, because the fetch has ended by then.
ContentInv ==
    /\ OrderInv
    /\ DeliversProgram
    /\ p.active \/ (i.valid /\ Live > 0) => imem = prog
    /\ p.active => ildst_addr = p.depth
    /\ ~p.active /\ i.valid /\ Live > 0 => ildst_addr = i.pc
=============================================================================
