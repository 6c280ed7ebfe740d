--------------------------- MODULE SequencerProofs ---------------------------
(***************************************************************************)
(* The sequencer keeps its types and the order of its program whatever the *)
(* host does, and delivers the program's content while nothing but its own *)
(* host uses the address register: for every memory size, word, iteration  *)
(* width and modification.                                                 *)
(***************************************************************************)
EXTENDS SequencerObserved, TLAPS

\* A clock that is no start and no halt keeps the pc stage's types.
LEMMA PcAdvances ==
    ASSUME TypeOK, NEW next \in BOOLEAN, PcStage(next)
    PROVE  p' \in [pc: Pc, iters: 0 .. IterMod - 1, depth: Pc, active: BOOLEAN]
  <1>1. CASE Propagate(next) /\ p.iters > 0 /\ Advance
    <2>1. /\ p.pc \in 0 .. MaxPc /\ p.depth \in 0 .. MaxPc
          /\ p.iters \in 0 .. IterMod - 1
      BY DEF TypeOK, Pc
    <2>2. /\ (IF LastPc THEN 0 ELSE p.pc + 1) \in Pc
          /\ (IF LastPc THEN p.iters - 1 ELSE p.iters) \in 0 .. IterMod - 1
      BY <1>1, <2>1, MaxPcAssumption, IterModAssumption DEF LastPc, Pc
    <2>3. CASE LastPc /\ p.iters = 1
      BY <1>1, <2>2, <2>3 DEF TypeOK, Advance
    <2>4. CASE ~(LastPc /\ p.iters = 1)
      BY <1>1, <2>2, <2>4 DEF TypeOK, Advance
    <2> QED BY <2>3, <2>4
  <1>2. CASE UNCHANGED p
    BY <1>2 DEF TypeOK
  <1> QED BY <1>1, <1>2 DEF PcStage

\* The word offered to the core is an instruction word.
LEMMA OutInsnType ==
    ASSUME TypeOK
    PROVE  OutInsn \in Insn /\ Modify[OutInsn] \in Insn
  BY ModifyAssumption DEF TypeOK, OutInsn

\* The insn and out stages keep their types in every clock.
LEMMA PipelineTypes ==
    ASSUME TypeOK, NEW next \in BOOLEAN, Pipeline(next)
    PROVE  /\ i' \in [pc: Pc, valid: BOOLEAN]
           /\ o' \in [pc: Pc, insn: Insn, buffered: BOOLEAN, valid: BOOLEAN]
  <1>1. CASE Propagate(next)
    <2>1. i' = [pc |-> p.pc, valid |-> p.iters > 0]
      BY <1>1, Zenon DEF Pipeline, InsnStage
    <2>2. o' = [pc |-> i.pc, valid |-> i.valid, buffered |-> Forwarded,
                insn |-> IF Forwarded THEN Modify[OutInsn] ELSE Zero]
      BY <1>1, Zenon DEF Pipeline, OutStage
    <2>3. (IF Forwarded THEN Modify[OutInsn] ELSE Zero) \in Insn
      BY OutInsnType, ZeroAssumption
    <2>4. Forwarded \in BOOLEAN
      BY DEF Forwarded
    <2>5. i' \in [pc: Pc, valid: BOOLEAN]
      BY <2>1 DEF TypeOK
    <2>6. o' \in [pc: Pc, insn: Insn, buffered: BOOLEAN, valid: BOOLEAN]
      BY <2>2, <2>3, <2>4 DEF TypeOK
    <2> QED BY <2>5, <2>6
  <1>2. CASE ~Propagate(next)
    <2>1. UNCHANGED i
      BY <1>2, Zenon DEF Pipeline, InsnStage
    <2>2. o' = o \/ o' = [o EXCEPT !.insn = rd_data, !.buffered = TRUE]
      BY <1>2, Zenon DEF Pipeline, OutStage
    <2> QED BY <2>1, <2>2 DEF TypeOK
  <1> QED BY <1>1, <1>2

\* Both memory ports keep the types of the memory and its read register.
LEMMA MemoryTypes ==
    ASSUME TypeOK, NEW next \in BOOLEAN, Memory(next)
    PROVE  imem' \in [Pc -> Insn] /\ rd_data' \in Insn
  BY OutInsnType DEF TypeOK, Memory, WriteBack

\* serial_sequencer.sv keeps every register within its type for any host.
LEMMA TypeStep == TypeOK /\ [Next]_vars => TypeOK'
  <1> SUFFICES ASSUME TypeOK, [Next]_vars PROVE TypeOK'
    OBVIOUS
  <1>1. ASSUME NEW next \in BOOLEAN, Tick(next) PROVE TypeOK'
    BY <1>1, PcAdvances, PipelineTypes, MemoryTypes DEF Tick, TypeOK
  <1>2. ASSUME NEW next \in BOOLEAN, NEW word \in Insn, HostStore(next, word)
        PROVE  TypeOK'
    BY <1>2, PcAdvances, PipelineTypes DEF HostStore, TypeOK
  <1>3. ASSUME NEW next \in BOOLEAN, HostReadBack(next) PROVE TypeOK'
    BY <1>3, PcAdvances, PipelineTypes, MemoryTypes DEF HostReadBack, TypeOK
  <1>4. ASSUME NEW next \in BOOLEAN, NEW addr \in Pc, HostAddress(next, addr)
        PROVE  TypeOK'
    BY <1>4, PcAdvances, PipelineTypes, MemoryTypes DEF HostAddress, TypeOK
  <1>5. ASSUME NEW next \in BOOLEAN, NEW iters \in HostIters, NEW depth \in Pc,
               HostStart(next, iters, depth)
        PROVE  TypeOK'
    <2>1. iters % IterMod \in 0 .. IterMod - 1 /\ 0 \in Pc
      BY MaxPcAssumption, IterModAssumption, HostItersAssumption DEF Pc
    <2> QED BY <1>5, <2>1, PipelineTypes, MemoryTypes DEF HostStart, TypeOK
  <1>6. ASSUME NEW next \in BOOLEAN, HostHalt(next) PROVE TypeOK'
    <2>1. p' = [p EXCEPT !.iters = 0, !.active = FALSE]
      BY <1>6, Zenon DEF HostHalt
    <2>2. p' \in [pc: Pc, iters: 0 .. IterMod - 1, depth: Pc, active: BOOLEAN]
      <3>1. 0 \in 0 .. IterMod - 1
        BY IterModAssumption
      <3> QED BY <2>1, <3>1 DEF TypeOK
    <2> QED BY <1>6, <2>2, PipelineTypes, MemoryTypes DEF HostHalt, TypeOK
  <1>7. CASE UNCHANGED vars
    BY <1>7 DEF vars, TypeOK
  <1> QED BY <1>1, <1>2, <1>3, <1>4, <1>5, <1>6, <1>7 DEF Next, Run

\* The registers of the sequencer keep their types whatever the host does.
THEOREM SequencerTypeCorrect == Spec => []TypeOK
  <1>1. Init => TypeOK
    BY MaxPcAssumption, ZeroAssumption, IterModAssumption DEF Init, TypeOK, Pc
  <1> QED BY <1>1, TypeStep, PTL DEF Spec

-----------------------------------------------------------------------------
(* Where the words go in one clock, register by register. *)

\* What the two stages behind the pc stage hold after a clock.
LEMMA StagesMove ==
    ASSUME TypeOK, NEW next \in BOOLEAN, Pipeline(next)
    PROVE  /\ Propagate(next) => /\ i'.pc = p.pc /\ (i'.valid <=> p.iters > 0)
                                 /\ o'.pc = i.pc /\ (o'.valid <=> i.valid)
           /\ ~Propagate(next) => /\ i' = i
                                  /\ o'.pc = o.pc /\ (o'.valid <=> o.valid)
  <1>1. CASE Propagate(next)
    <2>1. i' = [pc |-> p.pc, valid |-> p.iters > 0]
      BY <1>1, Zenon DEF Pipeline, InsnStage
    <2>2. o' = [pc |-> i.pc, valid |-> i.valid, buffered |-> Forwarded,
                insn |-> IF Forwarded THEN Modify[OutInsn] ELSE Zero]
      BY <1>1, Zenon DEF Pipeline, OutStage
    <2> QED BY <1>1, <2>1, <2>2
  <1>2. CASE ~Propagate(next)
    <2>1. UNCHANGED i
      BY <1>2, Zenon DEF Pipeline, InsnStage
    <2>2. o' = o \/ o' = [o EXCEPT !.insn = rd_data, !.buffered = TRUE]
      BY <1>2, Zenon DEF Pipeline, OutStage
    <2> QED BY <1>2, <2>1, <2>2 DEF TypeOK
  <1> QED BY <1>1, <1>2

\* The pc stage steps to the successor address, or stays.
LEMMA PcMoves ==
    ASSUME TypeOK, NEW next \in BOOLEAN, PcStage(next)
    PROVE  /\ Propagate(next) /\ p.iters > 0 =>
                /\ p'.pc = IF LastPc THEN 0 ELSE p.pc + 1
                /\ p'.iters = IF LastPc THEN p.iters - 1 ELSE p.iters
                /\ p'.depth = p.depth
                /\ p'.active <=> ~(LastPc /\ p.iters = 1)
           /\ ~(Propagate(next) /\ p.iters > 0) => p' = p
  <1>1. CASE Propagate(next) /\ p.iters > 0
    <2>1. Advance
      BY <1>1, Zenon DEF PcStage
    <2> QED BY <1>1, <2>1 DEF Advance, TypeOK
  <1>2. CASE ~(Propagate(next) /\ p.iters > 0)
    BY <1>2, Zenon DEF PcStage
  <1> QED BY <1>1, <1>2

\* What the actions gathered in Run have in common.
LEMMA RunParts ==
    ASSUME NEW next \in BOOLEAN, Run(next)
    PROVE  PcStage(next) /\ Pipeline(next)
  BY DEF Run, Tick, HostStore, HostReadBack, HostAddress

\* A clock that neither starts nor ends a run keeps the run in order.
LEMMA RunKeepsOrder ==
    ASSUME OrderInv, TypeOK', NEW next \in BOOLEAN, Run(next), ObserveRun(next)
    PROVE  stale' \in 0 .. Flight' /\ (p'.iters > 0 => p'.active) /\ ConsecutivePcs'
  <1>1. TypeOK /\ stale \in 0 .. Flight
    BY DEF OrderInv, ObserverTypeOK
  <1>2. /\ p.pc \in Nat /\ p.depth \in Nat /\ p.iters \in Nat
        /\ i.pc \in Nat /\ o.pc \in Nat
        /\ p'.pc \in Nat /\ p'.depth \in Nat /\ p'.iters \in Nat
    BY <1>1, MaxPcAssumption, IterModAssumption DEF TypeOK, Pc
  <1>3. stale' = IF next /\ o.valid /\ stale > 0 THEN stale - 1 ELSE stale
    BY DEF ObserveRun, Delivered
  <1>4. /\ p.iters > 0 => p.active
        /\ ConsecutivePcs
    BY DEF OrderInv
  <1>5. CASE Propagate(next)
    <2>1. /\ i'.pc = p.pc /\ (i'.valid <=> p.iters > 0)
          /\ o'.pc = i.pc /\ (o'.valid <=> i.valid)
      BY <1>1, <1>5, RunParts, StagesMove
    <2>2. CASE p.iters > 0
      <3>1. /\ p'.pc = IF LastPc THEN 0 ELSE p.pc + 1
            /\ p'.iters = IF LastPc THEN p.iters - 1 ELSE p.iters
            /\ p'.depth = p.depth
            /\ p'.active <=> ~(LastPc /\ p.iters = 1)
        BY <1>1, <1>5, <2>2, RunParts, PcMoves
      <3> QED
        BY <1>1, <1>2, <1>3, <1>4, <1>5, <2>1, <2>2, <3>1
        DEF ConsecutivePcs, Successor, Live, Flight, Occupied, Propagate, LastPc
    <2>3. CASE ~(p.iters > 0)
      <3>1. p' = p
        BY <1>1, <2>3, RunParts, PcMoves
      <3> QED
        BY <1>1, <1>2, <1>3, <1>4, <1>5, <2>1, <2>3, <3>1
        DEF ConsecutivePcs, Successor, Live, Flight, Occupied, Propagate
    <2> QED BY <2>2, <2>3
  <1>6. CASE ~Propagate(next)
    <2>1. i' = i /\ o'.pc = o.pc /\ (o'.valid <=> o.valid)
      BY <1>1, <1>6, RunParts, StagesMove
    <2>2. p' = p
      BY <1>1, <1>6, RunParts, PcMoves
    <2>3. ~(next /\ o.valid)
      BY <1>6 DEF Propagate
    <2>4. stale' = stale
      BY <1>3, <2>3
    <2> QED
      BY <1>1, <1>2, <1>4, <2>1, <2>2, <2>4
      DEF ConsecutivePcs, Successor, Live, Flight, Occupied
  <1> QED BY <1>5, <1>6

\* The observer's program and last word keep their types.
LEMMA ObserverTypes ==
    ASSUME ObserverTypeOK, TypeOK', NEW next \in BOOLEAN,
           \/ Deliver(next)
           \/ prog' = imem' /\ (taken' = <<o.pc, OutInsn>> \/ taken' = taken)
    PROVE  prog' \in [Pc -> Insn] /\ taken' \in Pc \X Insn
  <1>1. OutInsn \in Insn /\ Modify[OutInsn] \in Insn
    BY OutInsnType DEF ObserverTypeOK
  <1>2. o.pc \in Pc /\ imem' \in [Pc -> Insn] /\ prog \in [Pc -> Insn]
        /\ taken \in Pc \X Insn
    BY DEF ObserverTypeOK, TypeOK
  <1>3. taken' = <<o.pc, OutInsn>> \/ taken' = taken
    BY DEF Deliver
  <1>4. prog' = imem' \/ prog' = prog \/ prog' = [prog EXCEPT ![o.pc] = Modify[OutInsn]]
    BY DEF Deliver
  <1> QED BY <1>1, <1>2, <1>3, <1>4

\* What is in flight as a run starts or is halted belongs to an earlier run.
LEMMA EdgeKeepsOrder ==
    ASSUME TypeOK', stale' = Occupied(i'.valid) + Occupied(o'.valid),
           p'.iters > 0 => p'.active /\ p'.pc = 0
    PROVE  stale' \in 0 .. Flight' /\ (p'.iters > 0 => p'.active) /\ ConsecutivePcs'
  <1>1. stale' = Flight' /\ Flight' \in Nat
    BY DEF Flight, Occupied
  <1>2. Live' = 0
    BY <1>1 DEF Live
  <1>3. p'.depth \in Nat
    BY MaxPcAssumption DEF TypeOK, Pc
  <1> QED BY <1>1, <1>2, <1>3 DEF ConsecutivePcs

\* OrderInv is inductive for any host.
LEMMA OrderStep == OrderInv /\ [ObservedNext]_allvars => OrderInv'
  <1> SUFFICES ASSUME OrderInv, [ObservedNext]_allvars PROVE OrderInv'
    OBVIOUS
  <1>1. ObserverTypeOK /\ TypeOK
    BY DEF OrderInv, ObserverTypeOK
  <1>2. TypeOK'
    <2>1. ObservedNext => Next
      BY DEF ObservedNext, Next
    <2>2. allvars' = allvars => vars' = vars
      BY DEF allvars
    <2> QED BY <1>1, <2>1, <2>2, TypeStep
  <1>3. ASSUME NEW next \in BOOLEAN, Run(next), ObserveRun(next)
        PROVE  OrderInv'
    <2>1. prog' \in [Pc -> Insn] /\ taken' \in Pc \X Insn
      BY <1>1, <1>2, <1>3, ObserverTypes DEF ObserveRun
    <2> QED BY <1>2, <1>3, <2>1, RunKeepsOrder DEF OrderInv, ObserverTypeOK
  <1>4. ASSUME NEW next \in BOOLEAN, NEW iters \in HostIters, NEW depth \in Pc,
               HostStart(next, iters, depth), ObserveStart(next)
        PROVE  OrderInv'
    <2>1. prog' \in [Pc -> Insn] /\ taken' \in Pc \X Insn
      BY <1>1, <1>2, <1>4, ObserverTypes DEF ObserveStart
    <2>2. p'.active /\ p'.pc = 0
      BY <1>4 DEF HostStart
    <2>3. stale' \in 0 .. Flight' /\ (p'.iters > 0 => p'.active) /\ ConsecutivePcs'
      BY <1>2, <1>4, <2>2, EdgeKeepsOrder DEF ObserveStart
    <2> QED BY <1>2, <2>1, <2>3 DEF OrderInv, ObserverTypeOK
  <1>5. ASSUME NEW next \in BOOLEAN, HostHalt(next), ObserveHalt(next)
        PROVE  OrderInv'
    <2>1. prog' \in [Pc -> Insn] /\ taken' \in Pc \X Insn
      BY <1>1, <1>2, <1>5, ObserverTypes DEF ObserveHalt
    <2>2. p' = [p EXCEPT !.iters = 0, !.active = FALSE]
      BY <1>5, Zenon DEF HostHalt
    <2>3. p'.iters = 0
      BY <1>1, <2>2 DEF TypeOK
    <2>4. stale' \in 0 .. Flight' /\ (p'.iters > 0 => p'.active) /\ ConsecutivePcs'
      BY <1>2, <1>5, <2>3, EdgeKeepsOrder DEF ObserveHalt
    <2> QED BY <1>2, <2>1, <2>4 DEF OrderInv, ObserverTypeOK
  <1>6. CASE UNCHANGED allvars
    BY <1>2, <1>6 DEF OrderInv, ObserverTypeOK, ConsecutivePcs, Successor, Live, Flight,
       Occupied, allvars, vars
  <1> QED BY <1>3, <1>4, <1>5, <1>6 DEF ObservedNext

\* OrderInv holds after reset.
LEMMA OrderInit == ObservedInit => OrderInv
  <1> SUFFICES ASSUME ObservedInit PROVE OrderInv
    OBVIOUS
  <1>1. TypeOK
    BY MaxPcAssumption, ZeroAssumption, IterModAssumption DEF ObservedInit, Init, TypeOK, Pc
  <1>2. Flight = 0 /\ Live = 0 /\ stale = 0 /\ p.iters = 0
    BY DEF ObservedInit, Init, Flight, Live, Occupied
  <1>3. prog \in [Pc -> Insn] /\ taken \in Pc \X Insn
    BY <1>1, MaxPcAssumption, ZeroAssumption DEF ObservedInit, TypeOK, Pc
  <1> QED BY <1>1, <1>2, <1>3 DEF OrderInv, ObserverTypeOK, ConsecutivePcs

\* The registers and the observer's counts keep their types: no more words are
\* ever left over from an earlier run than the two stages hold.
THEOREM ObserverTypeCorrect == AnyHostSpec => []ObserverTypeOK
  <1>1. OrderInv => ObserverTypeOK
    BY DEF OrderInv
  <1> QED BY OrderInit, OrderStep, <1>1, PTL DEF AnyHostSpec

\* Whatever the host does, a run's words are fetched at consecutive addresses.
THEOREM ConsecutivePcsAnyHost == AnyHostSpec => []ConsecutivePcs
  <1>1. OrderInv => ConsecutivePcs
    BY DEF OrderInv
  <1> QED BY OrderInit, OrderStep, <1>1, PTL DEF AnyHostSpec

-----------------------------------------------------------------------------
(* What the words are. *)

\* A stage step forwards or reads the next word; a stall keeps the word.
LEMMA WordsMove ==
    ASSUME TypeOK, NEW next \in BOOLEAN, Pipeline(next)
    PROVE  /\ Propagate(next) =>
                OutInsn' = IF Forwarded THEN Modify[OutInsn] ELSE rd_data'
           /\ ~Propagate(next) /\ o.valid => OutInsn' = OutInsn
  <1>1. CASE Propagate(next)
    <2>1. o' = [pc |-> i.pc, valid |-> i.valid, buffered |-> Forwarded,
                insn |-> IF Forwarded THEN Modify[OutInsn] ELSE Zero]
      BY <1>1, Zenon DEF Pipeline, OutStage
    <2>2. (o'.buffered <=> Forwarded)
          /\ o'.insn = IF Forwarded THEN Modify[OutInsn] ELSE Zero
      BY <2>1
    <2>3. OutInsn' = IF o'.buffered THEN o'.insn ELSE rd_data'
      BY DEF OutInsn
    <2> QED BY <1>1, <2>2, <2>3
  <1>2. CASE ~Propagate(next) /\ o.valid
    <2>1. CASE o.buffered
      <3>1. o' = o
        BY <1>2, <2>1, Zenon DEF Pipeline, OutStage
      <3> QED BY <1>2, <2>1, <3>1 DEF OutInsn
    <2>2. CASE ~o.buffered
      <3>1. o' = [o EXCEPT !.insn = rd_data, !.buffered = TRUE]
        BY <1>2, <2>2, Zenon DEF Pipeline, OutStage
      <3> QED BY <1>2, <2>2, <3>1 DEF OutInsn, TypeOK
    <2> QED BY <2>1, <2>2
  <1> QED BY <1>1, <1>2

\* In a clock of a run the memory changes only by a store or a write-back.
LEMMA RunMemory ==
    ASSUME NEW next \in BOOLEAN, Run(next)
    PROVE  /\ rd_data' = imem[IF p.active THEN i.pc ELSE ildst_addr]
           /\ p.active => imem' = WriteBack(next)
  <1>1. CASE Memory(next)
    BY <1>1 DEF Memory
  <1>2. CASE \E word \in Insn : HostStore(next, word)
    BY <1>2 DEF HostStore
  <1> QED BY <1>1, <1>2 DEF Run, Tick, HostReadBack, HostAddress

\* A clock of a run keeps the delivered words equal to the program's.
LEMMA RunKeepsContent ==
    ASSUME ContentInv, OrderInv', NEW next \in BOOLEAN, Run(next), ObserveRun(next),
           SoloHost
    PROVE  ContentInv'
  <1>1. /\ TypeOK /\ stale \in 0 .. Flight /\ prog \in [Pc -> Insn]
        /\ ConsecutivePcs /\ (p.iters > 0 => p.active)
    BY DEF ContentInv, OrderInv, ObserverTypeOK
  <1>2. /\ p.pc \in Nat /\ p.depth \in Nat /\ p.iters \in Nat
        /\ i.pc \in Pc /\ o.pc \in Pc
        /\ p.active \in BOOLEAN /\ o.valid \in BOOLEAN /\ i.valid \in BOOLEAN
    BY <1>1, MaxPcAssumption, IterModAssumption DEF TypeOK, Pc
  <1>3. PcStage(next) /\ Pipeline(next)
    BY RunParts
  <1>4. /\ stale' = IF next /\ o.valid /\ stale > 0 THEN stale - 1 ELSE stale
        /\ prog' = IF next /\ o.valid THEN [prog EXCEPT ![o.pc] = Modify[OutInsn]] ELSE prog
    BY DEF ObserveRun, Deliver, Delivered
  <1>5. /\ o.valid /\ stale = 0 => OutInsn = prog[o.pc]
        /\ p.active \/ (i.valid /\ Live > 0) => imem = prog
        /\ p.active => ildst_addr = p.depth
        /\ ~p.active /\ i.valid /\ Live > 0 => ildst_addr = i.pc
    BY DEF ContentInv, DeliversProgram
  <1>6. p'.active => p.active /\ p'.depth = p.depth
    BY <1>1, <1>2, <1>3, PcMoves
  <1>7. (p.active \/ i.valid \/ o.valid) =>
            ildst_addr' = ildst_addr /\ (~p.active => imem' = imem)
    BY DEF SoloHost, StoresWhenIdle, Busy, Flight, Occupied
  <1>8. p.active => imem' = prog'
    BY <1>4, <1>5, RunMemory DEF WriteBack
  <1>9. ASSUME ~Propagate(next)
        PROVE  /\ i' = i /\ o'.pc = o.pc /\ (o'.valid <=> o.valid)
               /\ stale' = stale /\ Live' = Live /\ prog' = prog /\ p' = p
    <2>1. i' = i /\ o'.pc = o.pc /\ (o'.valid <=> o.valid) /\ p' = p
      BY <1>1, <1>3, <1>9, StagesMove, PcMoves
    <2>2. ~(next /\ o.valid)
      BY <1>9 DEF Propagate
    <2>3. stale' = stale /\ prog' = prog
      BY <1>4, <2>2
    <2> QED BY <2>1, <2>3 DEF Live, Flight, Occupied
  <1>10. DeliversProgram'
    <2> SUFFICES ASSUME o'.valid, stale' = 0 PROVE OutInsn' = prog'[o'.pc]
      BY DEF DeliversProgram
    <2>1. CASE Propagate(next)
      <3>1. i.valid /\ o'.pc = i.pc
        BY <1>1, <1>3, <2>1, StagesMove
      <3>2. o.valid => next
        BY <2>1 DEF Propagate
      <3>3. Live > 0
        BY <1>1, <1>4, <3>1 DEF Live, Flight, Occupied
      <3>4. rd_data' = prog[i.pc]
        BY <1>5, <3>1, <3>3, RunMemory
      <3>5. CASE Forwarded
        BY <1>1, <1>2, <1>3, <1>4, <2>1, <3>1, <3>2, <3>5, WordsMove DEF Forwarded
      <3>6. CASE ~Forwarded
        BY <1>1, <1>2, <1>3, <1>4, <2>1, <3>1, <3>2, <3>4, <3>6, WordsMove DEF Forwarded
      <3> QED BY <3>5, <3>6
    <2>2. CASE ~Propagate(next)
      BY <1>1, <1>3, <1>5, <1>9, <2>2, WordsMove
    <2> QED BY <2>1, <2>2
  <1>11. ASSUME ~p'.active, i'.valid, Live' > 0
         PROVE  imem' = prog' /\ ildst_addr' = i'.pc
    <2>1. CASE p.active
      <3>1. Propagate(next) /\ p.iters > 0
        BY <1>1, <1>3, <1>11, <2>1, PcMoves
      <3>2. LastPc /\ i'.pc = p.pc
        BY <1>1, <1>3, <1>11, <3>1, PcMoves, StagesMove
      <3>3. p.pc = p.depth
        BY <1>1, <1>2, <3>1, <3>2 DEF ConsecutivePcs, LastPc
      <3> QED BY <1>5, <1>7, <1>8, <2>1, <3>2, <3>3
    <2>2. CASE ~p.active
      <3>1. ~(p.iters > 0)
        BY <1>1, <2>2
      <3>2. ~Propagate(next)
        BY <1>1, <1>3, <1>11, <3>1, StagesMove
      <3> QED BY <1>5, <1>7, <1>9, <1>11, <2>2, <3>2
    <2> QED BY <2>1, <2>2
  <1>12. p'.active => ildst_addr' = p'.depth
    BY <1>5, <1>6, <1>7
  <1> QED BY <1>6, <1>8, <1>10, <1>11, <1>12 DEF ContentInv

\* As a run starts or is halted nothing of the present run is in flight.
LEMMA EdgeKeepsContent ==
    ASSUME OrderInv', stale' = Occupied(i'.valid) + Occupied(o'.valid),
           p'.active => imem' = prog' /\ ildst_addr' = p'.depth
    PROVE  ContentInv'
  <1>1. Live' = 0 /\ (stale' = 0 => ~o'.valid)
    BY DEF Live, Flight, Occupied
  <1> QED BY <1>1 DEF ContentInv, DeliversProgram

\* ContentInv is inductive for the host of one channel.
LEMMA ContentStep == ContentInv /\ [SoloNext]_allvars => ContentInv'
  <1> SUFFICES ASSUME ContentInv, [SoloNext]_allvars PROVE ContentInv'
    OBVIOUS
  <1>1. OrderInv /\ TypeOK
    BY DEF ContentInv, OrderInv, ObserverTypeOK
  <1>2. OrderInv'
    BY <1>1, OrderStep DEF SoloNext
  <1>3. ASSUME NEW next \in BOOLEAN, Run(next), ObserveRun(next), SoloHost
        PROVE  ContentInv'
    BY <1>2, <1>3, RunKeepsContent
  <1>4. ASSUME NEW next \in BOOLEAN, NEW iters \in HostIters, NEW depth \in Pc,
               HostStart(next, iters, depth), ObserveStart(next), SoloHost
        PROVE  ContentInv'
    <2>1. ~p.active /\ p'.active /\ UNCHANGED ildst_addr
      BY <1>4 DEF HostStart
    <2>2. ildst_addr' = p'.depth
      BY <1>4, <2>1 DEF SoloHost, ParkedAtStart
    <2> QED BY <1>2, <1>4, <2>2, EdgeKeepsContent DEF ObserveStart
  <1>5. ASSUME NEW next \in BOOLEAN, HostHalt(next), ObserveHalt(next)
        PROVE  ContentInv'
    <2>1. p' = [p EXCEPT !.iters = 0, !.active = FALSE]
      BY <1>5, Zenon DEF HostHalt
    <2>2. ~p'.active
      BY <1>1, <2>1 DEF TypeOK
    <2> QED BY <1>2, <1>5, <2>2, EdgeKeepsContent DEF ObserveHalt
  <1>6. CASE UNCHANGED allvars
    BY <1>2, <1>6 DEF ContentInv, DeliversProgram, OutInsn, Live, Flight, Occupied, allvars, vars
  <1> QED BY <1>3, <1>4, <1>5, <1>6 DEF SoloNext, ObservedNext

\* ContentInv holds after reset.
LEMMA ContentInit == ObservedInit => ContentInv
  BY OrderInit DEF ContentInv, DeliversProgram, ObservedInit, Init

\* The core is offered the word its program holds, with every modification
\* made so far, while the address register stays with the channel.
THEOREM DeliversProgramSoloHost == SoloSpec => []DeliversProgram
  <1>1. ContentInv => DeliversProgram
    BY DEF ContentInv
  <1> QED BY ContentInit, ContentStep, <1>1, PTL DEF SoloSpec

\* No write-back comes too late for a later fetch of the same run.
THEOREM WriteBackCurrentSoloHost == SoloSpec => []WriteBackCurrent
  <1>1. ContentInv => WriteBackCurrent
    BY DEF ContentInv, WriteBackCurrent
  <1> QED BY ContentInit, ContentStep, <1>1, PTL DEF SoloSpec

-----------------------------------------------------------------------------
(* The pipeline implements ProgramOrder. *)

\* One round of a program of d + 1 words is d + 1 words less to fetch.
LEMMA OneRound ==
    ASSUME NEW n \in Nat \ {0}, NEW d \in Nat
    PROVE  n * (d + 1) = (n - 1) * (d + 1) + (d + 1) /\ (n - 1) * (d + 1) \in Nat
  <1> DEFINE m == n - 1
  <1>1. m \in Nat /\ n = m + 1
    OBVIOUS
  <1>2. (m + 1) * (d + 1) = m * (d + 1) + (d + 1) /\ m * (d + 1) \in Nat
    BY <1>1
  <1> QED BY <1>1, <1>2

\* A run has words to fetch exactly while it has iterations left.
LEMMA FetchLeft ==
    ASSUME OrderInv
    PROVE  ToFetch \in Nat /\ (ToFetch > 0 <=> p.iters > 0)
  <1>1. TypeOK /\ ConsecutivePcs
    BY DEF OrderInv, ObserverTypeOK
  <1>2. p.pc \in Nat /\ p.depth \in Nat /\ p.iters \in Nat
    BY <1>1, MaxPcAssumption, IterModAssumption DEF TypeOK, Pc
  <1>3. CASE p.iters = 0
    BY <1>3 DEF ToFetch
  <1>4. CASE p.iters > 0
    <2>1. p.pc <= p.depth
      BY <1>1, <1>4 DEF ConsecutivePcs
    <2>2. p.iters * (p.depth + 1) = (p.iters - 1) * (p.depth + 1) + (p.depth + 1)
          /\ (p.iters - 1) * (p.depth + 1) \in Nat
      BY <1>2, <1>4, OneRound
    <2> DEFINE rest == (p.iters - 1) * (p.depth + 1)
               all  == p.iters * (p.depth + 1)
    <2>3. ToFetch = all - p.pc
      BY <1>4 DEF ToFetch
    <2>4. all = rest + (p.depth + 1) /\ rest \in Nat
      BY <2>2
    <2> HIDE DEF rest, all
    <2> QED BY <1>2, <1>4, <2>1, <2>3, <2>4
  <1> QED BY <1>2, <1>3, <1>4

\* A step of the pc stage fetches one word of the run; otherwise none is.
LEMMA FetchMoves ==
    ASSUME OrderInv, NEW next \in BOOLEAN, PcStage(next)
    PROVE  /\ Propagate(next) /\ p.iters > 0 => ToFetch' = ToFetch - 1
           /\ ~(Propagate(next) /\ p.iters > 0) => ToFetch' = ToFetch
  <1>1. TypeOK /\ ConsecutivePcs
    BY DEF OrderInv, ObserverTypeOK
  <1>2. p.pc \in Nat /\ p.depth \in Nat /\ p.iters \in Nat
    BY <1>1, MaxPcAssumption, IterModAssumption DEF TypeOK, Pc
  <1>3. CASE Propagate(next) /\ p.iters > 0
    <2>1. /\ p'.pc = IF LastPc THEN 0 ELSE p.pc + 1
          /\ p'.iters = IF LastPc THEN p.iters - 1 ELSE p.iters
          /\ p'.depth = p.depth
      BY <1>1, <1>3, PcMoves
    <2>2. p.pc <= p.depth
      BY <1>1, <1>3 DEF ConsecutivePcs
    <2>3. p.iters * (p.depth + 1) = (p.iters - 1) * (p.depth + 1) + (p.depth + 1)
          /\ (p.iters - 1) * (p.depth + 1) \in Nat
      BY <1>2, <1>3, OneRound
    <2> DEFINE rest == (p.iters - 1) * (p.depth + 1)
               all  == p.iters * (p.depth + 1)
    <2>4. ToFetch = rest + (p.depth + 1) - p.pc /\ rest \in Nat
      <3>1. ToFetch = all - p.pc
        BY <1>3 DEF ToFetch
      <3>2. all = rest + (p.depth + 1) /\ rest \in Nat
        BY <2>3
      <3> HIDE DEF rest, all
      <3> QED BY <1>2, <3>1, <3>2
    <2>5. CASE LastPc
      <3>1. p.pc = p.depth /\ p'.pc = 0 /\ p'.iters = p.iters - 1
        BY <1>2, <2>1, <2>2, <2>5 DEF LastPc
      <3>2. CASE p.iters = 1
        <4>1. rest = 0 /\ ToFetch' = 0
          BY <1>2, <2>1, <3>1, <3>2 DEF ToFetch
        <4> HIDE DEF rest
        <4> QED BY <1>2, <1>3, <2>4, <3>1, <4>1
      <3>3. CASE p.iters # 1
        <4>1. ToFetch' = rest - 0
          BY <1>2, <1>3, <2>1, <3>1, <3>3 DEF ToFetch
        <4> HIDE DEF rest
        <4> QED BY <1>2, <1>3, <2>4, <3>1, <4>1
      <3> QED BY <3>2, <3>3
    <2>6. CASE ~LastPc
      <3>1. ToFetch' = rest + (p.depth + 1) - (p.pc + 1)
        BY <1>2, <1>3, <2>1, <2>3, <2>6 DEF ToFetch
      <3> HIDE DEF rest
      <3> QED BY <1>2, <1>3, <2>4, <3>1
    <2> QED BY <2>5, <2>6
  <1>4. CASE ~(Propagate(next) /\ p.iters > 0)
    <2>1. p' = p
      BY <1>1, <1>4, PcMoves
    <2> QED BY <1>4, <2>1 DEF ToFetch
  <1> QED BY <1>3, <1>4

\* Words of the present run that are fetched and not yet delivered.
LEMMA LiveRange ==
    ASSUME OrderInv
    PROVE  /\ Live \in 0 .. 2 /\ stale \in 0 .. 2 /\ stale + Live = Flight
           /\ Flight = 2 <=> i.valid /\ o.valid
           /\ Flight = 0 <=> ~i.valid /\ ~o.valid
  <1>1. stale \in 0 .. Flight
    BY DEF OrderInv, ObserverTypeOK
  <1> QED BY <1>1 DEF Live, Flight, Occupied

\* The word delivered next stays the same until the core takes one of the run,
\* and then is the one at the following address of the program.
LEMMA RunMovesHead ==
    ASSUME OrderInv, OrderInv', NEW next \in BOOLEAN, Run(next), ObserveRun(next)
    PROVE  /\ Delivered(next) /\ stale = 0 =>
                /\ HeadPc = o.pc /\ HeadPc' = Successor(HeadPc)
                /\ Live > 0 /\ (Live + ToFetch)' = (Live + ToFetch) - 1
           /\ ~(Delivered(next) /\ stale = 0) =>
                HeadPc' = HeadPc /\ (Live + ToFetch)' = Live + ToFetch
  <1>1. TypeOK /\ stale \in 0 .. Flight /\ ConsecutivePcs /\ ConsecutivePcs'
    BY DEF OrderInv, ObserverTypeOK
  <1>2. /\ p.pc \in Nat /\ p.depth \in Nat /\ p.iters \in Nat
        /\ i.pc \in Nat /\ o.pc \in Nat
    BY <1>1, MaxPcAssumption, IterModAssumption DEF TypeOK, Pc
  <1>3. PcStage(next) /\ Pipeline(next)
    BY RunParts
  <1>4. stale' = IF next /\ o.valid /\ stale > 0 THEN stale - 1 ELSE stale
    BY DEF ObserveRun, Delivered
  <1>5. ToFetch \in Nat /\ (ToFetch > 0 <=> p.iters > 0)
    BY FetchLeft
  <1>6. CASE Propagate(next)
    <2>1. /\ i'.pc = p.pc /\ (i'.valid <=> p.iters > 0)
          /\ o'.pc = i.pc /\ (o'.valid <=> i.valid)
      BY <1>1, <1>3, <1>6, StagesMove
    <2>2. o.valid => next
      BY <1>6 DEF Propagate
    <2>3. CASE p.iters > 0
      <3>1. ToFetch' = ToFetch - 1
        BY <1>3, <1>6, <2>3, FetchMoves
      <3>2. p'.depth = p.depth
        BY <1>1, <1>3, <1>6, <2>3, PcMoves
      <3> QED
        BY <1>1, <1>2, <1>4, <1>5, <2>1, <2>2, <2>3, <3>1, <3>2
        DEF Delivered, HeadPc, Live, Flight, Occupied, ConsecutivePcs, Successor
    <2>4. CASE ~(p.iters > 0)
      <3>1. ToFetch' = ToFetch /\ p' = p
        BY <1>1, <1>3, <2>4, FetchMoves, PcMoves
      <3> QED
        BY <1>1, <1>2, <1>4, <1>5, <2>1, <2>2, <2>4, <3>1
        DEF Delivered, HeadPc, Live, Flight, Occupied, ConsecutivePcs, Successor
    <2> QED BY <2>3, <2>4
  <1>7. CASE ~Propagate(next)
    <2>1. i' = i /\ o'.pc = o.pc /\ (o'.valid <=> o.valid) /\ p' = p
      BY <1>1, <1>3, <1>7, StagesMove, PcMoves
    <2>2. ~(next /\ o.valid)
      BY <1>7 DEF Propagate
    <2>3. ToFetch' = ToFetch
      BY <1>3, <1>7, FetchMoves
    <2> QED
      BY <1>1, <1>4, <2>1, <2>2, <2>3 DEF Delivered, HeadPc, Live, Flight, Occupied
  <1> QED BY <1>6, <1>7

\* What the core takes in a clock is the head of the promised order.
LEMMA TakesHead ==
    ASSUME ContentInv, NEW next \in BOOLEAN, Delivered(next)
    PROVE  /\ Promise!Head(o.pc, OutInsn)
           /\ o.pc \in Pc /\ OutInsn \in Insn
  <1>1. OrderInv /\ TypeOK
    BY DEF ContentInv, OrderInv, ObserverTypeOK
  <1>2. o.pc \in Pc /\ OutInsn \in Insn
    BY <1>1, OutInsnType DEF TypeOK
  <1>3. stale \in 0 .. Flight /\ ToFetch \in Nat
    BY <1>1, FetchLeft DEF OrderInv, ObserverTypeOK
  <1>4. CASE stale = 0
    <2>1. Live > 0 /\ HeadPc = o.pc
      BY <1>4 DEF Delivered, Live, Flight, Occupied, HeadPc
    <2>2. OutInsn = prog[o.pc]
      BY <1>4 DEF Delivered, ContentInv, DeliversProgram
    <2>3. Live + ToFetch > 0
      BY <1>1, <1>3, <2>1, LiveRange
    <2> QED BY <1>2, <1>4, <2>1, <2>2, <2>3 DEF Promise!Head
  <1>5. CASE stale > 0
    BY <1>2, <1>5 DEF Promise!Head, Promise!Pc, Pc
  <1>6. Flight \in Nat
    BY DEF Flight, Occupied
  <1> QED BY <1>2, <1>3, <1>4, <1>5, <1>6

\* A clock of a run delivers the next promised word or changes nothing promised.
LEMMA RunImplements ==
    ASSUME ContentInv, OrderInv', NEW next \in BOOLEAN, Run(next), ObserveRun(next)
    PROVE  [Promise!Next]_(Promise!vars)
  <1>1. OrderInv /\ TypeOK
    BY DEF ContentInv, OrderInv, ObserverTypeOK
  <1>2. p'.depth = p.depth
    BY <1>1, RunParts, PcMoves DEF TypeOK
  <1>3. /\ taken' = IF Delivered(next) THEN <<o.pc, OutInsn>> ELSE taken
        /\ prog' = IF Delivered(next) THEN [prog EXCEPT ![o.pc] = Modify[OutInsn]] ELSE prog
        /\ stale' = IF Delivered(next) /\ stale > 0 THEN stale - 1 ELSE stale
    BY DEF ObserveRun, Deliver
  <1>4. CASE ~Delivered(next)
    <2>1. HeadPc' = HeadPc /\ (Live + ToFetch)' = Live + ToFetch
      BY <1>1, <1>4, RunMovesHead
    <2> QED BY <1>2, <1>3, <1>4, <2>1 DEF Promise!vars
  <1>5. CASE Delivered(next)
    <2>1. \E a \in Promise!Pc, word \in Insn :
              Promise!Take(a, word) /\ prog' = [prog EXCEPT ![a] = Modify[word]]
      <3>1. Promise!Head(o.pc, OutInsn) /\ o.pc \in Promise!Pc /\ OutInsn \in Insn
        BY <1>5, TakesHead DEF Promise!Pc, Pc
      <3> QED BY <1>3, <1>5, <3>1 DEF Promise!Take
    <2>2. CASE stale = 0
      <3>1. HeadPc' = Successor(HeadPc) /\ (Live + ToFetch)' = (Live + ToFetch) - 1
        BY <1>1, <1>5, <2>2, RunMovesHead
      <3>2. stale' = stale
        BY <1>3, <2>2
      <3>3. HeadPc' = IF HeadPc < p.depth THEN HeadPc + 1 ELSE 0
        BY <3>1 DEF Successor
      <3>4. Promise!Deliver
        BY <1>2, <2>1, <2>2, <3>1, <3>2, <3>3, Zenon DEF Promise!Deliver
      <3> QED BY <3>4 DEF Promise!Next
    <2>3. CASE stale > 0
      <3>1. HeadPc' = HeadPc /\ (Live + ToFetch)' = Live + ToFetch
        BY <1>1, <1>5, <2>3, RunMovesHead
      <3>2. stale' = stale - 1
        BY <1>3, <1>5, <2>3
      <3> QED BY <1>2, <2>1, <2>3, <3>1, <3>2 DEF Promise!Next, Promise!Deliver
    <2>4. stale \in 0 .. 2
      BY <1>1, LiveRange
    <2> QED BY <2>2, <2>3, <2>4
  <1> QED BY <1>4, <1>5

\* What is left in flight as a run starts or is halted was promised before.
LEMMA EdgeLeaves ==
    ASSUME OrderInv, OrderInv', NEW next \in BOOLEAN, Pipeline(next),
           stale' = Occupied(i'.valid) + Occupied(o'.valid)
    PROVE  /\ Promise!Leave
           /\ Live' = 0 /\ HeadPc' = p'.pc
           /\ ~p.active => Live + ToFetch <= 2
  <1>1. TypeOK /\ (p.iters > 0 => p.active)
    BY DEF OrderInv, ObserverTypeOK
  <1>2. p.iters \in Nat
    BY <1>1, IterModAssumption DEF TypeOK
  <1>3. Live' = 0
    BY DEF Live, Flight, Occupied
  <1>4. /\ Propagate(next) => (i'.valid <=> p.iters > 0) /\ (o'.valid <=> i.valid)
        /\ ~Propagate(next) => (i'.valid <=> i.valid) /\ (o'.valid <=> o.valid)
    BY <1>1, StagesMove
  <1>5. /\ ToFetch \in Nat /\ (ToFetch > 0 <=> p.iters > 0)
        /\ Live \in 0 .. 2 /\ stale \in 0 .. 2 /\ stale + Live = Flight
    BY FetchLeft, LiveRange
  <1>6. stale' \in 0 .. 2 /\ stale' <= stale + (Live + ToFetch)
    BY <1>4, <1>5 DEF Flight, Occupied
  <1>7. HeadPc' = p'.pc
    BY <1>3 DEF HeadPc
  <1>8. ~p.active => Live + ToFetch <= 2
    BY <1>1, <1>2, <1>5
  <1> QED BY <1>3, <1>6, <1>7, <1>8 DEF Promise!Leave, Promise!InFlight

\* A start of a run is a start promised by ProgramOrder.
LEMMA StartImplements ==
    ASSUME ContentInv, OrderInv', NEW next \in BOOLEAN,
           NEW iters \in HostIters, NEW depth \in Pc,
           HostStart(next, iters, depth), ObserveStart(next)
    PROVE  Promise!Start
  <1>1. OrderInv /\ TypeOK
    BY DEF ContentInv, OrderInv, ObserverTypeOK
  <1> DEFINE n == iters % IterMod
  <1>2. /\ ~p.active /\ Pipeline(next)
        /\ p'.pc = 0 /\ p'.iters = n /\ p'.depth = depth
    BY DEF HostStart
  <1>3. /\ Promise!Leave
        /\ Live' = 0 /\ HeadPc' = 0
        /\ Live + ToFetch <= 2
    BY <1>1, <1>2, EdgeLeaves DEF ObserveStart
  <1>4. n \in Nat /\ depth \in Nat /\ n * (depth + 1) \in Nat
    <2>1. n \in Nat /\ depth \in Nat
      BY MaxPcAssumption, IterModAssumption, HostItersAssumption DEF Pc
    <2> HIDE DEF n
    <2> QED BY <2>1
  <1>5. (Live + ToFetch)' = n * (depth + 1)
    <2>1. ToFetch' = IF n = 0 THEN 0 ELSE n * (depth + 1) - 0
      BY <1>2 DEF ToFetch
    <2>2. n = 0 => n * (depth + 1) = 0
      BY <1>4
    <2> DEFINE all == n * (depth + 1)
    <2>3. ToFetch' = all /\ all \in Nat
      BY <1>4, <2>1, <2>2
    <2> HIDE DEF all
    <2>4. Live' + ToFetch' = all
      BY <1>3, <2>3
    <2> QED BY <2>4 DEF all
  <1>6. n \in {m % IterMod : m \in HostIters} /\ depth \in Promise!Pc
    BY DEF Promise!Pc, Pc
  <1>7. \E m \in {k % IterMod : k \in HostIters}, d \in Promise!Pc :
            (Live + ToFetch)' = m * (d + 1) /\ p'.depth = d
    <2> HIDE DEF n
    <2> QED BY <1>2, <1>5, <1>6
  <1>8. prog' \in [Promise!Pc -> Insn]
    BY DEF OrderInv, ObserverTypeOK, Promise!Pc, Pc
  <1>9. \/ taken' = taken
        \/ \E a \in Promise!Pc, word \in Insn : Promise!Take(a, word)
    <2>1. CASE Delivered(next)
      <3>1. Promise!Head(o.pc, OutInsn) /\ o.pc \in Promise!Pc /\ OutInsn \in Insn
        BY <2>1, TakesHead DEF Promise!Pc, Pc
      <3>2. taken' = <<o.pc, OutInsn>>
        BY <2>1 DEF ObserveStart
      <3> QED BY <3>1, <3>2 DEF Promise!Take
    <2>2. CASE ~Delivered(next)
      BY <2>2 DEF ObserveStart
    <2> QED BY <2>1, <2>2
  <1> QED BY <1>3, <1>7, <1>8, <1>9 DEF Promise!Start, Promise!InFlight

\* A halt is a halt promised by ProgramOrder, with or without a delivery.
LEMMA HaltImplements ==
    ASSUME ContentInv, OrderInv', NEW next \in BOOLEAN, HostHalt(next), ObserveHalt(next)
    PROVE  Promise!Halt
  <1>1. OrderInv /\ TypeOK
    BY DEF ContentInv, OrderInv, ObserverTypeOK
  <1>2. /\ Pipeline(next) /\ p'.pc = p.pc /\ p'.iters = 0 /\ p'.depth = p.depth
    BY <1>1 DEF HostHalt, TypeOK
  <1>3. Promise!Leave /\ Live' = 0 /\ HeadPc' = p.pc
    BY <1>1, <1>2, EdgeLeaves DEF ObserveHalt
  <1>4. (Live + ToFetch)' = 0 /\ HeadPc' \in Promise!Pc
    BY <1>1, <1>2, <1>3 DEF ToFetch, TypeOK, Promise!Pc, Pc
  <1>5. \/ prog' = prog /\ taken' = taken
        \/ \E a \in Promise!Pc, word \in Insn :
              Promise!Take(a, word) /\ prog' = [prog EXCEPT ![a] = Modify[word]]
    <2>1. CASE Delivered(next)
      <3>1. Promise!Head(o.pc, OutInsn) /\ o.pc \in Promise!Pc /\ OutInsn \in Insn
        BY <2>1, TakesHead DEF Promise!Pc, Pc
      <3>2. taken' = <<o.pc, OutInsn>> /\ prog' = [prog EXCEPT ![o.pc] = Modify[OutInsn]]
        BY <2>1 DEF ObserveHalt, Deliver
      <3> QED BY <3>1, <3>2 DEF Promise!Take
    <2>2. CASE ~Delivered(next)
      BY <2>2 DEF ObserveHalt, Deliver
    <2> QED BY <2>1, <2>2
  <1> QED BY <1>2, <1>3, <1>4, <1>5 DEF Promise!Halt

\* The sequencer with its read-ahead, forwarding and write-back implements the
\* program order without a pipeline, while its host leaves it the address port.
THEOREM SequencerImplementsOrder == SoloSpec => ImplementsOrder
  <1>1. ObservedInit => Promise!Init
    <2> SUFFICES ASSUME ObservedInit PROVE Promise!Init
      OBVIOUS
    <2>1. /\ Live = 0 /\ ToFetch = 0 /\ HeadPc = 0
          /\ p.depth = 0 /\ stale = 0 /\ taken = <<0, Zero>>
      BY DEF ObservedInit, Init, Live, Flight, Occupied, ToFetch, HeadPc
    <2>2. 0 \in Promise!Pc /\ prog \in [Promise!Pc -> Insn]
      BY MaxPcAssumption DEF ObservedInit, Init, Promise!Pc, Pc
    <2> QED BY <2>1, <2>2, ZeroAssumption DEF Promise!Init
  <1>2. ContentInv /\ ContentInv' /\ [SoloNext]_allvars => [Promise!Next]_(Promise!vars)
    <2> SUFFICES ASSUME ContentInv, ContentInv', [SoloNext]_allvars
                 PROVE  [Promise!Next]_(Promise!vars)
      OBVIOUS
    <2>1. OrderInv'
      BY DEF ContentInv
    <2>2. ASSUME NEW next \in BOOLEAN, Run(next), ObserveRun(next)
          PROVE  [Promise!Next]_(Promise!vars)
      BY <2>1, <2>2, RunImplements
    <2>3. ASSUME NEW next \in BOOLEAN, NEW iters \in HostIters, NEW depth \in Pc,
                 HostStart(next, iters, depth), ObserveStart(next)
          PROVE  Promise!Next
      BY <2>1, <2>3, StartImplements DEF Promise!Next
    <2>4. ASSUME NEW next \in BOOLEAN, HostHalt(next), ObserveHalt(next)
          PROVE  Promise!Next
      BY <2>1, <2>4, HaltImplements DEF Promise!Next
    <2>5. CASE UNCHANGED allvars
      BY <2>5 DEF allvars, vars, Promise!vars, HeadPc, Live, Flight, Occupied, ToFetch
    <2> QED BY <2>2, <2>3, <2>4, <2>5 DEF SoloNext, ObservedNext
  <1> QED BY <1>1, <1>2, ContentInit, ContentStep, PTL DEF SoloSpec, ImplementsOrder, Promise!Spec

=============================================================================
