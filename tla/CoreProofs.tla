----------------------------- MODULE CoreProofs -----------------------------
(***************************************************************************)
(* The core keeps its types, frames are selected, the empty flag means     *)
(* rest, and holds, LDAC strobes and chip-select rests last as long as     *)
(* they should; and the core implements the executor: every step of every  *)
(* instruction is executed once and in order.  All of it for every         *)
(* program, width, control setting and order of frames, starts and offers. *)
(* Wired to the launcher it is the channel the launcher's proof assumes.    *)
(***************************************************************************)
EXTENDS DcCoreObserved, LaunchedCore, SequenceTheorems, FiniteSetTheorems, TLAPS

\* A remainder is below its modulus.
LEMMA ModRange ==
    ASSUME NEW a \in Nat, NEW m \in Nat \ {0}
    PROVE  a % m \in 0 .. m - 1
OBVIOUS

\* What the iterate stage loads of an instruction fits its registers
\* (dc_decode.sv).
LEMMA DecodeTypes ==
    ASSUME NEW insn \in InsnWord
    PROVE  /\ Decode(insn).iters \in 0 .. IterMax
           /\ Decode(insn).spi_din \in 0 .. DacMod - 1
           /\ Decode(insn).dspi_din \in 0 .. DacMod - 1
           /\ Decode(insn).hold_cycles \in Cycles
           /\ Decode(insn).strb_ldac \in BOOLEAN
           /\ Decode(insn).arm \in BOOLEAN
           /\ Decode(insn).idle \in BOOLEAN
<1>1. insn.delta \in 0 .. DeltaMod - 1 /\ SignExtend(insn.delta) \in 0 .. DacMod - 1
  BY DecodeAssumption DEF InsnWord, SignExtend
<1> QED BY <1>1 DEF InsnWord, Decode, Cycles

\* The iterate stage keeps its types, whatever it takes.
LEMMA IterateTypes ==
    ASSUME PipeTypes, Iterate
    PROVE  /\ it' \in [addr: Address, iters: 0 .. IterMax, spi_din: Code, dspi_din: Code,
                       strb_ldac: BOOLEAN, hold_cycles: Cycles, arm: BOOLEAN, idle: BOOLEAN,
                       bubble: BOOLEAN]
           /\ it'.bubble => it'.iters = 0
           /\ ~it'.bubble => it'.spi_din \in 0 .. DacMod - 1 /\ it'.dspi_din \in 0 .. DacMod - 1
<1>1. CASE Taken
        /\ it' = [addr |-> addr, bubble |-> FALSE,
                 iters |-> Decode(offer).iters, spi_din |-> Decode(offer).spi_din,
                 dspi_din |-> Decode(offer).dspi_din, strb_ldac |-> Decode(offer).strb_ldac,
                 hold_cycles |-> Decode(offer).hold_cycles, arm |-> Decode(offer).arm,
                 idle |-> Decode(offer).idle]
  <2>1. offer \in InsnWord
    BY <1>1, ProgramAssumption DEF Taken, Empty, PipeTypes
  <2>2. addr \in Address
    BY DEF PipeTypes, Address
  <2> QED BY <1>1, <2>1, <2>2, DecodeTypes DEF Code
<1>2. CASE it.iters = 0 /\ Bubble
  BY <1>2 DEF PipeTypes, Bubble
<1>3. CASE it.iters > 0 /\ CountDown
  <2>1. ~it.bubble /\ it.iters \in 0 .. IterMax
    BY <1>3 DEF PipeTypes
  <2>2. it.spi_din \in Nat /\ it.dspi_din \in Nat /\ DacMod \in Nat \ {0}
    BY <2>1, DecodeAssumption DEF PipeTypes
  <2>3. (it.spi_din + it.dspi_din) % DacMod \in 0 .. DacMod - 1
    <3>1. it.spi_din + it.dspi_din \in Nat
      BY <2>2
    <3> QED BY <2>2, <3>1, ModRange
  <2>4. it.iters - 1 \in 0 .. IterMax
    BY <1>3, <2>1, DecodeAssumption
  <2> QED BY <1>3, <2>1, <2>3, <2>4 DEF PipeTypes, CountDown, Code
<1>4. CASE UNCHANGED it
  BY <1>4 DEF PipeTypes
<1> QED BY <1>1, <1>2, <1>3, <1>4, Zenon DEF Iterate

\* The SPI buffer keeps its types.
LEMMA SbufTypes ==
    ASSUME PipeTypes, NEW done \in BOOLEAN, SpiBuffer(done)
    PROVE  sbuf' \in [valid: BOOLEAN, addr: Address, iter: IterNo, spi_din: Code,
                      strb_ldac: BOOLEAN, hold_cycles: Cycles, arm: BOOLEAN, delay: Nat,
                      cs_up: Nat, cs_n: BOOLEAN, spi_start: BOOLEAN, spi_done: BOOLEAN,
                      done: BOOLEAN]
<1>a. sbuf \in [valid: BOOLEAN, addr: Address, iter: IterNo, spi_din: Code,
                strb_ldac: BOOLEAN, hold_cycles: Cycles, arm: BOOLEAN, delay: Nat,
                cs_up: Nat, cs_n: BOOLEAN, spi_start: BOOLEAN, spi_done: BOOLEAN,
                done: BOOLEAN]
  BY DEF PipeTypes
<1>1. CASE sbuf' = EmptySbuf
  BY <1>1, DecodeAssumption DEF EmptySbuf, Address, IterNo, Code, Cycles
<1>2. CASE sbuf' = [valid |-> TRUE, addr |-> it.addr, iter |-> it.iters, spi_din |-> it.spi_din,
                   strb_ldac |-> it.strb_ldac, hold_cycles |-> it.hold_cycles, arm |-> it.arm,
                   delay |-> ctrl.delay, cs_up |-> ctrl.cs_up, cs_n |-> TRUE,
                   spi_start |-> TRUE, spi_done |-> FALSE, done |-> FALSE]
  BY <1>2, CtrlAssumption DEF PipeTypes, IterNo
<1>3. CASE sbuf' = [sbuf EXCEPT !.valid = FALSE, !.arm = FALSE, !.delay = 0, !.cs_up = 0,
                                !.cs_n = TRUE, !.spi_done = TRUE, !.done = TRUE]
  BY <1>3, <1>a
<1>4. CASE Shift(done)
  <2>1. CASE sbuf.delay > 0 /\ Delay
    BY <2>1 DEF PipeTypes, Delay
  <2>2. CASE sbuf' = [sbuf EXCEPT !.spi_start = FALSE, !.cs_n = done, !.spi_done = done]
    BY <2>2, <1>a
  <2>3. CASE Rest
    <3>1. (sbuf.cs_up <= 1) \in BOOLEAN /\ (IF sbuf.cs_up > 0 THEN sbuf.cs_up - 1 ELSE 0) \in Nat
      BY DEF PipeTypes
    <3> QED BY <2>3, <3>1 DEF PipeTypes, Rest
  <2> QED BY <1>4, <2>1, <2>2, <2>3, Zenon DEF Shift
<1> QED BY <1>1, <1>2, <1>3, <1>4, Zenon DEF SpiBuffer

\* The idle buffer keeps its types; the cycles it gathers wrap.
LEMMA IbufTypes ==
    ASSUME PipeTypes, IdleBuffer
    PROVE  ibuf' \in [valid: BOOLEAN, addr: Address, iter: IterNo, hold_cycles: Cycles, arm: BOOLEAN]
<1>1. CASE ibuf' = [ibuf EXCEPT !.hold_cycles = (@ + it.hold_cycles) % CycleMod]
  <2>1. ibuf.hold_cycles + it.hold_cycles \in Nat /\ CycleMod \in Nat \ {0}
    BY DecodeAssumption DEF PipeTypes, Cycles
  <2>2. (ibuf.hold_cycles + it.hold_cycles) % CycleMod \in Cycles
    BY <2>1, ModRange DEF Cycles
  <2> QED BY <1>1, <2>2 DEF PipeTypes
<1>2. CASE ibuf' = [valid |-> TRUE, addr |-> it.addr, iter |-> it.iters,
                    hold_cycles |-> it.hold_cycles, arm |-> it.arm]
  BY <1>2 DEF PipeTypes, IterNo
<1>3. CASE ibuf' = [ibuf EXCEPT !.valid = FALSE]
  BY <1>3 DEF PipeTypes
<1>4. CASE UNCHANGED ibuf
  BY <1>4 DEF PipeTypes
<1> QED BY <1>1, <1>2, <1>3, <1>4, Zenon DEF IdleBuffer

\* The hold stage keeps its types.
LEMMA HoldTypes ==
    ASSUME PipeTypes, Hold
    PROVE  h' \in [addr: Address, iter: IterNo, spi_din: Code, ldac_cycles: Nat, ldac_n: BOOLEAN,
                   cycles_left: Cycles, done: BOOLEAN]
<1>1. CASE h' = [addr |-> ibuf.addr, iter |-> ibuf.iter, spi_din |-> 0, ldac_cycles |-> 0,
                 ldac_n |-> TRUE, cycles_left |-> ibuf.hold_cycles, done |-> FALSE]
  BY <1>1, DecodeAssumption DEF PipeTypes, Code
<1>2. CASE h' = [addr |-> sbuf.addr, iter |-> sbuf.iter, spi_din |-> sbuf.spi_din,
                 ldac_cycles |-> IF sbuf.strb_ldac THEN ctrl.ldac ELSE 0,
                 ldac_n |-> ~sbuf.strb_ldac, cycles_left |-> sbuf.hold_cycles,
                 done |-> ~sbuf.strb_ldac /\ sbuf.hold_cycles = 0]
  <2>1. (IF sbuf.strb_ldac THEN ctrl.ldac ELSE 0) \in Nat
    BY CtrlAssumption DEF PipeTypes
  <2>2. (~sbuf.strb_ldac) \in BOOLEAN /\ (~sbuf.strb_ldac /\ sbuf.hold_cycles = 0) \in BOOLEAN
    OBVIOUS
  <2> QED BY <1>2, <2>1, <2>2 DEF PipeTypes
<1>3. CASE h' = EmptyHold
  BY <1>3, DecodeAssumption DEF EmptyHold, Address, IterNo, Code, Cycles
<1>4. CASE h' = [h EXCEPT !.ldac_cycles = IF @ > 0 THEN @ - 1 ELSE 0,
                          !.cycles_left = IF @ > 0 THEN @ - 1 ELSE 0,
                          !.ldac_n = StrobeOver, !.done = HeldOut]
  <2>1. StrobeOver \in BOOLEAN /\ HeldOut \in BOOLEAN
    BY DEF StrobeOver, HeldOut
  <2>2. h.ldac_cycles \in Nat /\ h.cycles_left \in Cycles
    BY DEF PipeTypes
  <2>3. (IF h.ldac_cycles > 0 THEN h.ldac_cycles - 1 ELSE 0) \in Nat
    BY <2>2
  <2>4. (IF h.cycles_left > 0 THEN h.cycles_left - 1 ELSE 0) \in Cycles
    BY <2>2, DecodeAssumption DEF Cycles
  <2> QED BY <1>4, <2>1, <2>3, <2>4, ZenonT(30) DEF PipeTypes
<1> QED BY <1>1, <1>2, <1>3, <1>4, Zenon DEF Hold

\* The observer keeps its types.
LEMMA ObserverTypes ==
    ASSUME StageTypes, NEW done \in BOOLEAN, ObserveHold, ObserveSelect(done),
           sbuf'.delay \in Nat
    PROVE  /\ step' \in StepType \union {None} /\ ldac' \in Nat
           /\ held' \in 1 .. MaxClocks /\ gap' \in 1 .. MaxClocks /\ rest' \in Nat
<1>1. Count(held) \in 1 .. MaxClocks /\ Count(gap) \in 1 .. MaxClocks /\ 1 \in 1 .. MaxClocks
  BY ClocksAssumption DEF StageTypes, PipeTypes, Count
<1>2. IdleStep(ibuf) \in StepType
  BY DecodeAssumption DEF StageTypes, PipeTypes, IdleStep, StepType, Code
<1>3. SpiStep(sbuf) \in StepType
  BY DEF StageTypes, PipeTypes, SpiStep, StepType
<1>4. ctrl.ldac \in Nat
  BY CtrlAssumption DEF StageTypes, PipeTypes
<1>5. step' \in StepType \union {None} /\ ldac' \in Nat /\ held' \in 1 .. MaxClocks
  <2>1. CASE S2H
    BY <1>1, <1>2, <1>3, <1>4, <2>1 DEF ObserveHold
  <2>2. CASE ~S2H
    BY <1>1, <2>2 DEF ObserveHold, StageTypes, PipeTypes
  <2> QED BY <2>1, <2>2
<1>6. gap' \in 1 .. MaxClocks
  BY <1>1 DEF ObserveSelect
<1>7. rest' \in Nat
  BY DEF ObserveSelect, StageTypes, PipeTypes, Longer
<1> QED BY <1>5, <1>6, <1>7

\* The registers around the core keep their types.
LEMMA OfferTypes ==
    ASSUME PipeTypes, Offer
    PROVE  offer' \in Program \union {None} /\ addr' \in 0 .. AddrMod - 1
<1>1. (addr + 1) % AddrMod \in 0 .. AddrMod - 1
  <2>1. addr + 1 \in Nat /\ AddrMod \in Nat \ {0}
    BY AddrAssumption DEF PipeTypes
  <2> QED BY <2>1, ModRange
<1>2. CASE Taken
  BY <1>1, <1>2 DEF Offer
<1>3. CASE ~Taken
  BY <1>3 DEF Offer, PipeTypes
<1> QED BY <1>2, <1>3

\* A clock keeps the types of the stages.
LEMMA PipeTypesStep ==
    ASSUME PipeTypes, NEW done \in BOOLEAN, Clock(done)
    PROVE  PipeTypes'
<1>1. Iterate /\ SpiBuffer(done) /\ SpiMaster(done) /\ IdleBuffer /\ Hold /\ Armed /\ Offer
      /\ start' \in BOOLEAN /\ ctrl' \in Ctrl
  BY DEF Clock
<1>2. spi_busy' \in BOOLEAN
  BY <1>1 DEF SpiMaster
<1>3. armed' \in BOOLEAN
  BY <1>1 DEF Armed
<1> QED BY <1>1, <1>2, <1>3, IterateTypes, SbufTypes, IbufTypes, HoldTypes, OfferTypes, Zenon
        DEF PipeTypes

\* A clock keeps every type.
LEMMA StageTypesStep ==
    ASSUME StageTypes, NEW done \in BOOLEAN, Clock(done), ObserveHold, ObserveSelect(done)
    PROVE  StageTypes'
<1>1. PipeTypes'
  BY PipeTypesStep DEF StageTypes
<1>2. sbuf'.delay \in Nat
  BY <1>1 DEF PipeTypes
<1> QED BY <1>1, <1>2, ObserverTypes, Zenon DEF StageTypes

\* What the edges of the SPI buffer can be: the reset, the load, the release and
\* the shift.
LEMMA SbufCases ==
    ASSUME StageTypes, FrameInv, NEW done \in BOOLEAN, SpiBuffer(done), SpiMaster(done)
    PROVE  \/ /\ sbuf.done /\ ~spi_busy /\ ~done /\ spi_busy' = FALSE
              /\ \/ sbuf' = EmptySbuf
                 \/ sbuf' = [sbuf EXCEPT !.valid = FALSE, !.arm = FALSE, !.delay = 0, !.cs_up = 0,
                                         !.cs_n = TRUE, !.spi_done = TRUE, !.done = TRUE]
                 \/ sbuf' = [valid |-> TRUE, addr |-> it.addr, iter |-> it.iters,
                             spi_din |-> it.spi_din, strb_ldac |-> it.strb_ldac,
                             hold_cycles |-> it.hold_cycles, arm |-> it.arm,
                             delay |-> ctrl.delay, cs_up |-> ctrl.cs_up, cs_n |-> TRUE,
                             spi_start |-> TRUE, spi_done |-> FALSE, done |-> FALSE]
           \/ Shift(done)
<1>1. CASE Shift(done)
  BY <1>1
<1>2. CASE ~Shift(done)
  <2>1. I2S \/ (S2H /\ ~ibuf.valid /\ sbuf.valid)
    BY <1>2 DEF SpiBuffer
  <2>2. sbuf.done
    BY <2>1 DEF I2S, S2H, FrameInv
  <2>3. ~spi_busy /\ ~sbuf.spi_start
    BY <2>2 DEF FrameInv
  <2>4. ~done /\ spi_busy' = FALSE
    BY <2>3 DEF SpiMaster
  <2> QED BY <1>2, <2>2, <2>3, <2>4, Zenon DEF SpiBuffer
<1> QED BY <1>1, <1>2

\* No frame is cut, and none runs unselected: a clock keeps the order of a frame.
LEMMA FrameInvStep ==
    ASSUME StageTypes, FrameInv, NEW done \in BOOLEAN, SpiBuffer(done), SpiMaster(done)
    PROVE  FrameInv'
<1>1. CASE sbuf' = EmptySbuf /\ spi_busy' = FALSE
  BY <1>1 DEF FrameInv, EmptySbuf
<1>2. CASE /\ sbuf.done /\ spi_busy' = FALSE
           /\ sbuf' = [sbuf EXCEPT !.valid = FALSE, !.arm = FALSE, !.delay = 0, !.cs_up = 0,
                                   !.cs_n = TRUE, !.spi_done = TRUE, !.done = TRUE]
  BY <1>2 DEF FrameInv, StageTypes, PipeTypes
<1>3. CASE /\ spi_busy' = FALSE
           /\ sbuf' = [valid |-> TRUE, addr |-> it.addr, iter |-> it.iters,
                       spi_din |-> it.spi_din, strb_ldac |-> it.strb_ldac,
                       hold_cycles |-> it.hold_cycles, arm |-> it.arm,
                       delay |-> ctrl.delay, cs_up |-> ctrl.cs_up, cs_n |-> TRUE,
                       spi_start |-> TRUE, spi_done |-> FALSE, done |-> FALSE]
  BY <1>3 DEF FrameInv
<1>4. CASE Shift(done)
  <2>1. CASE sbuf.delay > 0 /\ Delay
    <3>1. ~spi_busy /\ spi_busy' = FALSE /\ sbuf.spi_start
      BY <2>1 DEF FrameInv, SpiMaster
    <3> QED BY <2>1, <3>1 DEF FrameInv, StageTypes, PipeTypes, Delay
  <2>2. CASE /\ sbuf.delay = 0 /\ ~sbuf.spi_done
             /\ sbuf' = [sbuf EXCEPT !.spi_start = FALSE, !.cs_n = done, !.spi_done = done]
    <3>1. spi_busy' = ~done
      BY <2>2 DEF FrameInv, SpiMaster
    <3> QED BY <2>2, <3>1 DEF FrameInv, StageTypes, PipeTypes
  <2>3. CASE sbuf.delay = 0 /\ sbuf.spi_done /\ Rest
    <3>1. ~spi_busy /\ spi_busy' = FALSE
      BY <2>3 DEF FrameInv, SpiMaster
    <3>2. /\ sbuf'.cs_n /\ (sbuf'.spi_done <=> sbuf.spi_done) /\ sbuf'.delay = 0
          /\ (sbuf'.spi_start <=> sbuf.spi_start) /\ (sbuf'.valid <=> sbuf.valid)
          /\ sbuf'.done <=> sbuf.cs_up <= 1
          /\ sbuf'.cs_up = IF sbuf.cs_up > 0 THEN sbuf.cs_up - 1 ELSE 0
      BY <2>3 DEF StageTypes, PipeTypes, Rest
    <3>3. ~sbuf'.valid => sbuf'.done /\ sbuf'.cs_up = 0
      BY <3>2 DEF FrameInv
    <3> QED BY <2>3, <3>1, <3>2, <3>3 DEF FrameInv
  <2> QED BY <1>4, <2>1, <2>2, <2>3, Zenon DEF Shift
<1> QED BY <1>1, <1>2, <1>3, <1>4, SbufCases, Zenon

\* What a step starts with in the hold stage, and how the stage counts from there.
LEMMA HoldInvStep ==
    ASSUME StageTypes, HoldInv, Hold, ObserveHold
    PROVE  HoldInv'
<1>1. CASE S2H /\ ibuf.valid
  <2>1. /\ held' = 1 /\ step' = IdleStep(ibuf) /\ ldac' = 0
        /\ h' = [addr |-> ibuf.addr, iter |-> ibuf.iter, spi_din |-> 0, ldac_cycles |-> 0,
                 ldac_n |-> TRUE, cycles_left |-> ibuf.hold_cycles, done |-> FALSE]
    BY <1>1 DEF ObserveHold, Hold
  <2>2. /\ step'.hold_cycles = ibuf.hold_cycles /\ ~step'.strb_ldac /\ step'.idle
        /\ ibuf.hold_cycles \in Nat
    BY <2>1, DecodeAssumption DEF IdleStep, StageTypes, PipeTypes, Cycles
  <2>3. /\ ~h'.done /\ h'.ldac_n /\ h'.ldac_cycles = 0 /\ h'.cycles_left = ibuf.hold_cycles
    BY <2>1
  <2>4. 2 < MaxClocks
    BY ClocksAssumption, CtrlAssumption DEF StageTypes, PipeTypes
  <2> QED BY <2>1, <2>2, <2>3, <2>4 DEF HoldInv, Left, Dwell, Longer
<1>2. CASE S2H /\ ~ibuf.valid /\ sbuf.valid
  <2>1. /\ held' = 1 /\ step' = SpiStep(sbuf) /\ ldac' = ctrl.ldac
        /\ h' = [addr |-> sbuf.addr, iter |-> sbuf.iter, spi_din |-> sbuf.spi_din,
                 ldac_cycles |-> IF sbuf.strb_ldac THEN ctrl.ldac ELSE 0,
                 ldac_n |-> ~sbuf.strb_ldac, cycles_left |-> sbuf.hold_cycles,
                 done |-> ~sbuf.strb_ldac /\ sbuf.hold_cycles = 0]
    BY <1>2 DEF ObserveHold, Hold
  <2>2. /\ step'.hold_cycles = sbuf.hold_cycles /\ step'.strb_ldac = sbuf.strb_ldac
        /\ ~step'.idle /\ sbuf.hold_cycles \in Nat /\ sbuf.strb_ldac \in BOOLEAN
    BY <2>1, DecodeAssumption DEF SpiStep, StageTypes, PipeTypes, Cycles
  <2>3. step' # None
    <3>1. SpiStep(sbuf) \in StepType
      BY DEF StageTypes, PipeTypes, SpiStep, StepType
    <3> QED BY <2>1, <3>1, NoneAssumption
  <2>4. /\ h'.done <=> ~sbuf.strb_ldac /\ sbuf.hold_cycles = 0
        /\ h'.ldac_n <=> ~sbuf.strb_ldac
        /\ h'.ldac_cycles = IF sbuf.strb_ldac THEN ctrl.ldac ELSE 0
        /\ h'.cycles_left = sbuf.hold_cycles
    BY <2>1
  <2>5. ctrl.ldac \in Nat /\ ctrl.ldac + 2 < MaxClocks
    BY ClocksAssumption, CtrlAssumption DEF StageTypes, PipeTypes
  <2> QED BY <2>1, <2>2, <2>3, <2>4, <2>5 DEF HoldInv, Left, Dwell, Longer
<1>3. CASE S2H /\ ~ibuf.valid /\ ~sbuf.valid
  <2>1. step' = None /\ h' = EmptyHold
    BY <1>3 DEF ObserveHold, Hold
  <2> QED BY <2>1 DEF HoldInv, EmptyHold
<1>4. CASE ~S2H
  <2>1. held' = Count(held) /\ step' = step /\ ldac' = ldac
    BY <1>4 DEF ObserveHold
  <2>2. /\ h'.ldac_cycles = IF h.ldac_cycles > 0 THEN h.ldac_cycles - 1 ELSE 0
        /\ h'.cycles_left = IF h.cycles_left > 0 THEN h.cycles_left - 1 ELSE 0
        /\ h'.ldac_n <=> h.ldac_cycles = 0
        /\ h'.done <=> h.cycles_left <= 1 /\ h.ldac_cycles = 0 /\ h.ldac_n
    BY <1>4 DEF Hold, StageTypes, PipeTypes, StrobeOver, HeldOut
  <2>3. h'.done => h'.ldac_n
    BY <2>2
  <2>4. CASE step = None
    BY <2>1, <2>2, <2>3, <2>4 DEF HoldInv
  <2>5. CASE step # None
    <3> DEFINE n == step.hold_cycles
    <3>1. /\ n \in Nat /\ n < MaxClocks /\ step.strb_ldac \in BOOLEAN /\ step.idle \in BOOLEAN
      BY <2>5, DecodeAssumption, ClocksAssumption DEF StageTypes, PipeTypes, StepType, Cycles
    <3>2. /\ held \in Nat \ {0} /\ held <= MaxClocks /\ ldac \in Nat /\ ldac + 2 < MaxClocks
          /\ h.cycles_left = Left(n) /\ ~(step.strb_ldac /\ step.idle)
          /\ h.ldac_cycles = IF step.strb_ldac THEN Left(ldac) ELSE 0
          /\ ~h.ldac_n <=> step.strb_ldac /\ held <= ldac + 1
      BY <2>5, ClocksAssumption DEF HoldInv, StageTypes, PipeTypes
    <3>3. MaxClocks \in Nat /\ held' \in Nat /\ held' = IF held < MaxClocks THEN held + 1 ELSE held
      BY <2>1, <3>2, ClocksAssumption DEF Count
    <3> HIDE DEF n
    <3>4. h'.cycles_left = IF held' <= n THEN n - held' + 1 ELSE 0
      BY <2>2, <3>1, <3>2, <3>3 DEF Left
    <3>5. h'.ldac_cycles = IF step.strb_ldac THEN IF held' <= ldac THEN ldac - held' + 1 ELSE 0 ELSE 0
      BY <2>2, <3>1, <3>2, <3>3 DEF Left
    <3>6. ~h'.ldac_n <=> step.strb_ldac /\ held' <= ldac + 1
      BY <2>2, <3>1, <3>2, <3>3 DEF Left
    <3>7. h'.done <=> held > n - 1 /\ held # 0 /\ (step.strb_ldac => held > ldac + 1)
      BY <2>2, <3>1, <3>2, <3>3 DEF Left
    <3>8. h'.done <=> held' > Dwell
      BY <3>1, <3>2, <3>3, <3>7 DEF Dwell, Longer, n
    <3> QED BY <2>1, <2>3, <2>5, <3>2, <3>4, <3>5, <3>6, <3>8 DEF HoldInv, Left, Dwell, n
  <2> QED BY <2>4, <2>5
<1> QED BY <1>1, <1>2, <1>3, <1>4

\* The clocks counted since a frame and those still to come add up to the rest
\* that is due.
LEMMA RestInvStep ==
    ASSUME StageTypes, FrameInv, RestInv, NEW done \in BOOLEAN, SpiBuffer(done), SpiMaster(done),
           ObserveSelect(done), StageTypes'
    PROVE  RestInv'
<1> DEFINE load == [valid |-> TRUE, addr |-> it.addr, iter |-> it.iters,
                    spi_din |-> it.spi_din, strb_ldac |-> it.strb_ldac,
                    hold_cycles |-> it.hold_cycles, arm |-> it.arm,
                    delay |-> ctrl.delay, cs_up |-> ctrl.cs_up, cs_n |-> TRUE,
                    spi_start |-> TRUE, spi_done |-> FALSE, done |-> FALSE]
           release == [sbuf EXCEPT !.valid = FALSE, !.arm = FALSE, !.delay = 0, !.cs_up = 0,
                                   !.cs_n = TRUE, !.spi_done = TRUE, !.done = TRUE]
<1>1. /\ gap \in Nat /\ rest \in Nat /\ MaxClocks \in Nat /\ sbuf.cs_up \in Nat
      /\ ~done => gap' = IF gap < MaxClocks THEN gap + 1 ELSE gap
  BY ClocksAssumption DEF StageTypes, PipeTypes, ObserveSelect, Count
<1>2. CASE sbuf.done /\ ~done /\ (sbuf' = EmptySbuf \/ sbuf' = release)
  <2>1. sbuf'.done /\ ~sbuf'.spi_start
    <3>1. ~sbuf.spi_start
      BY <1>2 DEF FrameInv
    <3>2. CASE sbuf' = EmptySbuf
      BY <3>2 DEF EmptySbuf
    <3>3. CASE sbuf' = release
      BY <3>1, <3>3 DEF StageTypes, PipeTypes
    <3> QED BY <1>2, <3>2, <3>3
  <2>2. rest' = rest
    BY <1>2, <2>1 DEF ObserveSelect
  <2> QED BY <1>1, <1>2, <2>1, <2>2 DEF RestInv
<1>3. CASE sbuf.done /\ ~done /\ sbuf' = load
  <2>1. /\ sbuf'.valid /\ sbuf'.spi_start /\ ~sbuf'.spi_done /\ ~sbuf'.done
        /\ sbuf'.delay = ctrl.delay
    BY <1>3
  <2>2. ~sbuf.spi_start /\ ctrl.delay \in Nat
    BY <1>3, CtrlAssumption DEF FrameInv, StageTypes, PipeTypes
  <2>3. rest' = rest + 2 + ctrl.delay
    BY <2>1, <2>2 DEF ObserveSelect
  <2> QED BY <1>1, <1>3, <2>1, <2>2, <2>3 DEF RestInv
<1>4. CASE Shift(done)
  <2>1. CASE sbuf.delay > 0 /\ Delay
    <3>1. /\ ~done /\ sbuf.spi_start /\ ~sbuf.spi_done /\ ~sbuf.done /\ sbuf.delay \in Nat
      BY <2>1 DEF FrameInv, SpiMaster, StageTypes, PipeTypes
    <3>2. /\ (sbuf'.spi_start <=> sbuf.spi_start) /\ (sbuf'.spi_done <=> sbuf.spi_done)
          /\ (sbuf'.done <=> sbuf.done) /\ sbuf'.delay = sbuf.delay - 1
      BY <2>1 DEF StageTypes, PipeTypes, Delay
    <3>3. rest' = rest
      BY <3>1, <3>2 DEF ObserveSelect
    <3> QED BY <1>1, <2>1, <3>1, <3>2, <3>3 DEF RestInv
  <2>2. CASE /\ sbuf.delay = 0 /\ ~sbuf.spi_done
             /\ sbuf' = [sbuf EXCEPT !.spi_start = FALSE, !.cs_n = done, !.spi_done = done]
    <3>1. /\ ~sbuf'.spi_start /\ (sbuf'.spi_done <=> done) /\ (sbuf'.done <=> sbuf.done)
          /\ sbuf'.cs_up = sbuf.cs_up /\ ~sbuf.done
      BY <2>2 DEF StageTypes, PipeTypes, FrameInv
    <3>2. CASE done
      <4>1. gap' = 1 /\ rest' = Longer(sbuf.cs_up, 1)
        BY <3>1, <3>2 DEF ObserveSelect
      <4> QED BY <1>1, <3>1, <4>1 DEF RestInv, Longer
    <3>3. CASE ~done
      BY <3>1, <3>3 DEF RestInv
    <3> QED BY <3>2, <3>3
  <2>3. CASE sbuf.delay = 0 /\ sbuf.spi_done /\ Rest
    <3>1. ~done /\ ~sbuf.spi_start
      BY <2>3 DEF FrameInv, SpiMaster
    <3>2. /\ ~sbuf'.spi_start /\ sbuf'.spi_done
          /\ sbuf'.done <=> sbuf.cs_up <= 1
          /\ sbuf'.cs_up = IF sbuf.cs_up > 0 THEN sbuf.cs_up - 1 ELSE 0
      BY <2>3, <3>1 DEF StageTypes, PipeTypes, Rest
    <3>3. rest' = rest
      BY <3>1, <3>2 DEF ObserveSelect
    <3>4. gap < MaxClocks => gap + Longer(sbuf.cs_up, 1) > rest
      BY <1>1, <2>3 DEF RestInv, Longer
    <3> QED BY <1>1, <3>1, <3>2, <3>3, <3>4 DEF RestInv, Longer
  <2> QED BY <1>4, <2>1, <2>2, <2>3, Zenon DEF Shift
<1>5. \/ sbuf.done /\ ~done /\ (sbuf' = EmptySbuf \/ sbuf' = release)
      \/ sbuf.done /\ ~done /\ sbuf' = load
      \/ Shift(done)
  BY SbufCases, Zenon
<1> QED BY <1>2, <1>3, <1>4, <1>5

\* A reset core is in the invariant.
LEMMA CoreInit == ObservedInit => CoreInv
<1> SUFFICES ASSUME ObservedInit PROVE CoreInv
  OBVIOUS
<1>1. /\ 0 \in 0 .. AddrMod - 1 /\ 0 \in 0 .. IterMax /\ 0 \in Cycles
      /\ None \in Address /\ None \in IterNo /\ None \in Code
      /\ MaxClocks \in 1 .. MaxClocks
  BY AddrAssumption, DecodeAssumption, ClocksAssumption DEF Address, IterNo, Code, Cycles
<1>2. StageTypes
  BY <1>1 DEF ObservedInit, Init, EmptySbuf, EmptyHold, StageTypes, PipeTypes
<1>3. FrameInv
  BY DEF ObservedInit, Init, EmptySbuf, FrameInv
<1>4. HoldInv
  BY DEF ObservedInit, Init, EmptyHold, HoldInv
<1>5. RestInv
  BY <1>1 DEF ObservedInit, RestInv
<1> QED BY <1>2, <1>3, <1>4, <1>5 DEF CoreInv

\* Every clock edge keeps the invariant.
LEMMA CoreStep == CoreInv /\ [ObservedNext]_allvars => CoreInv'
<1> SUFFICES ASSUME CoreInv, [ObservedNext]_allvars PROVE CoreInv'
  OBVIOUS
<1> USE DEF CoreInv
<1>1. CASE ObservedNext
  <2>1. PICK done \in BOOLEAN : Clock(done) /\ ObserveHold /\ ObserveSelect(done)
    BY <1>1 DEF ObservedNext
  <2>2. SpiBuffer(done) /\ SpiMaster(done) /\ Hold
    BY <2>1 DEF Clock
  <2>3. StageTypes'
    BY <2>1, StageTypesStep
  <2>4. FrameInv'
    BY <2>2, FrameInvStep
  <2>5. HoldInv'
    BY <2>1, <2>2, HoldInvStep
  <2>6. RestInv'
    BY <2>1, <2>2, <2>3, RestInvStep
  <2> QED BY <2>3, <2>4, <2>5, <2>6
<1>2. CASE UNCHANGED allvars
  BY <1>2 DEF allvars, vars, observer, StageTypes, PipeTypes, FrameInv, HoldInv, RestInv, Left, Dwell
<1> QED BY <1>1, <1>2

\* The invariant holds in every state of the core.
THEOREM CoreInvariant == ObservedSpec => []CoreInv
<1> QED BY CoreInit, CoreStep, PTL DEF ObservedSpec

\* The type invariant the run checks, for every width, program and setting.
THEOREM CoreTypeCorrect == ObservedSpec => []TypeOK
<1>1. CoreInv => TypeOK
  BY DecodeAssumption DEF CoreInv, StageTypes, PipeTypes, Cycles, TypeOK
<1> QED BY <1>1, CoreInvariant, PTL

\* Chip select is low exactly while the SPI master shifts (dc_core.sv's SPI
\* buffer): no step reloads the buffer under a running frame.
THEOREM FramesAlwaysSelected == ObservedSpec => []SelectFramesFrame
<1>1. CoreInv => SelectFramesFrame
  BY DEF CoreInv, FrameInv, SelectFramesFrame
<1> QED BY <1>1, CoreInvariant, PTL

\* The empty flag the host polls means that nothing moves and nothing is to come.
THEOREM EmptyAlwaysQuiet == ObservedSpec => []EmptyIsQuiet
<1>1. CoreInv => EmptyIsQuiet
  BY DEF CoreInv, FrameInv, HoldInv, OutEmpty, EmptyIsQuiet
<1> QED BY <1>1, CoreInvariant, PTL

\* Every step occupies the hold stage for its time, whatever its cycles, the LDAC
\* setting and what the host has changed of it since.
THEOREM StepsHeldExactly == ObservedSpec => []HeldExactly
<1>1. CoreInv => HeldExactly
  BY DEF CoreInv, HoldInv, HeldExactly
<1> QED BY <1>1, CoreInvariant, PTL

\* LDAC is strobed by strobing steps alone, for the configured cycles and one.
THEOREM LdacAlwaysExact == ObservedSpec => []LdacStrobe
<1>1. CoreInv => LdacStrobe
  BY DEF CoreInv, HoldInv, LdacStrobe
<1> QED BY <1>1, CoreInvariant, PTL

\* In a clock in which chip select falls the rest due since the frame before is
\* over.
LEMMA SelectsRested ==
    ASSUME CoreInv, [ObservedNext]_allvars, sbuf.cs_n, ~sbuf'.cs_n
    PROVE  gap >= (IF rest < MaxClocks THEN rest ELSE MaxClocks)
<1> USE DEF CoreInv
<1>1. PICK done \in BOOLEAN : Clock(done)
  <2>1. ObservedNext
    BY DEF allvars, vars
  <2> QED BY <2>1 DEF ObservedNext
<1>2. SpiBuffer(done) /\ SpiMaster(done)
  BY <1>1 DEF Clock
<1>3. Shift(done)
  <2>1. sbuf' # EmptySbuf
    BY DEF EmptySbuf
  <2>2. sbuf' # [sbuf EXCEPT !.valid = FALSE, !.arm = FALSE, !.delay = 0, !.cs_up = 0,
                             !.cs_n = TRUE, !.spi_done = TRUE, !.done = TRUE]
    BY DEF StageTypes, PipeTypes
  <2>3. sbuf' # [valid |-> TRUE, addr |-> it.addr, iter |-> it.iters,
                 spi_din |-> it.spi_din, strb_ldac |-> it.strb_ldac,
                 hold_cycles |-> it.hold_cycles, arm |-> it.arm,
                 delay |-> ctrl.delay, cs_up |-> ctrl.cs_up, cs_n |-> TRUE,
                 spi_start |-> TRUE, spi_done |-> FALSE, done |-> FALSE]
    OBVIOUS
  <2> QED BY <1>2, <2>1, <2>2, <2>3, SbufCases, Zenon
<1>4. sbuf.delay = 0 /\ sbuf.spi_start
  <2>1. ~(sbuf.delay > 0 /\ Delay)
    BY DEF Delay, StageTypes, PipeTypes
  <2>2. ~Rest
    BY DEF Rest, StageTypes, PipeTypes
  <2>3. sbuf.delay = 0 /\ ~sbuf.spi_done
    BY <1>3, <2>1, <2>2 DEF Shift
  <2> QED BY <2>3 DEF FrameInv
<1>5. gap \in 1 .. MaxClocks /\ rest \in Nat /\ MaxClocks \in Nat
  BY ClocksAssumption DEF StageTypes, PipeTypes
<1> QED BY <1>4, <1>5 DEF RestInv

\* Chip select is never taken low before the configured rest, for any setting.
THEOREM SelectAlwaysRests == ObservedSpec => SelectRests
<1>1. CoreInv /\ [ObservedNext]_allvars
      => [sbuf.cs_n /\ ~sbuf'.cs_n => gap >= (IF rest < MaxClocks THEN rest ELSE MaxClocks)]_allvars
  BY SelectsRested
<1> QED BY <1>1, CoreInvariant, PTL DEF ObservedSpec, SelectRests

-----------------------------------------------------------------------------
(* Extending a sequence of steps.  Sets of the form 0 .. k, ordered by *)
(* inclusion, have least elements: induction over the naturals.        *)

\* A set that holds 0 and the successor of every natural it holds has them all.
LEMMA SetInduction ==
    ASSUME NEW S, 0 \in S, \A k \in Nat : k \in S => k + 1 \in S
    PROVE  \A n \in Nat : n \in S
  <1> SUFFICES ASSUME NEW n \in Nat, n \notin S PROVE FALSE
    OBVIOUS
  <1> DEFINE R == StrictSubsetOrdering(Nat)
             F == FiniteSubsetsOf(Nat)
             T == {0 .. k : k \in {m \in Nat : m \notin S}}
  <1>1. IsWellFoundedOn(R, F)
    BY FS_StrictSubsetOrderingWellFounded
  <1>2. T \subseteq F
    <2>1. \A k \in Nat : IsFiniteSet(0 .. k)
      BY FS_Interval
    <2> QED BY <2>1 DEF FiniteSubsetsOf
  <1>3. T # {}
    OBVIOUS
  <1>4. PICK x \in T : \A y \in T : ~(<<y, x>> \in R)
    <2> HIDE DEF R, F, T
    <2> QED BY <1>1, <1>2, <1>3, WFMin
  <1>5. PICK k \in Nat : k \notin S /\ x = 0 .. k
    BY <1>4
  <1>6. k # 0 /\ k - 1 \in Nat /\ k - 1 \notin S
    BY <1>5
  <1>7. (0 .. k - 1) \in T
    BY <1>6
  <1>8. (0 .. k - 1) \subseteq (0 .. k) /\ (0 .. k - 1) # (0 .. k)
    <2>1. k \in 0 .. k /\ k \notin 0 .. k - 1
      OBVIOUS
    <2> QED BY <2>1
  <1>9. <<0 .. k - 1, 0 .. k>> \in R
    BY <1>8 DEF StrictSubsetOrdering
  <1> QED BY <1>4, <1>5, <1>7, <1>9

\* f holds what becomes of b as the first i steps of s are added to it.
AddsUpto(f, b, s, n) ==
    /\ f \in [0 .. n -> Seq(StepType)]
    /\ f[0] = b
    /\ \A i \in 1 .. n : f[i] = AddStep(f[i - 1], s[i])

\* The recursion by which FoldLeft adds the steps of s.
Adding(g, b, s, n) ==
    [D \in SUBSET (1 .. n) |->
        IF D = {} THEN b ELSE AddStep(g[D \ {Max(D)}], s[Max(D)])]

\* One step more, or a waiting step that waits longer, is a sequence of steps again.
LEMMA AddTypes ==
    ASSUME NEW u \in Seq(StepType), NEW x \in StepType
    PROVE  /\ AddStep(u, x) \in Seq(StepType) /\ AddStep(u, x) # <<>>
           /\ u = <<>> => AddStep(u, x) = <<x>>
<1>1. CASE u # <<>> /\ Last(u).idle /\ x.idle
  <2>1. Len(u) \in Nat \ {0} /\ Last(u) \in StepType
    BY <1>1, EmptySeq DEF Last
  <2>2. (Last(u).hold_cycles + x.hold_cycles) % CycleMod \in Cycles
    <3>1. Last(u).hold_cycles + x.hold_cycles \in Nat /\ CycleMod \in Nat \ {0}
      BY <2>1, DecodeAssumption DEF StepType, Cycles
    <3> QED BY <3>1, ModRange DEF Cycles
  <2>3. Merge(Last(u), x) \in StepType
    BY <2>1, <2>2 DEF Merge, StepType
  <2>4. Front(u) \in Seq(StepType)
    BY <2>1 DEF Front
  <2>5. AddStep(u, x) = Append(Front(u), Merge(Last(u), x))
    BY <1>1 DEF AddStep
  <2> DEFINE y == Merge(Last(u), x)
             v == Front(u)
  <2> HIDE DEF StepType, y, v
  <2>6. Append(v, y) \in Seq(StepType) /\ Len(Append(v, y)) = Len(v) + 1 /\ Len(v) \in Nat
    BY <2>3, <2>4 DEF y, v
  <2>7. AddStep(u, x) # <<>>
    BY <2>5, <2>6 DEF y, v
  <2> QED BY <1>1, <2>5, <2>6, <2>7 DEF y, v
<1>2. CASE ~(u # <<>> /\ Last(u).idle /\ x.idle)
  <2>1. AddStep(u, x) = Append(u, x)
    BY <1>2 DEF AddStep
  <2> HIDE DEF StepType
  <2>2. Append(u, x) \in Seq(StepType) /\ Len(Append(u, x)) = Len(u) + 1 /\ Len(u) \in Nat
    OBVIOUS
  <2>3. Append(u, x) # <<>>
    BY <2>2
  <2>4. u = <<>> => Append(u, x) = <<x>>
    OBVIOUS
  <2> QED BY <2>1, <2>2, <2>3, <2>4
<1> QED BY <1>1, <1>2

\* The steps can be added.
LEMMA AddsExist ==
    ASSUME NEW b \in Seq(StepType), NEW s \in Seq(StepType)
    PROVE  \E f : AddsUpto(f, b, s, Len(s))
<1> DEFINE S == {n \in Nat : n <= Len(s) => \E f : AddsUpto(f, b, s, n)}
<1>1. 0 \in S
  <2>1. AddsUpto([i \in 0 .. 0 |-> b], b, s, 0)
    BY DEF AddsUpto
  <2> QED BY <2>1
<1>2. ASSUME NEW k \in Nat, k \in S PROVE k + 1 \in S
  <2>1. ASSUME NEW f, AddsUpto(f, b, s, k), k + 1 <= Len(s)
        PROVE  \E g : AddsUpto(g, b, s, k + 1)
    <3> DEFINE x == AddStep(f[k], s[k + 1])
               g == [i \in 0 .. k + 1 |-> IF i <= k THEN f[i] ELSE x]
    <3>1. f[k] \in Seq(StepType) /\ s[k + 1] \in StepType
      <4> HIDE DEF StepType
      <4> QED BY <2>1 DEF AddsUpto
    <3>2. x \in Seq(StepType)
      BY <3>1, AddTypes
    <3> HIDE DEF StepType
    <3>3. g \in [0 .. k + 1 -> Seq(StepType)]
      BY <2>1, <3>2 DEF AddsUpto
    <3>4. ASSUME NEW i \in 1 .. k + 1 PROVE g[i] = AddStep(g[i - 1], s[i])
      <4>1. CASE i = k + 1
        <5>1. i \in 0 .. k + 1 /\ ~(i <= k) /\ i - 1 = k /\ k \in 0 .. k + 1 /\ k <= k
          BY <4>1
        <5> HIDE DEF x
        <5>2. g[i] = x /\ g[i - 1] = f[k]
          BY <5>1
        <5> QED BY <4>1, <5>2 DEF x
      <4>2. CASE i # k + 1
        <5>1. i \in 1 .. k /\ i - 1 \in 0 .. k
          BY <4>2
        <5>2. g[i] = f[i] /\ g[i - 1] = f[i - 1]
          BY <5>1
        <5> QED BY <2>1, <5>1, <5>2 DEF AddsUpto
      <4> QED BY <4>1, <4>2
    <3>5. g[0] = b
      BY <2>1 DEF AddsUpto
    <3> HIDE DEF g
    <3>6. AddsUpto(g, b, s, k + 1)
      BY <3>3, <3>4, <3>5 DEF AddsUpto
    <3> QED BY <3>6
  <2>2. k + 1 <= Len(s) => k <= Len(s)
    OBVIOUS
  <2>3. k + 1 \in Nat
    OBVIOUS
  <2> QED BY <1>2, <2>1, <2>2, <2>3, Zenon
<1> HIDE DEF S
<1>3. Len(s) \in S
  BY <1>1, <1>2, SetInduction
<1>4. Len(s) <= Len(s)
  OBVIOUS
<1> QED BY <1>3, <1>4 DEF S

\* The largest of a set of numbers below n is n, if it is one of them.
LEMMA LargestIs ==
    ASSUME NEW n \in Nat, NEW D \in SUBSET (1 .. n), n \in D
    PROVE  Max(D) = n
<1>1. \A y \in D : n >= y
  OBVIOUS
<1>2. \A x \in D : (\A y \in D : x >= y) => x = n
  OBVIOUS
<1> QED BY <1>1, <1>2 DEF Max

\* The recursion has a solution.
LEMMA AddingExists ==
    ASSUME NEW b, NEW s
    PROVE  \A n \in Nat : \E g : g = Adding(g, b, s, n)
<1> DEFINE S == {n \in Nat : \E g : g = Adding(g, b, s, n)}
<1>1. 0 \in S
  <2> DEFINE g == [D \in SUBSET (1 .. 0) |-> b]
  <2>1. \A D \in SUBSET (1 .. 0) : D = {}
    OBVIOUS
  <2>2. g = Adding(g, b, s, 0)
    BY <2>1 DEF Adding
  <2> QED BY <2>2
<1>2. ASSUME NEW k \in Nat, k \in S PROVE k + 1 \in S
  <2>1. PICK f : f = Adding(f, b, s, k)
    BY <1>2
  <2> DEFINE m == k + 1
             g == [D \in SUBSET (1 .. m) |-> IF m \in D THEN AddStep(f[D \ {m}], s[m]) ELSE f[D]]
  <2>2. m \in Nat /\ m \notin 1 .. k /\ \A D \in SUBSET (1 .. m) : m \notin D => D \in SUBSET (1 .. k)
    OBVIOUS
  <2> HIDE DEF m
  <2>3. ASSUME NEW D \in SUBSET (1 .. m)
        PROVE  g[D] = IF D = {} THEN b ELSE AddStep(g[D \ {Max(D)}], s[Max(D)])
    <3>1. CASE m \in D
      <4>1. Max(D) = m /\ D # {}
        BY <2>2, <3>1, LargestIs
      <4>2. D \ {m} \in SUBSET (1 .. m) /\ m \notin D \ {m}
        OBVIOUS
      <4>3. g[D \ {m}] = f[D \ {m}]
        BY <4>2
      <4> QED BY <3>1, <4>1, <4>3
    <3>2. CASE m \notin D
      <4>1. D \in SUBSET (1 .. k) /\ g[D] = f[D]
        BY <2>2, <3>2
      <4>2. f[D] = IF D = {} THEN b ELSE AddStep(f[D \ {Max(D)}], s[Max(D)])
        BY <2>1, <4>1 DEF Adding
      <4>3. D \ {Max(D)} \in SUBSET (1 .. m) /\ m \notin D \ {Max(D)}
        BY <3>2
      <4>4. g[D \ {Max(D)}] = f[D \ {Max(D)}]
        BY <4>3
      <4> QED BY <4>1, <4>2, <4>4
    <3> QED BY <3>1, <3>2
  <2>4. g = Adding(g, b, s, m)
    <3>1. g = [D \in SUBSET (1 .. m) |-> g[D]]
      OBVIOUS
    <3> HIDE DEF g
    <3> QED BY <2>3, <3>1 DEF Adding
  <2> QED BY <2>2, <2>4 DEF m
<1> HIDE DEF S
<1>3. \A n \in Nat : n \in S
  BY <1>1, <1>2, SetInduction
<1> QED BY <1>3 DEF S

\* However the steps are added, Extend gives the same.
LEMMA AddsAreExtend ==
    ASSUME NEW b \in Seq(StepType), NEW s \in Seq(StepType), NEW f, AddsUpto(f, b, s, Len(s))
    PROVE  Extend(b, s) = f[Len(s)]
<1> DEFINE n == Len(s)
           c == CHOOSE g : g = Adding(g, b, s, n)
<1>1. n \in Nat /\ DOMAIN s = 1 .. n
  OBVIOUS
<1>2. c = Adding(c, b, s, n)
  <2>1. \E g : g = Adding(g, b, s, n)
    BY <1>1, AddingExists
  <2> QED BY <2>1, Zenon
<1>3. Extend(b, s) = c[1 .. n]
  BY <1>1 DEF Extend, FoldLeft, MapThenFoldSet, Adding
<1> HIDE DEF c, n
<1> DEFINE S == {k \in Nat : k <= n => c[1 .. k] = f[k]}
<1>4. 0 \in S
  <2>1. 1 .. 0 = {} /\ {} \in SUBSET (1 .. n)
    OBVIOUS
  <2>2. c[{}] = b
    BY <1>2, <2>1 DEF Adding
  <2> QED BY <2>1, <2>2 DEF AddsUpto
<1>5. ASSUME NEW k \in Nat, k \in S, k + 1 <= n
      PROVE  c[1 .. k + 1] = f[k + 1]
  <2> DEFINE D == 1 .. k + 1
  <2>1. D \in SUBSET (1 .. n) /\ D # {} /\ k + 1 \in D /\ k + 1 \in Nat /\ D \ {k + 1} = 1 .. k
    <3>1. \A j \in 1 .. k + 1 : j \in 1 .. n
      BY <1>1, <1>5
    <3>2. k + 1 \in 1 .. k + 1 /\ k + 1 \in Nat
      OBVIOUS
    <3>3. \A j : j \in 1 .. k <=> j \in 1 .. k + 1 /\ j # k + 1
      OBVIOUS
    <3> QED BY <3>1, <3>2, <3>3
  <2>2. Max(D) = k + 1
    BY <2>1, LargestIs
  <2>3. c[D] = AddStep(c[D \ {Max(D)}], s[Max(D)])
    <3> HIDE DEF D
    <3> QED BY <1>2, <2>1 DEF Adding
  <2>4. c[D] = AddStep(c[1 .. k], s[k + 1])
    BY <2>1, <2>2, <2>3
  <2>5. k + 1 \in 1 .. n /\ (k + 1) - 1 = k /\ c[1 .. k] = f[k]
    BY <1>1, <1>5
  <2>6. f[k + 1] = AddStep(f[(k + 1) - 1], s[k + 1])
    BY <2>5, Zenon DEF AddsUpto, n
  <2> QED BY <2>4, <2>5, <2>6
<1>6. \A k \in Nat : k \in S => k + 1 \in S
  BY <1>5
<1> HIDE DEF S
<1>7. n \in S
  BY <1>1, <1>4, <1>6, SetInduction
<1> QED BY <1>1, <1>3, <1>7 DEF S, n

\* With no more steps nothing changes.
LEMMA ExtendNone ==
    ASSUME NEW b \in Seq(StepType)
    PROVE  Extend(b, <<>>) = b
<1> DEFINE f == [i \in 0 .. 0 |-> b]
<1>1. <<>> \in Seq(StepType) /\ Len(<<>>) = 0
  OBVIOUS
<1>2. AddsUpto(f, b, <<>>, 0)
  BY DEF AddsUpto
<1>3. f[0] = b
  OBVIOUS
<1> HIDE DEF f
<1> QED BY <1>1, <1>2, <1>3, AddsAreExtend, ZenonT(30)

\* The first step may be added before the others.
LEMMA ExtendFirst ==
    ASSUME NEW b \in Seq(StepType), NEW s \in Seq(StepType), s # <<>>
    PROVE  /\ Tail(s) \in Seq(StepType) /\ s[1] \in StepType
           /\ Extend(b, s) = Extend(AddStep(b, s[1]), Tail(s))
<1> DEFINE n == Len(s)
           t == Tail(s)
<1>1. n \in Nat \ {0} /\ s[1] \in StepType
  BY EmptySeq
<1>2. t \in Seq(StepType) /\ Len(t) = n - 1 /\ \A i \in 1 .. n - 1 : t[i] = s[i + 1]
  <2> HIDE DEF StepType
  <2> QED BY <1>1
<1>3. PICK f : AddsUpto(f, b, s, n)
  BY AddsExist
<1>4. Extend(b, s) = f[n]
  BY <1>3, AddsAreExtend
<1> DEFINE g == [i \in 0 .. n - 1 |-> f[i + 1]]
<1> HIDE DEF StepType, t, n
<1>5. f[1] = AddStep(b, s[1]) /\ AddStep(b, s[1]) \in Seq(StepType)
  <2>1. 1 \in 1 .. n /\ 1 - 1 = 0 /\ 1 \in 0 .. n
    BY <1>1
  <2> QED BY <1>1, <1>3, <2>1, AddTypes DEF AddsUpto
<1>6. AddsUpto(g, AddStep(b, s[1]), t, n - 1)
  <2>1. \A i \in 0 .. n - 1 : i + 1 \in 0 .. n
    BY <1>1
  <2>2. g \in [0 .. n - 1 -> Seq(StepType)]
    BY <1>3, <2>1 DEF AddsUpto
  <2>3. g[0] = f[1]
    BY <1>1
  <2>4. ASSUME NEW i \in 1 .. n - 1 PROVE g[i] = AddStep(g[i - 1], t[i])
    <3>1. i \in 0 .. n - 1 /\ i - 1 \in 0 .. n - 1 /\ i + 1 \in 1 .. n /\ (i - 1) + 1 = i
          /\ (i + 1) - 1 = i
      BY <1>1
    <3>2. g[i] = f[i + 1] /\ g[i - 1] = f[i]
      BY <3>1
    <3>3. f[i + 1] = AddStep(f[i], s[i + 1])
      BY <1>3, <3>1 DEF AddsUpto
    <3> QED BY <1>2, <3>2, <3>3
  <2> HIDE DEF g
  <2> QED BY <1>5, <2>2, <2>3, <2>4 DEF AddsUpto
<1>7. Extend(AddStep(b, s[1]), t) = g[n - 1]
  <2> HIDE DEF g
  <2> QED BY <1>2, <1>5, <1>6, AddsAreExtend
<1>8. g[n - 1] = f[n]
  BY <1>1
<1> QED BY <1>1, <1>2, <1>4, <1>7, <1>8 DEF t

\* The first step of a sequence is left alone, unless a waiting step is to follow
\* it at once and it waits itself.
LEMMA AddBehind ==
    ASSUME NEW y \in StepType, NEW u \in Seq(StepType), NEW x \in StepType,
           ~y.idle \/ u # <<>>
    PROVE  AddStep(<<y>> \o u, x) = <<y>> \o AddStep(u, x)
<1> DEFINE v == <<y>> \o u
<1>1. v \in Seq(StepType) /\ Len(v) = Len(u) + 1 /\ Len(u) \in Nat /\ v # <<>> /\ v[1] = y
      /\ \A i \in 1 .. Len(u) : v[i + 1] = u[i]
  <2> HIDE DEF StepType
  <2> QED OBVIOUS
<1>2. CASE u = <<>>
  <2>1. v = <<y>> /\ Last(v) = y /\ AddStep(u, x) = <<x>>
    <3>1. <<y>> \o <<>> = <<y>> /\ <<y>>[Len(<<y>>)] = y
      OBVIOUS
    <3>2. AddStep(u, x) = <<x>>
      BY <1>2, AddTypes
    <3> QED BY <1>2, <3>1, <3>2 DEF Last
  <2>2. AddStep(v, x) = Append(v, x)
    BY <1>2, <2>1 DEF AddStep
  <2>3. Append(<<y>>, x) = <<y>> \o <<x>>
    OBVIOUS
  <2> QED BY <2>1, <2>2, <2>3
<1>3. CASE u # <<>>
  <2>1. Len(u) \in Nat \ {0}
    BY <1>3, EmptySeq
  <2>2. Last(v) = Last(u)
    BY <1>1, <2>1 DEF Last
  <2>3. CASE Last(u).idle /\ x.idle
    <3> DEFINE m == Merge(Last(u), x)
               w == Front(u)
    <3>1. w \in Seq(StepType) /\ Len(w) = Len(u) - 1 /\ \A i \in 1 .. Len(u) - 1 : w[i] = u[i]
      <4>1. 1 \in 1 .. Len(u) + 1 /\ Len(u) - 1 \in 1 - 1 .. Len(u) /\ Len(u) - 1 \in Nat
        BY <2>1
      <4> HIDE DEF StepType
      <4>2. SubSeq(u, 1, Len(u) - 1) = [i \in 1 .. Len(u) - 1 |-> u[i]]
        BY <4>1
      <4>3. \A i \in 1 .. Len(u) - 1 : u[i] \in StepType
        BY <4>1
      <4>4. SubSeq(u, 1, Len(u) - 1) \in Seq(StepType) /\ Len(SubSeq(u, 1, Len(u) - 1)) = Len(u) - 1
        <5> DEFINE k == Len(u) - 1
        <5>1. k \in Nat /\ 1 \in Int /\ k \in Int /\ \A i \in 1 .. k : u[i] \in StepType
          BY <4>1, <4>3
        <5> HIDE DEF k
        <5>2. SubSeq(u, 1, k) \in Seq(StepType)
              /\ Len(SubSeq(u, 1, k)) = IF 1 <= k THEN k - 1 + 1 ELSE 0
          BY <5>1, SubSeqProperties
        <5>3. Len(SubSeq(u, 1, k)) = k
          BY <5>1, <5>2
        <5> QED BY <5>2, <5>3 DEF k
      <4> QED BY <4>2, <4>4 DEF Front
    <3>2. Front(v) = <<y>> \o w
      <4> DEFINE z == Front(v)
      <4>1. z \in Seq(StepType) /\ Len(z) = Len(u) /\ \A i \in 1 .. Len(u) : z[i] = v[i]
        <5> HIDE DEF StepType, v
        <5> QED BY <1>1, <2>1 DEF Front
      <4> DEFINE q == <<y>> \o w
      <4>2. q \in Seq(StepType) /\ Len(q) = Len(u)
            /\ \A i \in 1 .. Len(u) : q[i] = IF i = 1 THEN y ELSE w[i - 1]
        <5> HIDE DEF StepType, w
        <5> QED BY <2>1, <3>1
      <4>3. ASSUME NEW i \in 1 .. Len(u)
            PROVE  z[i] = q[i]
        <5>1. CASE i = 1
          <6>1. q[i] = y
            <7> HIDE DEF w
            <7> QED BY <4>2, <5>1
          <6> HIDE DEF z, v, q
          <6> QED BY <1>1, <4>1, <5>1, <6>1
        <5>2. CASE i # 1
          <6>1. i - 1 \in 1 .. Len(u) - 1 /\ i - 1 \in 1 .. Len(u) /\ (i - 1) + 1 = i
            BY <2>1, <5>2
          <6>2. q[i] = w[i - 1]
            <7> HIDE DEF w
            <7> QED BY <4>2, <5>2
          <6> HIDE DEF z, v, w, q
          <6> QED BY <1>1, <3>1, <4>1, <5>2, <6>1, <6>2
        <5> QED BY <5>1, <5>2
      <4> HIDE DEF z, q, StepType
      <4>4. z = q
        BY <4>1, <4>2, <4>3, SeqEqual
      <4> QED BY <4>4 DEF z, q
    <3>3. m \in StepType
      <4>1. Last(u) \in StepType
        BY <2>1 DEF Last
      <4>2. Last(u).hold_cycles + x.hold_cycles \in Nat /\ CycleMod \in Nat \ {0}
        BY <4>1, DecodeAssumption DEF StepType, Cycles
      <4>3. (Last(u).hold_cycles + x.hold_cycles) % CycleMod \in Cycles
        BY <4>2, ModRange DEF Cycles
      <4> QED BY <4>1, <4>3 DEF StepType, Merge
    <3>4. AddStep(v, x) = Append(<<y>> \o w, m)
      BY <1>1, <2>2, <2>3, <3>2 DEF AddStep
    <3>5. AddStep(u, x) = Append(w, m)
      BY <1>3, <2>3 DEF AddStep
    <3>6. Append(<<y>> \o w, m) = <<y>> \o Append(w, m)
      <4> HIDE DEF StepType, w, m
      <4> QED BY <3>1, <3>3
    <3> QED BY <3>4, <3>5, <3>6
  <2>4. CASE ~(Last(u).idle /\ x.idle)
    <3>1. AddStep(v, x) = Append(v, x) /\ AddStep(u, x) = Append(u, x)
      BY <2>2, <2>4 DEF AddStep
    <3>2. Append(<<y>> \o u, x) = <<y>> \o Append(u, x)
      <4> HIDE DEF StepType
      <4> QED OBVIOUS
    <3> QED BY <3>1, <3>2
  <2> QED BY <2>3, <2>4
<1> QED BY <1>2, <1>3

\* So it is by more steps.
LEMMA ExtendBehind ==
    ASSUME NEW y \in StepType, NEW u \in Seq(StepType), NEW s \in Seq(StepType),
           ~y.idle \/ u # <<>>
    PROVE  /\ Extend(u, s) \in Seq(StepType)
           /\ Extend(<<y>> \o u, s) = <<y>> \o Extend(u, s)
<1> DEFINE n == Len(s)
<1>1. n \in Nat /\ \A i \in 1 .. n : s[i] \in StepType
  OBVIOUS
<1>2. PICK f : AddsUpto(f, u, s, n)
  BY AddsExist
<1>3. Extend(u, s) = f[n] /\ f[n] \in Seq(StepType)
  BY <1>1, <1>2, AddsAreExtend DEF AddsUpto
<1> DEFINE g == [i \in 0 .. n |-> <<y>> \o f[i]]
<1> HIDE DEF StepType, n
<1>4. \A i \in 0 .. n : <<y>> \o f[i] \in Seq(StepType)
  BY <1>2 DEF AddsUpto
<1>5. ASSUME NEW i \in 1 .. n
      PROVE  <<y>> \o f[i] = AddStep(<<y>> \o f[i - 1], s[i])
  <2>1. i - 1 \in 0 .. n /\ f[i - 1] \in Seq(StepType) /\ s[i] \in StepType
    BY <1>1, <1>2 DEF AddsUpto
  <2>2. ~y.idle \/ f[i - 1] # <<>>
    <3>1. CASE i = 1
      <4>1. i - 1 = 0 /\ f[0] = u
        BY <1>2, <3>1 DEF AddsUpto
      <4> QED BY <4>1
    <3>2. CASE i # 1
      <4>1. i - 1 \in 1 .. n /\ (i - 1) - 1 \in 0 .. n
        BY <1>1, <3>2
      <4>2. f[i - 1] = AddStep(f[(i - 1) - 1], s[i - 1]) /\ f[(i - 1) - 1] \in Seq(StepType)
            /\ s[i - 1] \in StepType
        BY <1>1, <1>2, <4>1 DEF AddsUpto
      <4> QED BY <4>2, AddTypes
    <3> QED BY <3>1, <3>2
  <2>3. f[i] = AddStep(f[i - 1], s[i])
    BY <1>2 DEF AddsUpto
  <2> DEFINE w == f[i - 1]
             e == s[i]
  <2>4. w \in Seq(StepType) /\ e \in StepType /\ (~y.idle \/ w # <<>>)
    BY <2>1, <2>2
  <2> HIDE DEF w, e
  <2>5. AddStep(<<y>> \o w, e) = <<y>> \o AddStep(w, e)
    BY <2>4, AddBehind, Zenon
  <2> QED BY <2>3, <2>5 DEF w, e
<1>6. AddsUpto(g, <<y>> \o u, s, n)
  <2>1. g \in [0 .. n -> Seq(StepType)]
    BY <1>4
  <2>2. g[0] = <<y>> \o u
    <3>1. 0 \in 0 .. n /\ f[0] = u
      BY <1>1, <1>2 DEF AddsUpto
    <3> QED BY <3>1
  <2>3. ASSUME NEW i \in 1 .. n PROVE g[i] = AddStep(g[i - 1], s[i])
    <3>1. i \in 0 .. n /\ i - 1 \in 0 .. n
      BY <1>1
    <3>2. g[i] = <<y>> \o f[i] /\ g[i - 1] = <<y>> \o f[i - 1]
      BY <3>1
    <3> QED BY <1>5, <3>2
  <2> HIDE DEF g
  <2> QED BY <2>1, <2>2, <2>3 DEF AddsUpto
<1>7. g[n] = <<y>> \o f[n] /\ <<y>> \o u \in Seq(StepType)
  BY <1>1
<1> HIDE DEF g
<1>8. Extend(<<y>> \o u, s) = g[n]
  BY <1>6, <1>7, AddsAreExtend DEF n
<1> QED BY <1>3, <1>7, <1>8

-----------------------------------------------------------------------------
(* The pipeline executes what it takes, in order. *)

\* The executor of the core speaks of the same steps.
LEMMA SameExtend == \A b, s : Executor!Extend(b, s) = Extend(b, s)
  BY DEF Executor!Extend, Extend, Executor!FoldLeft, FoldLeft, Executor!MapThenFoldSet,
     MapThenFoldSet, Executor!AddStep, AddStep, Executor!Merge, Merge, Executor!Max, Max,
     Executor!Last, Last, Executor!Front, Front

\* The executor of the core speaks of the same steps.
LEMMA SameSteps == \A a, insn : Executor!Steps(a, insn) = Steps(a, insn)
  BY DEF Executor!Steps, Steps

\* What the buffers hold, and what the iterate stage has still to give.
Buffered ==
    (IF ibuf.valid THEN <<IdleStep(ibuf)>> ELSE <<>>)
    \o (IF sbuf.valid THEN <<SpiStep(sbuf)>> ELSE <<>>)

Iterating == IF it.bubble THEN <<>> ELSE Steps(it.addr, Decoded(it))

\* The step in the iterate stage.
ItStep ==
    [addr |-> it.addr, iter |-> it.iters, spi_din |-> IF it.idle THEN 0 ELSE it.spi_din,
     strb_ldac |-> it.strb_ldac /\ ~it.idle, hold_cycles |-> it.hold_cycles,
     arm |-> it.arm, idle |-> it.idle]

\* What the buffers hold but for the step that goes to the hold stage.
Kept == IF S2H /\ Buffered # <<>> THEN Tail(Buffered) ELSE Buffered

\* A bubble is never taken for a waiting step.
OrderInv == CoreInv /\ (it.bubble => ~it.idle)

\* A remainder may be taken before a number is added.
LEMMA ModAdd ==
    ASSUME NEW a \in Nat, NEW b \in Nat, NEW m \in Nat \ {0}
    PROVE  ((a % m) + b) % m = (a + b) % m
<1> DEFINE r == a % m
           q == a \div m
           t == (r + b) % m
           p == (r + b) \div m
<1>1. a = m * q + r /\ q \in Nat /\ r \in 0 .. m - 1
  OBVIOUS
<1>2. r + b = m * p + t /\ p \in Nat /\ t \in 0 .. m - 1
  OBVIOUS
<1> HIDE DEF r, q, t, p
<1>3. a + b = m * (q + p) + t
  BY <1>1, <1>2
<1>4. q + p \in Nat
  BY <1>1, <1>2
<1>5. \A j \in Nat : (m * j + t) % m = t
  BY <1>2
<1>6. (a + b) % m = t
  BY <1>3, <1>4, <1>5
<1> QED BY <1>6 DEF r, t

\* The steps of an instruction are steps, one more than it iterates.
LEMMA StepsTypes ==
    ASSUME NEW a \in Address, NEW d, d.iters \in 0 .. IterMax, d.spi_din \in Nat,
           d.dspi_din \in Nat, d.strb_ldac \in BOOLEAN, d.hold_cycles \in Cycles,
           d.arm \in BOOLEAN, d.idle \in BOOLEAN
    PROVE  Steps(a, d) \in Seq(StepType) /\ Len(Steps(a, d)) = d.iters + 1
<1> DEFINE n == d.iters + 1
           x(k) == [addr |-> a, iter |-> d.iters - (k - 1),
                    spi_din |-> IF d.idle THEN 0 ELSE (d.spi_din + (k - 1) * d.dspi_din) % DacMod,
                    strb_ldac |-> d.strb_ldac /\ ~d.idle, hold_cycles |-> d.hold_cycles,
                    arm |-> d.arm /\ k = 1, idle |-> d.idle]
<1>1. n \in Nat \ {0}
  OBVIOUS
<1>2. ASSUME NEW k \in 1 .. n PROVE x(k) \in StepType
  <2>1. d.iters - (k - 1) \in 0 .. IterMax
    BY DecodeAssumption
  <2>2. (IF d.idle THEN 0 ELSE (d.spi_din + (k - 1) * d.dspi_din) % DacMod) \in 0 .. DacMod - 1
    <3>1. DacMod \in Nat \ {0} /\ k - 1 \in Nat
      BY DecodeAssumption
    <3>2. d.spi_din + (k - 1) * d.dspi_din \in Nat
      BY <3>1
    <3>3. (d.spi_din + (k - 1) * d.dspi_din) % DacMod \in 0 .. DacMod - 1
      BY <3>1, <3>2, ModRange
    <3> QED BY <3>1, <3>3
  <2>3. (d.strb_ldac /\ ~d.idle) \in BOOLEAN /\ (d.arm /\ k = 1) \in BOOLEAN
    OBVIOUS
  <2> QED BY <2>1, <2>2, <2>3 DEF StepType, IterNo, Code
<1>3. Steps(a, d) = [k \in 1 .. n |-> x(k)]
  BY DEF Steps
<1> HIDE DEF x, n, StepType
<1>4. Steps(a, d) \in [1 .. n -> StepType]
  BY <1>2, <1>3
<1>5. Steps(a, d) \in Seq(StepType)
  BY <1>1, <1>4, SeqDef
<1>6. DOMAIN Steps(a, d) = 1 .. n /\ DOMAIN Steps(a, d) = 1 .. Len(Steps(a, d))
      /\ Len(Steps(a, d)) \in Nat
  BY <1>4, <1>5, LenProperties
<1> QED BY <1>1, <1>5, <1>6 DEF n

\* The step in the iterate stage is the first of those it has to give.
LEMMA ItStepFirst ==
    ASSUME StageTypes, ~it.bubble
    PROVE  /\ Iterating \in Seq(StepType) /\ Len(Iterating) = it.iters + 1
           /\ Iterating # <<>> /\ Iterating[1] = ItStep /\ ItStep \in StepType
<1> DEFINE d == Decoded(it)
<1>1. /\ d.iters = it.iters /\ d.spi_din = it.spi_din /\ d.dspi_din = it.dspi_din
      /\ d.strb_ldac = it.strb_ldac /\ d.hold_cycles = it.hold_cycles /\ d.arm = it.arm
      /\ d.idle = it.idle
  BY DEF Decoded
<1>2. /\ it.addr \in Address /\ it.iters \in 0 .. IterMax /\ it.spi_din \in 0 .. DacMod - 1
      /\ it.dspi_din \in 0 .. DacMod - 1 /\ it.strb_ldac \in BOOLEAN
      /\ it.hold_cycles \in Cycles /\ it.arm \in BOOLEAN /\ it.idle \in BOOLEAN
  BY DEF StageTypes, PipeTypes
<1>3. Iterating = Steps(it.addr, d)
  BY DEF Iterating
<1> HIDE DEF d
<1>4. /\ d.iters \in 0 .. IterMax /\ d.spi_din \in Nat
      /\ d.dspi_din \in Nat /\ d.strb_ldac \in BOOLEAN /\ d.hold_cycles \in Cycles
      /\ d.arm \in BOOLEAN /\ d.idle \in BOOLEAN
  BY <1>1, <1>2, DecodeAssumption
<1>5. Iterating \in Seq(StepType) /\ Len(Iterating) = it.iters + 1
  BY <1>1, <1>2, <1>3, <1>4, StepsTypes
<1>6. Iterating # <<>> /\ 1 \in 1 .. it.iters + 1
  <2>1. Len(Iterating) # 0
    BY <1>2, <1>5
  <2>2. Len(<<>>) = 0
    OBVIOUS
  <2> QED BY <1>2, <2>1, <2>2
<1>7. Iterating[1] \in StepType
  <2> HIDE DEF StepType
  <2> QED BY <1>2, <1>5, <1>6
<1>8. Iterating[1] = ItStep
  <2>1. 1 \in 1 .. d.iters + 1
    BY <1>1, <1>6
  <2>2. d.iters - (1 - 1) = d.iters /\ (1 - 1) * d.dspi_din = 0 /\ d.spi_din + 0 = d.spi_din
    BY <1>4
  <2>3. d.spi_din % DacMod = d.spi_din
    BY <1>1, <1>2, DecodeAssumption
  <2>4. Steps(it.addr, d)[1] =
            [addr |-> it.addr, iter |-> d.iters - (1 - 1),
             spi_din |-> IF d.idle THEN 0 ELSE (d.spi_din + (1 - 1) * d.dspi_din) % DacMod,
             strb_ldac |-> d.strb_ldac /\ ~d.idle, hold_cycles |-> d.hold_cycles,
             arm |-> d.arm /\ 1 = 1, idle |-> d.idle]
    BY <2>1 DEF Steps
  <2>5. (d.arm /\ 1 = 1) = it.arm
    BY <1>1, <1>2
  <2> QED BY <1>1, <1>3, <2>2, <2>3, <2>4, <2>5 DEF ItStep
<1> QED BY <1>5, <1>6, <1>7, <1>8

\* Counting down gives the steps that are left.
LEMMA CountsDown ==
    ASSUME StageTypes, ~it.bubble, it.iters > 0, CountDown, StageTypes'
    PROVE  Iterating' = Tail(Iterating)
<1> DEFINE n == it.iters
           s == Iterating
           u == Iterating'
           y == it.spi_din
           e == it.dspi_din
<1>1. /\ n \in Nat \ {0} /\ it'.iters = n - 1 /\ it'.arm = FALSE /\ it'.addr = it.addr
      /\ it'.spi_din = (y + e) % DacMod /\ it'.dspi_din = e
      /\ it'.strb_ldac = it.strb_ldac /\ it'.hold_cycles = it.hold_cycles
      /\ it'.idle = it.idle /\ ~it'.bubble
  BY DEF StageTypes, PipeTypes, CountDown
<1>2. y \in Nat /\ e \in Nat /\ DacMod \in Nat \ {0}
  BY DecodeAssumption DEF StageTypes, PipeTypes
<1>3. s \in Seq(StepType) /\ Len(s) = n + 1
  BY ItStepFirst
<1>4. u \in Seq(StepType) /\ Len(u) = n
  <2>1. u \in Seq(StepType) /\ Len(u) = it'.iters + 1
    <3> DEFINE d == Decoded(it')
    <3>1. /\ it'.addr \in Address /\ d.iters = it'.iters
          /\ d.iters \in 0 .. IterMax /\ d.spi_din \in Nat
          /\ d.dspi_din \in Nat /\ d.strb_ldac \in BOOLEAN /\ d.hold_cycles \in Cycles
          /\ d.arm \in BOOLEAN /\ d.idle \in BOOLEAN
      BY <1>1, DecodeAssumption DEF StageTypes, PipeTypes, Decoded
    <3>2. u = Steps(it'.addr, d)
      BY <1>1 DEF Iterating
    <3> HIDE DEF d, u
    <3>3. Steps(it'.addr, d) \in Seq(StepType) /\ Len(Steps(it'.addr, d)) = d.iters + 1
      BY <3>1, StepsTypes
    <3> QED BY <3>1, <3>2, <3>3
  <2>2. it'.iters + 1 = n
    BY <1>1
  <2> QED BY <2>1, <2>2
<1> DEFINE t == Tail(s)
<1>5. t \in Seq(StepType) /\ Len(t) = n /\ \A k \in 1 .. n : t[k] = s[k + 1]
  <2> HIDE DEF StepType, s, n
  <2>1. Len(s) # 0 /\ Len(<<>>) = 0
    BY <1>1, <1>3
  <2>2. s # <<>>
    BY <2>1
  <2> QED BY <1>1, <1>3, <2>2
<1>6. ASSUME NEW k \in 1 .. n PROVE u[k] = t[k]
  <2>1. k + 1 \in 1 .. n + 1 /\ k \in 1 .. (n - 1) + 1 /\ (k + 1) - 1 = k /\ k + 1 # 1
        /\ (n - 1) - (k - 1) = n - k /\ n - ((k + 1) - 1) = n - k /\ k - 1 \in Nat /\ k \in Nat
    BY <1>1
  <2>2. s[k + 1] =
            [addr |-> it.addr, iter |-> n - ((k + 1) - 1),
             spi_din |-> IF it.idle THEN 0 ELSE (y + ((k + 1) - 1) * e) % DacMod,
             strb_ldac |-> it.strb_ldac /\ ~it.idle, hold_cycles |-> it.hold_cycles,
             arm |-> it.arm /\ k + 1 = 1, idle |-> it.idle]
    BY <2>1 DEF Iterating, Steps, Decoded
  <2>3. u[k] =
            [addr |-> it'.addr, iter |-> it'.iters - (k - 1),
             spi_din |-> IF it'.idle THEN 0 ELSE (it'.spi_din + (k - 1) * it'.dspi_din) % DacMod,
             strb_ldac |-> it'.strb_ldac /\ ~it'.idle, hold_cycles |-> it'.hold_cycles,
             arm |-> it'.arm /\ k = 1, idle |-> it'.idle]
    <3>1. k \in 1 .. it'.iters + 1
      BY <1>1, <2>1
    <3> QED BY <1>1, <3>1 DEF Iterating, Steps, Decoded
  <2>4. (((y + e) % DacMod) + (k - 1) * e) % DacMod = (y + ((k + 1) - 1) * e) % DacMod
    <3>1. (k - 1) * e \in Nat /\ y + e \in Nat
      BY <1>2, <2>1
    <3>2. (((y + e) % DacMod) + (k - 1) * e) % DacMod = ((y + e) + (k - 1) * e) % DacMod
      BY <1>2, <3>1, ModAdd
    <3>3. (y + e) + (k - 1) * e = y + k * e
      BY <1>2, <2>1
    <3> QED BY <2>1, <3>2, <3>3
  <2>5. (it.arm /\ k + 1 = 1) = FALSE /\ (it'.arm /\ k = 1) = FALSE
    BY <1>1, <2>1
  <2> HIDE DEF u, s, y, e, n
  <2>6. s[k + 1] = u[k]
    BY <1>1, <2>1, <2>2, <2>3, <2>4, <2>5
  <2> QED BY <1>5, <2>6
<1> HIDE DEF StepType, u, t, n
<1>7. u = t
  BY <1>4, <1>5, <1>6, SeqEqual
<1> QED BY <1>7 DEF u, t

\* The iterate stage keeps what it has, gives one step, or, with none left, takes
\* the steps of the next instruction.
LEMMA IterateGives ==
    ASSUME OrderInv, Iterate, StageTypes'
    PROVE  \/ ~I2S /\ Iterating' = Iterating
           \/ I2S /\ ~it.bubble /\ Iterating' = Tail(Iterating)
           \/ /\ I2S /\ (it.bubble \/ Tail(Iterating) = <<>>)
              /\ \E new \in Executor!Intake : Iterating' = new
<1>1. StageTypes
  BY DEF OrderInv, CoreInv
<1>2. CASE I2S /\ it.iters = 0
  <2>1. it.bubble \/ Tail(Iterating) = <<>>
    <3>1. CASE ~it.bubble
      <4>1. Iterating \in Seq(StepType) /\ Len(Iterating) = 1
        <5>1. it.iters + 1 = 1
          BY <1>2
        <5> QED BY <1>1, <3>1, <5>1, ItStepFirst
      <4> DEFINE s == Iterating
      <4> HIDE DEF StepType, s
      <4>2. Len(s) # 0 /\ Len(<<>>) = 0
        BY <4>1 DEF s
      <4>3. s # <<>>
        BY <4>2
      <4>4. Tail(s) \in Seq(StepType) /\ Len(Tail(s)) = 0
        BY <4>1, <4>3 DEF s
      <4>5. Tail(s) = <<>>
        BY <4>4, EmptySeq
      <4> QED BY <4>5 DEF s
    <3> QED BY <3>1
  <2>2. CASE Taken
    <3>1. /\ it' = [addr |-> addr, bubble |-> FALSE,
                    iters |-> Decode(offer).iters, spi_din |-> Decode(offer).spi_din,
                    dspi_din |-> Decode(offer).dspi_din, strb_ldac |-> Decode(offer).strb_ldac,
                    hold_cycles |-> Decode(offer).hold_cycles, arm |-> Decode(offer).arm,
                    idle |-> Decode(offer).idle]
          /\ offer \in Program /\ addr \in 0 .. AddrMod - 1
      BY <1>1, <2>2 DEF Iterate, Taken, Empty, StageTypes, PipeTypes
    <3>2. Decoded(it') = Decode(offer) /\ it'.addr = addr /\ ~it'.bubble
      BY <3>1 DEF Decoded, Decode
    <3>3. Iterating' = Executor!Steps(addr, Decode(offer))
      BY <3>2, SameSteps DEF Iterating
    <3>4. Executor!Steps(addr, Decode(offer)) \in Executor!Intake
      BY <3>1 DEF Executor!Intake
    <3> QED BY <1>2, <2>1, <3>3, <3>4
  <2>3. CASE ~Taken
    <3>1. Bubble
      BY <1>2, <2>3 DEF Iterate, Taken
    <3>2. Iterating' = <<>>
      BY <1>1, <3>1 DEF Bubble, Iterating, StageTypes, PipeTypes
    <3>3. <<>> \in Executor!Intake
      BY DEF Executor!Intake
    <3> QED BY <1>2, <2>1, <3>2, <3>3
  <2> QED BY <2>2, <2>3
<1>3. CASE I2S /\ it.iters # 0
  <2>1. it.iters > 0 /\ ~it.bubble
    BY <1>1, <1>3 DEF StageTypes, PipeTypes
  <2>2. CountDown
    BY <1>3 DEF Iterate, Taken
  <2> QED BY <1>1, <1>3, <2>1, <2>2, CountsDown
<1>4. CASE ~I2S
  <2>1. UNCHANGED it
    BY <1>4 DEF Iterate, Taken
  <2> QED BY <1>4, <2>1 DEF Iterating
<1> QED BY <1>2, <1>3, <1>4

\* The steps of the buffers have their types.
LEMMA BufferTypes ==
    ASSUME StageTypes
    PROVE  IdleStep(ibuf) \in StepType /\ SpiStep(sbuf) \in StepType
<1>1. IdleStep(ibuf) \in StepType
  BY DecodeAssumption DEF StageTypes, PipeTypes, IdleStep, StepType, Code
<1>2. SpiStep(sbuf) \in StepType
  BY DEF StageTypes, PipeTypes, SpiStep, StepType
<1> QED BY <1>1, <1>2

\* A frame that goes on leaves the step alone.
LEMMA ShiftKeepsStep ==
    ASSUME StageTypes, NEW done \in BOOLEAN, Shift(done)
    PROVE  sbuf'.valid = sbuf.valid /\ SpiStep(sbuf') = SpiStep(sbuf)
<1>1. CASE Delay
  BY <1>1 DEF Delay, StageTypes, PipeTypes, SpiStep
<1>2. CASE sbuf' = [sbuf EXCEPT !.spi_start = FALSE, !.cs_n = done, !.spi_done = done]
  BY <1>2 DEF StageTypes, PipeTypes, SpiStep
<1>3. CASE Rest
  <2> DEFINE c == IF sbuf.cs_up > 0 THEN sbuf.cs_up - 1 ELSE 0
             b == sbuf.cs_up <= 1
  <2>1. sbuf' = [sbuf EXCEPT !.cs_n = TRUE, !.done = b, !.cs_up = c]
    BY <1>3 DEF Rest
  <2> HIDE DEF b, c
  <2> QED BY <2>1 DEF StageTypes, PipeTypes, SpiStep
<1> QED BY <1>1, <1>2, <1>3, Zenon DEF Shift

\* Sequences of one and of two, and what a step added to them gives.
LEMMA ShortSequences ==
    ASSUME NEW x \in StepType, NEW y \in StepType
    PROVE  /\ <<x>> # <<>> /\ Tail(<<x>>) = <<>> /\ <<x>> \o <<>> = <<x>>
           /\ <<>> \o <<x>> = <<x>> /\ <<x>>[1] = x /\ Head(<<x>>) = x
           /\ <<x>> \o <<y>> # <<>> /\ Tail(<<x>> \o <<y>>) = <<y>>
           /\ Head(<<x>> \o <<y>>) = x
           /\ AddStep(<<>>, y) = <<y>>
           /\ ~y.idle => AddStep(<<x>>, y) = <<x>> \o <<y>>
           /\ x.idle /\ y.idle => AddStep(<<x>>, y) = <<Merge(x, y)>>
<1> HIDE DEF StepType
<1>1. /\ <<x>> # <<>> /\ Tail(<<x>>) = <<>> /\ <<x>> \o <<>> = <<x>>
      /\ <<>> \o <<x>> = <<x>> /\ <<x>>[1] = x /\ Head(<<x>>) = x
  OBVIOUS
<1>2. Tail(<<x>> \o <<y>>) = <<y>> /\ Head(<<x>> \o <<y>>) = x
  <2> DEFINE z == <<y>>
  <2>1. z \in Seq(StepType)
    OBVIOUS
  <2> HIDE DEF z
  <2>2. Tail(<<x>> \o z) = z /\ Head(<<x>> \o z) = x
    BY <2>1
  <2> QED BY <2>2 DEF z
<1>3. <<x>> \o <<y>> # <<>>
  <2>1. Len(<<x>> \o <<y>>) = 2 /\ Len(<<>>) = 0
    OBVIOUS
  <2> QED BY <2>1
<1>4. AddStep(<<>>, y) = <<y>>
  <2>1. <<>> \in Seq(StepType)
    OBVIOUS
  <2> QED BY <2>1, AddTypes
<1>5. Last(<<x>>) = x /\ Front(<<x>>) = <<>>
  BY DEF Last, Front
<1>6. Append(<<x>>, y) = <<x>> \o <<y>>
  OBVIOUS
<1>7. ~y.idle => AddStep(<<x>>, y) = <<x>> \o <<y>>
  BY <1>6 DEF AddStep
<1>8. x.idle /\ y.idle => AddStep(<<x>>, y) = <<Merge(x, y)>>
  <2>1. Append(<<>>, Merge(x, y)) = <<Merge(x, y)>>
    OBVIOUS
  <2> QED BY <1>1, <1>5, <2>1 DEF AddStep
<1> QED BY <1>1, <1>2, <1>3, <1>4, <1>7, <1>8

\* Only the hold count of a step changes.
LEMMA SetsHold ==
    ASSUME NEW r \in StepType, NEW k
    PROVE  [r EXCEPT !.hold_cycles = k]
           = [addr |-> r.addr, iter |-> r.iter, spi_din |-> r.spi_din, strb_ldac |-> r.strb_ldac,
              hold_cycles |-> k, arm |-> r.arm, idle |-> r.idle]
  BY DEF StepType

\* A clock moves the step of the iterate stage into the buffers, behind or into
\* what is left there.
LEMMA BuffersTake ==
    ASSUME OrderInv, NEW done \in BOOLEAN, SpiBuffer(done), IdleBuffer
    PROVE  Buffered' = IF I2S /\ ~it.bubble THEN AddStep(Kept, ItStep) ELSE Kept
<1> DEFINE i == IdleStep(ibuf)
           s == SpiStep(sbuf)
           x == ItStep
<1>1. StageTypes /\ (it.bubble => ~it.idle)
  BY DEF OrderInv, CoreInv
<1>2. i \in StepType /\ s \in StepType
  BY <1>1, BufferTypes
<1>3. ~it.bubble => x \in StepType
  BY <1>1, ItStepFirst
<1>4. ibuf.valid \in BOOLEAN /\ sbuf.valid \in BOOLEAN /\ i.idle /\ (x.idle <=> it.idle)
  BY <1>1 DEF IdleStep, ItStep, StageTypes, PipeTypes
<1>5. /\ ibuf.valid /\ sbuf.valid => Buffered = <<i>> \o <<s>>
      /\ ibuf.valid /\ ~sbuf.valid => Buffered = <<i>>
      /\ ~ibuf.valid /\ sbuf.valid => Buffered = <<s>>
      /\ ~ibuf.valid /\ ~sbuf.valid => Buffered = <<>>
  <2>1. <<>> \o <<>> = <<>>
    OBVIOUS
  <2> QED BY <1>2, <2>1, ShortSequences DEF Buffered
<1>a. ~ibuf.valid /\ sbuf.valid => Buffered # <<>> /\ Tail(Buffered) = <<>>
  <2>1. <<s>> # <<>> /\ Tail(<<s>>) = <<>>
    BY <1>2, ShortSequences, Zenon
  <2> QED BY <1>5, <2>1
<1>6. Shift(done) => sbuf'.valid = sbuf.valid /\ SpiStep(sbuf') = s
  BY <1>1, ShiftKeepsStep
<1>7. CASE ~I2S
  <2>1. sbuf.valid /\ (S2H => ibuf.valid)
    BY <1>7 DEF I2S
  <2>2. sbuf'.valid /\ SpiStep(sbuf') = s
    BY <1>6, <1>7, <2>1 DEF SpiBuffer
  <2>3. CASE S2H
    <3>1. ~ibuf'.valid
      BY <1>1, <1>7, <2>1, <2>3 DEF IdleBuffer, StageTypes, PipeTypes
    <3>2. Buffered' = <<s>>
      BY <1>2, <2>2, <3>1, ShortSequences DEF Buffered
    <3>3. Kept = <<s>>
      <4> HIDE DEF i, s
      <4>1. <<i>> \o <<s>> # <<>> /\ Tail(<<i>> \o <<s>>) = <<s>>
        BY <1>2, ShortSequences
      <4> QED BY <1>5, <2>1, <2>3, <4>1, Zenon DEF Kept
    <3> QED BY <1>7, <3>2, <3>3
  <2>4. CASE ~S2H
    <3>1. UNCHANGED ibuf
      BY <1>7, <2>4 DEF IdleBuffer
    <3>2. Buffered' = Buffered
      BY <2>1, <2>2, <3>1 DEF Buffered
    <3> QED BY <1>7, <2>4, <3>2 DEF Kept
  <2> QED BY <2>3, <2>4
<1>8. CASE I2S /\ it.bubble
  <2>1. ~it.idle /\ ~sbuf'.valid
    BY <1>1, <1>8 DEF SpiBuffer, EmptySbuf
  <2>2. CASE sbuf.valid
    <3>1. ~ibuf.valid /\ S2H /\ UNCHANGED ibuf
      BY <1>8, <2>1, <2>2 DEF I2S, IdleBuffer
    <3>2. Buffered' = <<>> /\ Kept = <<>>
      <4>1. <<>> \o <<>> = <<>>
        OBVIOUS
      <4> QED BY <1>2, <1>5, <2>1, <2>2, <3>1, <4>1, ShortSequences DEF Buffered, Kept
    <3> QED BY <1>8, <3>2
  <2>3. CASE ~sbuf.valid /\ S2H
    <3>1. ~ibuf'.valid
      BY <1>1, <1>8, <2>1, <2>3 DEF IdleBuffer, StageTypes, PipeTypes
    <3>2. Buffered' = <<>> /\ Kept = <<>>
      <4>1. <<>> \o <<>> = <<>>
        OBVIOUS
      <4> QED BY <1>2, <1>4, <1>5, <2>1, <2>3, <3>1, <4>1, ShortSequences DEF Buffered, Kept
    <3> QED BY <1>8, <3>2
  <2>4. CASE ~sbuf.valid /\ ~S2H
    <3>1. UNCHANGED ibuf
      BY <1>8, <2>1, <2>4 DEF IdleBuffer
    <3>2. Buffered' = Buffered
      BY <2>1, <2>4, <3>1 DEF Buffered
    <3> QED BY <1>8, <2>4, <3>2 DEF Kept
  <2> QED BY <2>2, <2>3, <2>4
<1>9. CASE I2S /\ ~it.bubble /\ ~it.idle
  <2>1. sbuf'.valid /\ SpiStep(sbuf') = x
    <3>1. /\ sbuf'.valid /\ sbuf'.addr = it.addr /\ sbuf'.iter = it.iters
          /\ sbuf'.spi_din = it.spi_din /\ sbuf'.strb_ldac = it.strb_ldac
          /\ sbuf'.hold_cycles = it.hold_cycles /\ sbuf'.arm = it.arm
      BY <1>9 DEF SpiBuffer
    <3>2. (it.strb_ldac /\ ~it.idle) = it.strb_ldac /\ it.idle = FALSE
      BY <1>1, <1>9 DEF StageTypes, PipeTypes
    <3> QED BY <3>1, <3>2 DEF SpiStep, ItStep
  <2>2. CASE sbuf.valid
    <3>1. ~ibuf.valid /\ S2H /\ UNCHANGED ibuf
      BY <1>9, <2>2 DEF I2S, IdleBuffer
    <3>2. Buffered' = <<x>>
      BY <1>3, <1>9, <2>1, <3>1, ShortSequences DEF Buffered
    <3>3. Kept = <<>>
      BY <1>a, <2>2, <3>1 DEF Kept
    <3>4. AddStep(<<>>, x) = <<x>>
      BY <1>3, <1>9, ShortSequences
    <3> QED BY <1>9, <3>2, <3>3, <3>4
  <2>3. CASE ~sbuf.valid /\ ibuf.valid
    <3>1. ~S2H /\ UNCHANGED ibuf
      BY <1>9, <2>3 DEF S2H, IdleBuffer
    <3>2. Buffered' = <<i>> \o <<x>>
      BY <2>1, <2>3, <3>1 DEF Buffered
    <3>3. Kept = <<i>>
      BY <1>5, <2>3, <3>1 DEF Kept
    <3>4. AddStep(<<i>>, x) = <<i>> \o <<x>>
      BY <1>2, <1>3, <1>4, <1>9, ShortSequences
    <3> QED BY <1>9, <3>2, <3>3, <3>4
  <2>4. CASE ~sbuf.valid /\ ~ibuf.valid
    <3>1. UNCHANGED ibuf
      BY <1>9, <2>4 DEF IdleBuffer
    <3>2. Buffered' = <<x>>
      BY <1>3, <1>9, <2>1, <2>4, <3>1, ShortSequences DEF Buffered
    <3>3. Kept = <<>>
      BY <1>5, <2>4 DEF Kept
    <3>4. AddStep(<<>>, x) = <<x>>
      BY <1>3, <1>9, ShortSequences
    <3> QED BY <1>9, <3>2, <3>3, <3>4
  <2> QED BY <1>4, <2>2, <2>3, <2>4
<1>10. CASE I2S /\ ~it.bubble /\ it.idle
  <2>1. CASE sbuf.valid
    <3>1. ~ibuf.valid /\ S2H
      BY <1>10, <2>1 DEF I2S
    <3>2. ~sbuf'.valid
      <4>1. sbuf' = [sbuf EXCEPT !.valid = FALSE, !.arm = FALSE, !.delay = 0, !.cs_up = 0,
                                 !.cs_n = TRUE, !.spi_done = TRUE, !.done = TRUE]
        BY <1>10, <2>1, <3>1, Zenon DEF SpiBuffer
      <4> QED BY <1>1, <4>1 DEF StageTypes, PipeTypes
    <3>3. ibuf'.valid /\ IdleStep(ibuf') = x
      <4>1. ibuf' = [valid |-> TRUE, addr |-> it.addr, iter |-> it.iters,
                     hold_cycles |-> it.hold_cycles, arm |-> it.arm]
        BY <1>10, <3>1 DEF IdleBuffer
      <4>2. (it.strb_ldac /\ ~it.idle) = FALSE /\ it.idle = TRUE
        BY <1>1, <1>10 DEF StageTypes, PipeTypes
      <4> QED BY <4>1, <4>2 DEF IdleStep, ItStep
    <3>4. Buffered' = <<x>>
      BY <1>3, <1>10, <3>2, <3>3, ShortSequences DEF Buffered
    <3>5. Kept = <<>>
      BY <1>a, <2>1, <3>1 DEF Kept
    <3>6. AddStep(<<>>, x) = <<x>>
      BY <1>3, <1>10, ShortSequences
    <3> QED BY <1>10, <3>4, <3>5, <3>6
  <2>2. CASE ~sbuf.valid /\ ibuf.valid
    <3>1. ~S2H
      BY <1>10, <2>2 DEF S2H
    <3>2. ~sbuf'.valid
      BY <1>6, <1>10, <2>2, <3>1 DEF SpiBuffer
    <3>3. ibuf'.valid /\ IdleStep(ibuf') = Merge(i, x)
      <4> DEFINE k == (ibuf.hold_cycles + it.hold_cycles) % CycleMod
      <4>1. ibuf' = [ibuf EXCEPT !.hold_cycles = k]
        BY <1>10, <2>2 DEF IdleBuffer
      <4>2. Merge(i, x) = [i EXCEPT !.hold_cycles = k]
        BY DEF Merge, IdleStep, ItStep
      <4> HIDE DEF k
      <4>3. /\ ibuf'.valid = ibuf.valid /\ ibuf'.addr = ibuf.addr /\ ibuf'.iter = ibuf.iter
            /\ ibuf'.arm = ibuf.arm /\ ibuf'.hold_cycles = k
        BY <1>1, <4>1 DEF StageTypes, PipeTypes
      <4> DEFINE y == [addr |-> ibuf.addr, iter |-> ibuf.iter, spi_din |-> 0, strb_ldac |-> FALSE,
                       hold_cycles |-> k, arm |-> ibuf.arm, idle |-> TRUE]
      <4>4. IdleStep(ibuf') = y
        BY <4>3 DEF IdleStep
      <4>5. [i EXCEPT !.hold_cycles = k] = y
        <5>1. /\ i.addr = ibuf.addr /\ i.iter = ibuf.iter /\ i.spi_din = 0 /\ i.strb_ldac = FALSE
              /\ i.arm = ibuf.arm /\ i.idle = TRUE
          BY DEF IdleStep
        <5> HIDE DEF i
        <5>2. [i EXCEPT !.hold_cycles = k]
              = [addr |-> i.addr, iter |-> i.iter, spi_din |-> i.spi_din, strb_ldac |-> i.strb_ldac,
                 hold_cycles |-> k, arm |-> i.arm, idle |-> i.idle]
          BY <1>2, SetsHold
        <5> QED BY <5>1, <5>2, Zenon
      <4> QED BY <2>2, <4>2, <4>3, <4>4, <4>5
    <3>4. Buffered' = <<Merge(i, x)>>
      <4>1. <<Merge(i, x)>> \o <<>> = <<Merge(i, x)>>
        OBVIOUS
      <4> QED BY <3>2, <3>3, <4>1 DEF Buffered
    <3>5. Kept = <<i>>
      BY <1>5, <2>2, <3>1 DEF Kept
    <3>6. AddStep(<<i>>, x) = <<Merge(i, x)>>
      BY <1>2, <1>3, <1>4, <1>10, ShortSequences
    <3> QED BY <1>10, <3>4, <3>5, <3>6
  <2>3. CASE ~sbuf.valid /\ ~ibuf.valid
    <3>1. ~sbuf'.valid
      BY <1>6, <1>10, <2>3 DEF SpiBuffer
    <3>2. ibuf'.valid /\ IdleStep(ibuf') = x
      <4>1. ibuf' = [valid |-> TRUE, addr |-> it.addr, iter |-> it.iters,
                     hold_cycles |-> it.hold_cycles, arm |-> it.arm]
        BY <1>10, <2>3 DEF IdleBuffer
      <4>2. (it.strb_ldac /\ ~it.idle) = FALSE /\ it.idle = TRUE
        BY <1>1, <1>10 DEF StageTypes, PipeTypes
      <4> QED BY <4>1, <4>2 DEF IdleStep, ItStep
    <3>3. Buffered' = <<x>>
      BY <1>3, <1>10, <3>1, <3>2, ShortSequences DEF Buffered
    <3>4. Kept = <<>>
      BY <1>5, <2>3 DEF Kept
    <3>5. AddStep(<<>>, x) = <<x>>
      BY <1>3, <1>10, ShortSequences
    <3> QED BY <1>10, <3>3, <3>4, <3>5
  <2> QED BY <1>4, <2>1, <2>2, <2>3
<1> QED BY <1>1, <1>7, <1>8, <1>9, <1>10

\* Steps extended by steps are steps.
LEMMA ExtendTypes ==
    ASSUME NEW b \in Seq(StepType), NEW s \in Seq(StepType)
    PROVE  Extend(b, s) \in Seq(StepType)
<1>1. PICK f : AddsUpto(f, b, s, Len(s))
  BY AddsExist
<1>2. Len(s) \in 0 .. Len(s)
  OBVIOUS
<1> HIDE DEF StepType
<1> QED BY <1>1, <1>2, AddsAreExtend DEF AddsUpto

\* The step that goes to the hold stage is the oldest, has its start if it is armed,
\* and no waiting step is to follow it that would have been gathered into it.
LEMMA OldestLeaves ==
    ASSUME OrderInv, ObserveHold, S2H
    PROVE  \/ Buffered = <<>> /\ step' = None
           \/ \E y \in StepType, u \in Seq(StepType) :
                /\ Buffered = <<y>> \o u /\ Kept = u /\ step' = y
                /\ y.arm => start
                /\ ~y.idle \/ u # <<>> \/ Iterating = <<>>
<1> DEFINE i == IdleStep(ibuf)
           s == SpiStep(sbuf)
<1>1. StageTypes
  BY DEF OrderInv, CoreInv
<1>2. i \in StepType /\ s \in StepType
  BY <1>1, BufferTypes
<1>3. i.arm = ibuf.arm /\ s.arm = sbuf.arm /\ s.idle = FALSE
  BY DEF IdleStep, SpiStep
<1>4. step' = IF ibuf.valid THEN i ELSE IF sbuf.valid THEN s ELSE None
  BY DEF ObserveHold
<1> HIDE DEF i, s
<1>5. /\ <<i>> # <<>> /\ Tail(<<i>>) = <<>> /\ <<i>> \o <<>> = <<i>>
      /\ <<s>> # <<>> /\ Tail(<<s>>) = <<>> /\ <<s>> \o <<>> = <<s>> /\ <<>> \o <<s>> = <<s>>
      /\ <<i>> \o <<s>> # <<>> /\ Tail(<<i>> \o <<s>>) = <<s>>
  BY <1>2, ShortSequences
<1>6. <<>> \in Seq(StepType) /\ <<s>> \in Seq(StepType)
  <2> HIDE DEF StepType
  <2> QED BY <1>2
<1>7. CASE ibuf.valid /\ sbuf.valid
  <2>1. Buffered = <<i>> \o <<s>>
    BY <1>7 DEF Buffered, i, s
  <2>2. Kept = <<s>>
    BY <1>5, <2>1 DEF Kept
  <2>3. step' = i /\ (i.arm => start)
    BY <1>3, <1>4, <1>7 DEF S2H, Released
  <2> QED BY <1>2, <1>5, <1>6, <2>1, <2>2, <2>3
<1>8. CASE ibuf.valid /\ ~sbuf.valid
  <2>1. Buffered = <<i>> \o <<>>
    BY <1>8 DEF Buffered, i
  <2>2. Kept = <<>>
    BY <1>5, <2>1 DEF Kept
  <2>3. step' = i /\ (i.arm => start) /\ Iterating = <<>>
    BY <1>3, <1>4, <1>8 DEF S2H, Released, Iterating
  <2> QED BY <1>2, <1>6, <2>1, <2>2, <2>3
<1>9. CASE ~ibuf.valid /\ sbuf.valid
  <2>1. Buffered = <<s>> \o <<>>
    BY <1>5, <1>9 DEF Buffered, s
  <2>2. Kept = <<>>
    BY <1>5, <2>1 DEF Kept
  <2>3. step' = s /\ (s.arm => start)
    BY <1>3, <1>4, <1>9 DEF S2H, Released
  <2> QED BY <1>2, <1>3, <1>6, <2>1, <2>2, <2>3
<1>10. CASE ~ibuf.valid /\ ~sbuf.valid
  <2>1. <<>> \o <<>> = <<>>
    OBVIOUS
  <2> QED BY <1>4, <1>10, <2>1 DEF Buffered
<1>11. ibuf.valid \in BOOLEAN /\ sbuf.valid \in BOOLEAN
  BY <1>1 DEF StageTypes, PipeTypes
<1> QED BY <1>7, <1>8, <1>9, <1>10, <1>11

\* What the buffers keep are steps.
LEMMA KeptTypes ==
    ASSUME StageTypes
    PROVE  Buffered \in Seq(StepType) /\ Kept \in Seq(StepType) /\ Iterating \in Seq(StepType)
<1> DEFINE i == IdleStep(ibuf)
           s == SpiStep(sbuf)
           b == Buffered
<1>1. i \in StepType /\ s \in StepType
  BY BufferTypes
<1>2. Iterating \in Seq(StepType)
  <2>1. CASE it.bubble
    <3> HIDE DEF StepType
    <3> QED BY <2>1 DEF Iterating
  <2>2. CASE ~it.bubble
    BY <2>2, ItStepFirst
  <2> QED BY <2>1, <2>2
<1> HIDE DEF i, s, StepType
<1>3. (IF ibuf.valid THEN <<i>> ELSE <<>>) \in Seq(StepType)
      /\ (IF sbuf.valid THEN <<s>> ELSE <<>>) \in Seq(StepType)
  BY <1>1
<1>4. b \in Seq(StepType)
  BY <1>3 DEF Buffered, i, s
<1> HIDE DEF b
<1>5. b # <<>> => Tail(b) \in Seq(StepType)
  BY <1>4
<1>6. Kept \in Seq(StepType)
  BY <1>4, <1>5, Zenon DEF Kept, b
<1> QED BY <1>2, <1>4, <1>6 DEF b

\* What is in flight behind the step that leaves grows by the steps of at most one
\* instruction.
LEMMA FlightGrows ==
    ASSUME OrderInv, StageTypes', NEW done \in BOOLEAN, Clock(done)
    PROVE  /\ Extend(Kept, Iterating) \in Seq(StepType)
           /\ \E new \in Executor!Intake : InFlight' = Extend(Extend(Kept, Iterating), new)
<1> DEFINE P == Extend(Kept, Iterating)
<1>1. StageTypes
  BY DEF OrderInv, CoreInv
<1>2. Kept \in Seq(StepType) /\ Iterating \in Seq(StepType) /\ P \in Seq(StepType)
  BY <1>1, KeptTypes, ExtendTypes
<1>3. Buffered' = IF I2S /\ ~it.bubble THEN AddStep(Kept, ItStep) ELSE Kept
  BY BuffersTake DEF Clock
<1>4. InFlight' = Extend(Buffered', Iterating')
  BY DEF InFlight, Buffered, Iterating
<1>5. <<>> \in Executor!Intake
  BY DEF Executor!Intake
<1>6. ~it.bubble => P = Extend(AddStep(Kept, ItStep), Tail(Iterating))
                    /\ AddStep(Kept, ItStep) \in Seq(StepType)
  <2>1. ASSUME ~it.bubble
        PROVE  Iterating # <<>> /\ Iterating[1] = ItStep /\ ItStep \in StepType
    BY <1>1, <2>1, ItStepFirst
  <2> QED BY <1>2, <2>1, ExtendFirst, AddTypes
<1>7. Extend(P, <<>>) = P
  BY <1>2, ExtendNone
<1> HIDE DEF P
<1>8. CASE ~I2S /\ Iterating' = Iterating
  <2>1. InFlight' = P
    BY <1>3, <1>4, <1>8 DEF P
  <2> QED BY <1>2, <1>5, <1>7, <2>1 DEF P
<1>9. CASE I2S /\ ~it.bubble /\ Iterating' = Tail(Iterating)
  <2>1. InFlight' = P
    BY <1>3, <1>4, <1>6, <1>9
  <2> QED BY <1>2, <1>5, <1>7, <2>1 DEF P
<1>10. CASE /\ I2S /\ (it.bubble \/ Tail(Iterating) = <<>>)
            /\ \E new \in Executor!Intake : Iterating' = new
  <2>1. Buffered' = P
    <3>1. CASE it.bubble
      <4>1. Iterating = <<>> /\ Buffered' = Kept
        BY <1>3, <3>1 DEF Iterating
      <4>2. Extend(Kept, <<>>) = Kept
        BY <1>2, ExtendNone
      <4> QED BY <4>1, <4>2 DEF P
    <3>2. CASE ~it.bubble
      <4>1. Tail(Iterating) = <<>> /\ Buffered' = AddStep(Kept, ItStep)
        BY <1>3, <1>10, <3>2
      <4>2. Extend(AddStep(Kept, ItStep), <<>>) = AddStep(Kept, ItStep)
        BY <1>6, <3>2, ExtendNone
      <4> QED BY <1>6, <3>2, <4>1, <4>2
    <3> QED BY <3>1, <3>2
  <2> QED BY <1>2, <1>4, <1>10, <2>1 DEF P
<1>11. Iterate
  BY DEF Clock
<1> QED BY <1>8, <1>9, <1>10, <1>11, IterateGives

\* A clock edge is a step of the executor.
LEMMA ClockExecutes ==
    ASSUME OrderInv, StageTypes', NEW done \in BOOLEAN, Clock(done), ObserveHold
    PROVE  Executor!Next
<1> DEFINE P == Extend(Kept, Iterating)
<1>1. StageTypes
  BY DEF OrderInv, CoreInv
<1>2. P \in Seq(StepType) /\ Kept \in Seq(StepType) /\ Iterating \in Seq(StepType)
  BY <1>1, FlightGrows, KeptTypes
<1>3. \E new \in Executor!Intake : InFlight' = Executor!Extend(P, new)
  BY FlightGrows, SameExtend
<1>4. InFlight = Extend(Buffered, Iterating)
  BY DEF InFlight, Buffered, Iterating
<1>5. start' \in BOOLEAN
  BY DEF Clock
<1> HIDE DEF P
<1>6. ASSUME Kept = Buffered, step' \in {step, None}
      PROVE  Executor!Wait
  <2>1. InFlight = P
    BY <1>4, <1>6 DEF P
  <2> QED BY <1>3, <1>6, <2>1 DEF Executor!Wait
<1>7. CASE ~S2H
  <2>1. Kept = Buffered /\ step' = step
    BY <1>7 DEF Kept, ObserveHold
  <2> QED BY <1>5, <1>6, <2>1 DEF Executor!Next
<1>8. CASE S2H /\ Buffered = <<>> /\ step' = None
  <2>1. Kept = Buffered
    BY <1>8 DEF Kept
  <2> QED BY <1>5, <1>6, <1>8, <2>1 DEF Executor!Next
<1>9. ASSUME NEW y \in StepType, NEW u \in Seq(StepType),
             Buffered = <<y>> \o u, Kept = u, step' = y, y.arm => start,
             ~y.idle \/ u # <<>> \/ Iterating = <<>>
      PROVE  Executor!Execute
  <2>1. InFlight = <<y>> \o P
    <3>1. CASE ~y.idle \/ u # <<>>
      <4>1. Extend(<<y>> \o u, Iterating) = <<y>> \o Extend(u, Iterating)
        <5>1. y \in StepType /\ u \in Seq(StepType) /\ Iterating \in Seq(StepType)
          BY <1>2, <1>9, Zenon
        <5> HIDE DEF StepType, P
        <5> QED BY ONLY <3>1, <5>1, ExtendBehind
      <4> QED BY <1>4, <1>9, <4>1 DEF P
    <3>2. CASE Iterating = <<>>
      <4>1. <<y>> \o u \in Seq(StepType)
        <5> HIDE DEF StepType
        <5> QED BY <1>9
      <4>2. Extend(<<y>> \o u, <<>>) = <<y>> \o u /\ Extend(u, <<>>) = u
        BY <4>1, ExtendNone
      <4> QED BY <1>4, <1>9, <3>2, <4>2 DEF P
    <3> QED BY <1>9, <3>1, <3>2
  <2>2. <<y>> \o P # <<>> /\ Head(<<y>> \o P) = y /\ Tail(<<y>> \o P) = P
    <3> HIDE DEF StepType
    <3>1. Len(<<y>> \o P) = 1 + Len(P) /\ Len(P) \in Nat /\ Len(<<>>) = 0
      BY <1>2
    <3>2. <<y>> \o P # <<>>
      BY <3>1
    <3> QED BY <1>2, <3>2
  <2>3. InFlight # <<>> /\ Head(InFlight) = y /\ Tail(InFlight) = P
    BY <2>1, <2>2
  <2> QED BY <1>3, <1>9, <2>3 DEF Executor!Execute
<1>10. CASE S2H
  BY <1>5, <1>8, <1>9, <1>10, OldestLeaves DEF Executor!Next
<1> QED BY <1>7, <1>10

\* The iterate stage never takes a bubble for a waiting step.
LEMMA BubbleStep ==
    ASSUME OrderInv, Iterate
    PROVE  it'.bubble => ~it'.idle
<1>1. StageTypes /\ (it.bubble => ~it.idle)
  BY DEF OrderInv, CoreInv
<1>2. CASE Taken
  BY <1>2 DEF Iterate, Taken
<1>3. CASE Bubble
  BY <1>1, <1>3 DEF Bubble, StageTypes, PipeTypes
<1>4. CASE CountDown
  BY <1>1, <1>4 DEF CountDown, StageTypes, PipeTypes
<1>5. CASE UNCHANGED it
  BY <1>1, <1>5
<1>6. Taken \/ Bubble \/ CountDown \/ UNCHANGED it
  BY Zenon DEF Iterate
<1> QED BY <1>2, <1>3, <1>4, <1>5, <1>6

\* Every instruction taken is unrolled into its steps, and they are executed once,
\* in program order, an armed one on a start pulse: whatever the program, the widths,
\* the control settings, the times of frames, starts and offers (dc_core.sv).
THEOREM CoreExecutesInOrder == ObservedSpec => ExecutesInOrder
<1>1. ObservedInit => OrderInv /\ Executor!Init
  <2> SUFFICES ASSUME ObservedInit PROVE OrderInv /\ Executor!Init
    OBVIOUS
  <2>1. it.bubble /\ ~it.idle /\ ~ibuf.valid /\ ~sbuf.valid /\ start = FALSE /\ step = None
    BY DEF ObservedInit, Init, EmptySbuf
  <2>2. <<>> \o <<>> = <<>> /\ <<>> \in Seq(StepType)
    OBVIOUS
  <2>3. InFlight = <<>>
    BY <2>1, <2>2, ExtendNone DEF InFlight
  <2> QED BY <2>1, <2>3, CoreInit DEF OrderInv, Executor!Init
<1>2. OrderInv /\ [ObservedNext]_allvars => OrderInv' /\ [Executor!Next]_(Executor!vars)
  <2> SUFFICES ASSUME OrderInv, [ObservedNext]_allvars
               PROVE  OrderInv' /\ [Executor!Next]_(Executor!vars)
    OBVIOUS
  <2>1. CoreInv'
    BY CoreStep DEF OrderInv
  <2>2. CASE ObservedNext
    <3>1. PICK done \in BOOLEAN : Clock(done) /\ ObserveHold
      BY <2>2 DEF ObservedNext
    <3>2. it'.bubble => ~it'.idle
      BY <3>1, BubbleStep DEF Clock
    <3>3. StageTypes'
      BY <2>1 DEF CoreInv
    <3>4. Executor!Next
      BY <3>1, <3>3, ClockExecutes
    <3> QED BY <2>1, <3>2, <3>4 DEF OrderInv
  <2>3. CASE UNCHANGED allvars
    <3>1. UNCHANGED <<it, sbuf, ibuf, start, step>>
      BY <2>3 DEF allvars, vars, observer
    <3>2. InFlight' = InFlight
      BY <3>1 DEF InFlight
    <3> QED BY <2>1, <3>1, <3>2 DEF OrderInv, Executor!vars
  <2> QED BY <2>2, <2>3
<1> QED BY <1>1, <1>2, PTL DEF ObservedSpec, ExecutesInOrder, Executor!Spec

-----------------------------------------------------------------------------
(* The core wired to the launcher. *)

\* No instruction of the programs is an armed idle.
ArmsSpiOnly == \A w \in Program : w.idle => ~w.arm /\ ~w.sticky_arm

\* The start line is the launcher's register, no waiting step is armed, and a frame
\* that is over stays over.
WiredInv ==
    /\ PipeTypes
    /\ trigger = FALSE /\ (start <=> Self \in dc_start)
    /\ ~ibuf.arm /\ (it.idle => ~it.arm)
    /\ sbuf.done => sbuf.delay = 0 /\ sbuf.spi_done /\ sbuf.cs_up = 0

\* The channels that wait.
Waiting == IF Waits THEN {Self} ELSE {}

\* The iterate stage makes no armed waiting step.
LEMMA NoArmedIdle ==
    ASSUME ArmsSpiOnly, WiredInv, Iterate, IdleBuffer
    PROVE  ~ibuf'.arm /\ (it'.idle => ~it'.arm)
<1>1. PipeTypes /\ ~ibuf.arm /\ (it.idle => ~it.arm)
  BY DEF WiredInv
<1>2. it'.idle => ~it'.arm
  <2>1. CASE Taken
    <3>1. offer \in Program
      BY <1>1, <2>1 DEF Taken, Empty, PipeTypes
    <3>2. it'.idle = offer.idle /\ it'.arm = (offer.arm \/ offer.sticky_arm)
      BY <2>1 DEF Iterate, Taken, Decode
    <3> QED BY <3>1, <3>2 DEF ArmsSpiOnly
  <2>2. CASE Bubble
    BY <1>1, <2>2 DEF Bubble, PipeTypes
  <2>3. CASE CountDown
    BY <1>1, <2>3 DEF CountDown, PipeTypes
  <2>4. CASE UNCHANGED it
    BY <1>1, <2>4
  <2>5. Taken \/ Bubble \/ CountDown \/ UNCHANGED it
    BY Zenon DEF Iterate
  <2> QED BY <2>1, <2>2, <2>3, <2>4, <2>5
<1>3. ~ibuf'.arm
  <2>1. CASE ibuf' = [ibuf EXCEPT !.hold_cycles = (@ + it.hold_cycles) % CycleMod]
    BY <1>1, <2>1 DEF PipeTypes
  <2>2. CASE it.idle /\ ibuf' = [valid |-> TRUE, addr |-> it.addr, iter |-> it.iters,
                                 hold_cycles |-> it.hold_cycles, arm |-> it.arm]
    BY <1>1, <2>2
  <2>3. CASE ibuf' = [ibuf EXCEPT !.valid = FALSE]
    BY <1>1, <2>3 DEF PipeTypes
  <2>4. CASE UNCHANGED ibuf
    BY <1>1, <2>4
  <2> QED BY <2>1, <2>2, <2>3, <2>4, Zenon DEF IdleBuffer
<1> QED BY <1>2, <1>3

\* A step that waits with its frame over leaves only on a start pulse.
LEMMA WaitsForStart ==
    ASSUME WiredInv, NEW done \in BOOLEAN, SpiBuffer(done)
    PROVE  /\ Waits /\ ~Waits' => start
           /\ sbuf'.done => sbuf'.delay = 0 /\ sbuf'.spi_done /\ sbuf'.cs_up = 0
<1>1. PipeTypes /\ (sbuf.done => sbuf.delay = 0 /\ sbuf.spi_done /\ sbuf.cs_up = 0)
  BY DEF WiredInv
<1>2. CASE sbuf' = EmptySbuf /\ I2S
  BY <1>2 DEF EmptySbuf, Waits, I2S, S2H, Released
<1>3. CASE I2S /\ sbuf' = [valid |-> TRUE, addr |-> it.addr, iter |-> it.iters,
                   spi_din |-> it.spi_din,
                   strb_ldac |-> it.strb_ldac, hold_cycles |-> it.hold_cycles, arm |-> it.arm,
                   delay |-> ctrl.delay, cs_up |-> ctrl.cs_up, cs_n |-> TRUE,
                   spi_start |-> TRUE, spi_done |-> FALSE, done |-> FALSE]
  BY <1>3 DEF Waits, I2S, S2H, Released
<1>4. CASE /\ S2H /\ ~ibuf.valid /\ sbuf.valid
           /\ sbuf' = [sbuf EXCEPT !.valid = FALSE, !.arm = FALSE, !.delay = 0, !.cs_up = 0,
                                   !.cs_n = TRUE, !.spi_done = TRUE, !.done = TRUE]
  BY <1>1, <1>4 DEF Waits, S2H, Released, PipeTypes
<1>5. CASE Shift(done)
  <2>1. CASE sbuf.delay > 0 /\ Delay
    BY <1>1, <2>1 DEF Waits, Delay, PipeTypes
  <2>2. CASE /\ sbuf.delay = 0 /\ ~sbuf.spi_done
             /\ sbuf' = [sbuf EXCEPT !.spi_start = FALSE, !.cs_n = done, !.spi_done = done]
    BY <1>1, <2>2 DEF Waits, PipeTypes
  <2>3. CASE sbuf.delay = 0 /\ sbuf.spi_done /\ Rest
    <3>1. /\ sbuf'.valid = sbuf.valid /\ sbuf'.arm = sbuf.arm /\ sbuf'.delay = 0 /\ sbuf'.spi_done
          /\ sbuf'.done <=> sbuf.cs_up <= 1
          /\ sbuf'.cs_up = IF sbuf.cs_up > 0 THEN sbuf.cs_up - 1 ELSE 0
      BY <1>1, <2>3 DEF Rest, PipeTypes
    <3>2. sbuf.cs_up \in Nat
      BY <1>1 DEF PipeTypes
    <3> QED BY <1>1, <3>1, <3>2 DEF Waits
  <2> QED BY <1>5, <2>1, <2>2, <2>3, Zenon DEF Shift
<1> QED BY <1>2, <1>3, <1>4, <1>5, Zenon DEF SpiBuffer

\* o_armed follows the wait by a clock.
LEMMA ArmedFollows ==
    ASSUME WiredInv, Armed
    PROVE  ArmedLines' = Waiting
<1>1. ~ibuf.arm
  BY DEF WiredInv
<1>2. armed' <=> Waits
  BY <1>1 DEF Armed, Waits
<1> QED BY <1>2 DEF ArmedLines, Waiting

\* In a clock the core does what a channel may do.
LEMMA CoreSurrounds ==
    ASSUME ArmsSpiOnly, WiredInv, Core
    PROVE  View!Surroundings /\ WiredInv'
<1>1. PICK done \in BOOLEAN : Clock(done)
  BY DEF Core
<1>2. SpiBuffer(done) /\ Iterate /\ IdleBuffer /\ Armed
  BY <1>1 DEF Clock
<1>3. WiredInv'
  <2>1. PipeTypes'
    BY <1>1, PipeTypesStep DEF WiredInv
  <2>2. trigger' = FALSE /\ (start' <=> Self \in dc_start')
    BY DEF Core, WiredInv
  <2> QED BY <1>2, <2>1, <2>2, NoArmedIdle, WaitsForStart DEF WiredInv
<1>4. Waits /\ ~Waits' => Self \in dc_start
  BY <1>2, WaitsForStart DEF WiredInv
<1> DEFINE started == IF Waits /\ ~Waits' THEN {Self} ELSE {}
           loaded  == IF Waits' /\ ~Waits THEN {Self} ELSE {}
<1>5. started \in SUBSET dc_start /\ loaded \in SUBSET (Channel \ Waiting)
  BY <1>4, SelfAssumption DEF Waiting
<1>6. Waiting' = (Waiting \ started) \union loaded /\ ArmedLines' = Waiting
  BY <1>2, ArmedFollows DEF Waiting
<1> HIDE DEF started, loaded
<1>7. View!Channels(started, loaded)
  BY <1>6 DEF View!Channels, Waiting
<1>8. trigger' \in BOOLEAN
  BY <1>3 DEF WiredInv
<1> QED BY <1>3, <1>5, <1>7, <1>8 DEF View!Surroundings, Waiting

\* The reset state is one of a channel.
LEMMA WiredStarts ==
    WiredInit => WiredInv /\ View!Init
<1> SUFFICES ASSUME WiredInit PROVE WiredInv /\ View!Init
  OBVIOUS
<1>1. /\ 0 \in 0 .. AddrMod - 1 /\ 0 \in 0 .. IterMax /\ 0 \in Cycles
      /\ None \in Address /\ None \in IterNo /\ None \in Code
  BY AddrAssumption, DecodeAssumption DEF Address, IterNo, Code, Cycles
<1>2. PipeTypes
  BY <1>1 DEF WiredInit, Init, EmptySbuf, EmptyHold, PipeTypes
<1>3. WiredInv
  <2>1. start = FALSE /\ dc_start = {} /\ trigger = FALSE
    BY DEF WiredInit, Init, LaunchInit
  <2>2. start <=> Self \in dc_start
    BY <2>1
  <2>3. ~ibuf.arm /\ ~it.arm
    BY DEF WiredInit, Init
  <2>4. sbuf.delay = 0 /\ sbuf.spi_done /\ sbuf.cs_up = 0
    BY DEF WiredInit, Init, EmptySbuf
  <2> QED BY <1>2, <2>1, <2>2, <2>3, <2>4 DEF WiredInv
<1>4. View!Init
  BY DEF WiredInit, Init, LaunchInit, EmptySbuf, Waits, ArmedLines, View!Init, View!LaunchInit
<1> QED BY <1>3, <1>4

\* So is every step.
LEMMA WiredStep ==
    ASSUME ArmsSpiOnly, WiredInv, [WiredNext]_wired
    PROVE  WiredInv' /\ [View!Next]_(View!vars)
<1> USE DEF View!Tick, View!NewCtrl, View!Clear, View!Lines, View!AllReady, View!DcReady,
            View!NextState, View!LaunchesLeft, Tick, NewCtrl, Clear, Lines, AllReady, DcReady,
            NextState, LaunchesLeft
<1>1. CASE ClockEdge
  <2>1. View!Surroundings /\ WiredInv'
    BY <1>1, CoreSurrounds DEF ClockEdge
  <2>2. View!Clock
    BY <1>1, <2>1 DEF ClockEdge, View!Clock
  <2> QED BY <2>1, <2>2 DEF View!Next
<1>2. CASE HostLaunch
  <2>1. View!Surroundings /\ WiredInv'
    BY <1>2, CoreSurrounds DEF HostLaunch
  <2>2. View!HostLaunch
    BY <1>2, <2>1 DEF HostLaunch, View!HostLaunch
  <2> QED BY <2>1, <2>2 DEF View!Next
<1>3. CASE HostClear
  <2>1. View!Surroundings /\ WiredInv'
    BY <1>3, CoreSurrounds DEF HostClear
  <2>2. View!HostClear
    BY <1>3, <2>1 DEF HostClear, View!HostClear
  <2> QED BY <2>1, <2>2 DEF View!Next
<1>4. CASE UNCHANGED wired
  BY <1>4 DEF wired, vars, launcher, WiredInv, PipeTypes, View!vars, View!launcher, Waits, ArmedLines
<1> QED BY <1>1, <1>2, <1>3, <1>4 DEF WiredNext

\* With programs whose armed steps are SPI steps the core, wired to the launcher,
\* does only what the launcher's properties assume of a channel: o_armed follows an
\* armed step by a clock, and the step leaves only with a start pulse, for every
\* such program, control setting, order of frames and pace of the host (dc_core.sv,
\* launch.sv as processor.sv wires them).
THEOREM CoreAlwaysChannel == ArmsSpiOnly => (WiredSpec => CoreIsChannel)
<1> SUFFICES ASSUME ArmsSpiOnly PROVE WiredSpec => CoreIsChannel
  OBVIOUS
<1>1. WiredInit => WiredInv /\ View!Init
  BY WiredStarts
<1>2. WiredInv /\ [WiredNext]_wired => WiredInv' /\ [View!Next]_(View!vars)
  BY WiredStep
<1> QED BY <1>1, <1>2, PTL DEF WiredSpec, CoreIsChannel

\* The launcher's proof, for this channel.
Chan == INSTANCE LaunchProofs WITH
    waiting <- IF Waits THEN {Self} ELSE {},
    armed <- ArmedLines

\* So a start pulse of the launcher finds the core with an armed step, shifted and
\* ready, and the launches decided and left are those the host has asked for.
THEOREM StartFindsCore ==
    ArmsSpiOnly => (WiredSpec => []((start => Waits) /\ View!LaunchesAddUp))
<1> SUFFICES ASSUME ArmsSpiOnly
             PROVE  WiredSpec => []((start => Waits) /\ View!LaunchesAddUp)
  OBVIOUS
<1> DEFINE I == WiredInv /\ Chan!LaunchInv
<1>1. WiredInit => I
  <2>1. View!Init => Chan!Init
    BY DEF View!Init, View!LaunchInit, Chan!Init, Chan!LaunchInit
  <2> QED BY <2>1, WiredStarts, Chan!LaunchInit_Inv, MaxItersAssumption, GapAssumption
<1>2. I /\ [WiredNext]_wired => I'
  <2> SUFFICES ASSUME I, [WiredNext]_wired PROVE I'
    OBVIOUS
  <2>1. WiredInv' /\ [View!Next]_(View!vars)
    BY WiredStep
  <2>2. [Chan!Next]_(Chan!vars)
    BY <2>1, Zenon DEF View!Next, View!vars, View!launcher, View!Clock, View!HostLaunch,
       View!HostClear, View!Surroundings, View!Channels, View!Tick, View!NewCtrl, View!Clear,
       View!Lines, View!AllReady, View!DcReady, View!NextState, View!LaunchesLeft,
       Chan!Next, Chan!vars, Chan!launcher, Chan!Clock, Chan!HostLaunch,
       Chan!HostClear, Chan!Surroundings, Chan!Channels, Chan!Tick, Chan!NewCtrl, Chan!Clear,
       Chan!Lines, Chan!AllReady, Chan!DcReady, Chan!NextState, Chan!LaunchesLeft
  <2> QED BY <2>1, <2>2, Chan!LaunchNext_Inv, MaxItersAssumption, GapAssumption
<1>3. I => (start => Waits) /\ View!LaunchesAddUp
  BY DEF WiredInv, Chan!LaunchInv, Chan!SettleInv, Chan!StartFindsStep, Chan!CountInv,
         View!LaunchesAddUp
<1> QED BY <1>1, <1>2, <1>3, PTL DEF WiredSpec
=============================================================================
