----------------------------- MODULE SquishMain -----------------------------
(***************************************************************************)
(* Invocations of asm/squish.py with -f, -c, -x and -r, and the board they *)
(* write to.  An invocation parses its file, and sends what it has read    *)
(* one command after another; it may be killed in between.  Behind it the  *)
(* program of a channel may be read back.  What earlier invocations have   *)
(* left on the board is anything: registers of any value, strobes that are *)
(* still high, other programs in the memories.  Channels are at rest: one  *)
(* that runs ignores a start (SerialSequencer), and nothing of the tool    *)
(* looks whether it does.                                                  *)
(*                                                                         *)
(* A command takes effect at once here.  That a strobe gives one pulse     *)
(* with the registers as the host has set them, and that the parts of a    *)
(* word are read whole, is HostSessions.                                   *)
(***************************************************************************)
EXTENDS SquishOps

CONSTANT IterMod   \* 2^ITER_WIDTH of the sequencers; the tool takes more bits (MAX_REPEAT)

ASSUME IterAssumption == IterMod \in Nat \ {0}

VARIABLES
    todo,      \* commands that are still to be sent
    clearing,  \* the invocation has option -c
    regs,      \* the register file
    mem,       \* the program memory of each channel
    ctrl,      \* the control registers each channel has applied
    runs,      \* what the channels have been started with, in order
    launches,  \* what the launcher has been given since its last clear
    depth,     \* what each channel has latched of DEPTH
    insn_rd,   \* the word latched for reading
    reading,   \* the channel that is read back
    answers,   \* the parts of a word that have been read
    printed    \* the instructions that have been printed

board == <<regs, mem, ctrl, runs, launches, depth, insn_rd>>
reader == <<reading, answers, printed>>
vars == <<parsing, todo, clearing, board, reader>>

Channels == 0 .. NumDcChannel - 1
Strobes  == {"CTRL_STRB", "IST_STRB", "START_STRB", "LCH_STRB", "LCH_CLR", "ILD_STRB"}
Values   == CtrlRegs \cup {"IST_ADDR", "IST_LO", "IST_MID", "IST_HI", "ITERS", "DEPTH",
                           "LCH_TRIG", "LCH_ITERS"} \cup Range(MarkerRegs)
Regs     == Strobes \cup Values \cup {"LCH_MASK"}

\* A value of an earlier session.
Stale == -1

\* All strobes are high, or all are low: none depends on another one.
Leftover(high) ==
    [r \in Regs |-> IF r \in Strobes THEN IF high THEN Channels ELSE {}
                    ELSE IF r = "LCH_MASK" THEN Channels ELSE Stale]

StaleMemory == [c \in Channels |-> [a \in 0 .. Depth - 1 |-> Stale]]
StaleDepth  == [c \in Channels |-> Stale]
StaleCtrl   == [c \in Channels |-> [r \in CtrlRegs |-> Stale]]

Init ==
    /\ AsmInit
    /\ todo = <<>> /\ clearing = FALSE
    /\ regs = Leftover(FALSE) /\ mem = StaleMemory /\ ctrl = StaleCtrl
    /\ runs = <<>> /\ launches = <<>> /\ depth = StaleDepth /\ insn_rd = Stale
    /\ reading = 0 /\ answers = <<>> /\ printed = <<>>

-----------------------------------------------------------------------------
(* The board. *)

\* Strobes act on the channels whose bit rises.
Rising(c) == c.data \ regs[c.reg]

Word == FromRegs(<<regs["IST_LO"], regs["IST_MID"], regs["IST_HI"]>>)

\* Every channel applies all four registers.
ApplyCtrl(c) ==
    /\ c.reg = "CTRL_STRB"
    /\ ctrl' = [ch \in Channels |-> IF ch \in Rising(c) THEN [r \in CtrlRegs |-> regs[r]] ELSE ctrl[ch]]
    /\ UNCHANGED <<mem, runs, launches, depth, insn_rd>>

StoreInsn(c) ==
    /\ c.reg = "IST_STRB"
    /\ mem' = [ch \in Channels |-> IF ch \in Rising(c) THEN [mem[ch] EXCEPT ![regs["IST_ADDR"]] = Word]
                                   ELSE mem[ch]]
    /\ UNCHANGED <<ctrl, runs, launches, depth, insn_rd>>

\* A run, with the words it is going to deliver.  Of the repetition it takes the low bits.
Run(ch) == [channel |-> ch, iters |-> regs["ITERS"] % IterMod, ctrl |-> ctrl[ch],
            words |-> [k \in 1 .. regs["DEPTH"] + 1 |-> mem[ch][k - 1]]]

StartChannels(c) ==
    /\ c.reg = "START_STRB"
    /\ runs' = runs \o SetToSeq({Run(ch) : ch \in Rising(c)})
    /\ depth' = [ch \in Channels |-> IF ch \in Rising(c) THEN regs["DEPTH"] ELSE depth[ch]]
    /\ UNCHANGED <<mem, ctrl, launches, insn_rd>>

\* The launcher takes a bit for each channel and a whole word of launches.
NewControl(c) ==
    /\ c.reg = "LCH_STRB"
    /\ launches' = IF Rising(c) = {} THEN launches
                   ELSE Append(launches, [mask |-> regs["LCH_MASK"] \cap Channels,
                                          trig |-> regs["LCH_TRIG"], iters |-> regs["LCH_ITERS"],
                                          after |-> Len(runs)])
    /\ UNCHANGED <<mem, ctrl, runs, depth, insn_rd>>

ClearLaunches(c) ==
    /\ c.reg = "LCH_CLR"
    /\ launches' = IF Rising(c) = {} THEN launches ELSE <<>>
    /\ UNCHANGED <<mem, ctrl, runs, depth, insn_rd>>

LatchWord(c) ==
    /\ c.reg = "ILD_STRB"
    /\ insn_rd' = IF Rising(c) = {} THEN insn_rd ELSE mem[Max(Rising(c))][regs["IST_ADDR"]]
    /\ UNCHANGED <<mem, ctrl, runs, launches, depth>>

SetValue(c) ==
    /\ c.reg \notin Strobes
    /\ UNCHANGED <<mem, ctrl, runs, launches, depth, insn_rd>>

Write(c) ==
    /\ regs' = [regs EXCEPT ![c.reg] = c.data]
    /\ \/ ApplyCtrl(c) \/ StoreInsn(c) \/ StartChannels(c) \/ NewControl(c)
       \/ ClearLaunches(c) \/ LatchWord(c) \/ SetValue(c)

-----------------------------------------------------------------------------
(* Invocations. *)

\* With -f the file is read, with -c alone there is nothing to read.
Invoke ==
    /\ mode = "SHELL"
    /\ mode' \in {"TOP", "DONE"}
    /\ UNCHANGED <<file, line, prog, programs, launch, todo, clearing, board, reader>>

\* Nothing has been sent.
ExitFailed ==
    /\ mode = "FAILED"
    /\ mode' = "SHELL" /\ file' = <<>> /\ line' = <<>>
    /\ prog' = NewProgram(0) /\ programs' = <<>> /\ launch' = <<>>
    /\ UNCHANGED <<todo, clearing, board, reader>>

\* The board is as earlier sessions have left it.
Connect ==
    /\ mode = "DONE"
    /\ clearing' \in BOOLEAN
    /\ todo' = SendOps(programs, launch, clearing')
    /\ \E high \in BOOLEAN : regs' = Leftover(high)
    /\ mode' = "SENDING" /\ file' = <<>> /\ prog' = NewProgram(0)
    /\ UNCHANGED <<line, programs, launch, mem, ctrl, runs, launches, depth, insn_rd, reader>>

SendNext ==
    /\ mode = "SENDING" /\ todo # <<>>
    /\ Write(Head(todo)) /\ todo' = Tail(todo)
    /\ UNCHANGED <<parsing, clearing, reader>>

Named == {programs[k].channel : k \in DOMAIN programs}

\* An invocation with -r.
OpenReading ==
    /\ mode = "SENDING" /\ todo = <<>>
    /\ mode' = "READING" /\ reading' \in Named
    /\ UNCHANGED <<file, line, prog, programs, launch, todo, clearing, board, answers, printed>>

AskPart(p) == [reg |-> "ASK", data |-> p]

ReadOps(a) ==
    <<Set("IST_ADDR", a), Set("ILD_STRB", {reading}), AskPart(1), AskPart(2), AskPart(3),
      Set("ILD_STRB", {})>>

\* Fault: the depth is taken for the number of instructions.
AskDepthShort ==
    /\ mode = "READING" /\ todo = <<>> /\ printed = <<>>
    /\ todo' = <<Set("ILD_STRB", {})>> \o FlattenSeq([k \in 1 .. depth[reading] |-> ReadOps(k - 1)])
    /\ UNCHANGED <<parsing, clearing, board, reader>>

\* The depth that is read gives the number of words.
AskDepth ==
    /\ mode = "READING" /\ todo = <<>> /\ printed = <<>>
    /\ todo' = <<Set("ILD_STRB", {})>> \o FlattenSeq([k \in 1 .. depth[reading] + 1 |-> ReadOps(k - 1)])
    /\ UNCHANGED <<parsing, clearing, board, reader>>

\* The third part completes a word, which is decoded and printed.
ReadPart(c) ==
    LET w == Append(answers, WordParts(insn_rd)[c.data])
    IN  /\ c.reg = "ASK"
        /\ IF Len(w) < 3 THEN answers' = w /\ UNCHANGED printed
           ELSE answers' = <<>> /\ printed' = Append(printed, DecodeInsn(FromRegs(w)))
        /\ UNCHANGED board

ReadNext ==
    /\ mode = "READING" /\ todo # <<>>
    /\ \/ ReadPart(Head(todo))
       \/ Head(todo).reg # "ASK" /\ Write(Head(todo)) /\ UNCHANGED <<answers, printed>>
    /\ todo' = Tail(todo)
    /\ UNCHANGED <<parsing, clearing, reading>>

\* The session is over, or killed.
Disconnect ==
    /\ mode \in {"SENDING", "READING"}
    /\ mode' = "SHELL" /\ todo' = <<>> /\ clearing' = FALSE
    /\ programs' = <<>> /\ launch' = <<>>
    /\ regs' = Leftover(FALSE) /\ mem' = StaleMemory /\ ctrl' = StaleCtrl
    /\ runs' = <<>> /\ launches' = <<>> /\ depth' = StaleDepth /\ insn_rd' = Stale
    /\ reading' = 0 /\ answers' = <<>> /\ printed' = <<>>
    /\ UNCHANGED <<file, line, prog>>

Parse == ParseStep /\ UNCHANGED <<todo, clearing, board, reader>>

Next ==
    \/ Invoke \/ Parse \/ ExitFailed \/ Connect \/ SendNext
    \/ OpenReading \/ AskDepth \/ ReadNext \/ Disconnect

Spec == Init /\ [][Next]_vars

-----------------------------------------------------------------------------

\* A field of an instruction as the number it is in the word.
Number(insn, f) ==
    IF f \in {"strb_ldac", "modify", "arm", "sticky_arm", "idle", "marker"}
    THEN Bit(insn[f]) ELSE insn[f]

\* What is read back of a stored instruction is the instruction (decode_insn()).
WordsReadBack ==
    \A k \in DOMAIN prog.insns : DecodeInsn(FromRegs(ToRegs(prog.insns[k]))) = prog.insns[k]

\* The fields lie where the core looks for them (dc_insn_t).
FieldsInPlace ==
    \A k \in DOMAIN prog.insns : \A f \in DOMAIN PackedFields :
        PackedField(FromRegs(ToRegs(prog.insns[k])), f) = Number(prog.insns[k], PackedFields[f].name)

\* What the tool stores of an instruction through three registers is the
\* instruction, for the tool that reads it back (decode_insn()) and for the core,
\* which takes its fields from dc_insn_t.
WordsCarryInstruction == WordsReadBack /\ FieldsInPlace

ParsingInsn(op) == mode = "INSNS" /\ Is("insn") /\ line[1].insn.op \in op

\* The codes an instruction of the DAC register gives, as the core unrolls it.
Codes(insn) ==
    LET steps == Steps(0, Decode([insn EXCEPT !.spi_din = @ % DacMod]))
    IN  [n \in DOMAIN steps |-> CodeSigned(steps[n].spi_din)]

\* The codes begin at the first voltage, climb or fall in even steps, and the
\* accumulator never wraps.  They reach the second voltage and exceed it by less
\* than a code per step, unless one code more per step would leave the range.
ClimbsTo(l, codes) ==
    LET k1 == VoltToSigned(l.v1)  k2 == VoltToSigned(l.v2)  steps == l.n - 1
        up == k2 >= k1
        dv == codes[2] - codes[1]
        last == codes[l.n]
    IN  /\ Len(codes) = l.n /\ codes[1] = k1
        /\ \A n \in 1 .. steps : codes[n + 1] = codes[n] + dv
        /\ IF up THEN dv >= 0 /\ (last >= k2 \/ k1 + (dv + 1) * steps > KMax) /\ last - k2 < steps
           ELSE dv <= 0 /\ (last <= k2 \/ k1 + (dv - 1) * steps < KMin) /\ k2 - last < steps

\* A sweep climbs from one voltage to the other, through the assembler
\* (parse_swp()) and the core that adds the delta.  One that is too steep for the
\* delta field is rejected, and the number of levels that the message asks for is
\* the least that is accepted.
SweepClimbs ==
    ParsingInsn({"swp"}) =>
        LET l == line[1].insn
            with(n) == SwpAccepted([l EXCEPT !.n = n])
        IN  SwpInRange(l) /\ HoldAccepted(l.t) =>
                IF SwpAccepted(l) THEN ClimbsTo(l, Codes(ParseSwp(l)))
                ELSE /\ ~with(SwpAdvice(l) - 1)
                     /\ SwpAdvice(l) <= IterMax + 1 => with(SwpAdvice(l))

\* A voltage that can be printed as it is written.
Printable(v) == v % Digit = 0

\* Codes that rounding a voltage to the last digit printed may cost: half a digit
\* and half a code.
Rounding == (Digit * (DacMod - 1) + 2 * VMax) \div (4 * VMax)

\* How far a field may come back from what these voltages gave.
Slack(voltages) ==
    IF \A v \in voltages : Printable(v) THEN {0} ELSE -Rounding .. Rounding

CodeOf(insn) == CodeSigned(insn.spi_din % DacMod)
StepOf(insn) == DeltaSigned(insn.delta)

\* Two instructions are the same but for the code and the delta.
SameButVolts(a, b) ==
    /\ [b EXCEPT !.spi_din = a.spi_din, !.delta = a.delta] = a
    /\ b.spi_din \div DacMod = a.spi_din \div DacMod

\* The first code of a sweep comes back like any other.  The last code is off by as
\* much, so that all steps together are off by twice that and the rounding up to a
\* whole step.
SweepNear(l, a, b) ==
    /\ SameButVolts(a, b)
    /\ CodeOf(b) - CodeOf(a) \in Slack({l.v1})
    /\ LET most == a.iters + 2 * Rounding - 1
       IN  (StepOf(b) - StepOf(a)) * a.iters \in -most .. most
    /\ Printable(l.v1) /\ Printable(l.v2) => StepOf(b) - StepOf(a) \in -1 .. 1

\* A sweep with a step so near to the largest that the rounding may exceed it.
NearlyTooSteep(l, a) ==
    \E largest \in {-DeltaMax, DeltaMax} :
        /\ LET most == 2 * Rounding - 1
           IN  (StepOf(a) - largest) * a.iters \in -most .. most
        /\ Printable(l.v1) /\ Printable(l.v2) => StepOf(a) = largest

\* The line printed of an instruction (format_insn()) assembles again, and to the
\* same instruction but for its voltages.  A voltage that can be printed as it is
\* written comes back in its code, be it a level or an option "v+"; one written
\* more finely, in a code that half a digit may be away.  A sweep keeps its first
\* code and its number of levels likewise; its step may come back off, by what
\* SweepNear says, and the line may be rejected, but only if the step was at the
\* largest one or within the rounding of it.  Left out are a strobed set of the DAC
\* register, which prints as a level, and ful, which says what no other mnemonic can.
PrintedReassembles ==
    ParsingInsn({"swp", "lvl", "set", "get", "nop"}) /\ Accepted(line[1].insn) =>
        LET l     == line[1].insn
            insn  == Assemble(l)
            again == FormatInsn(insn)
            back  == Assemble(again)
        IN  CASE l.op = "swp" ->
                     IF Accepted(again) THEN SweepNear(l, insn, back) ELSE NearlyTooSteep(l, insn)
              [] l.op = "set" /\ l.reg = "dr" /\ "ldc" \in l.opts.flags -> TRUE
              [] OTHER ->
                     /\ Accepted(again) /\ SameButVolts(insn, back)
                     /\ CodeOf(back) - CodeOf(insn) \in Slack(IF l.op = "lvl" THEN {l.v} ELSE {})
                     /\ StepOf(back) - StepOf(insn) \in Slack(Range(l.opts.vplus))

-----------------------------------------------------------------------------

\* The run the k-th program asks for.  Of its repetition the sequencer has the low
\* bits: the parser accepts more than it can count.  Control registers the program
\* leaves out are those of whoever set them last.
Starts(k, run) ==
    LET p == programs[k]
    IN  /\ run.channel = p.channel /\ run.iters = p.repeat % IterMod
        /\ run.words = [i \in DOMAIN p.insns |-> Encode(p.insns[i])]
        /\ \A r \in CtrlRegs : p.ctrl[r] # <<>> => run.ctrl[r] = p.ctrl[r][1]

\* The launch asked for, with the channels that are on the board.
Launched(l, lch) ==
    /\ lch.mask = l.dc_chmask \cap Channels
    /\ lch.trig = Bit(l.use_trigger) /\ lch.iters = l.iters % RegMod

MarkersSet(l) ==
    l.marker_sels # <<>> =>
        \A m \in DOMAIN l.marker_sels[1] : regs[MarkerRegs[m]] = l.marker_sels[1][m]

\* Whatever earlier sessions have left on the board, and wherever this one is
\* killed: a channel is started only with a complete program of the file, in the
\* order of the file, with the control registers given and with the repetition given
\* if the sequencer can count to it, else with what is left of that in its bits; the
\* launcher is given the launch behind the last start and never cleared after it, for
\* the channels named that are on the board and the count in a word's bits; and
\* channels without a program keep their memories and control registers.  A
\* session that is not killed starts all programs and the launch, and leaves the
\* words in the memory that the file for $readmemh has (load_ops(), start_ops(),
\* launch_ops(), write_mem_files()).
LoadsPrograms ==
    mode = "SENDING" =>
        LET sent == todo = <<>>
        IN  /\ Len(runs) <= Len(programs) /\ \A k \in DOMAIN runs : Starts(k, runs[k])
            /\ Len(launches) <= Len(launch)
            /\ \A k \in DOMAIN launches :
                  Launched(launch[k], launches[k]) /\ launches[k].after = Len(programs)
            /\ \A c \in Channels \ Named : mem[c] = StaleMemory[c] /\ ctrl[c] = StaleCtrl[c]
            /\ sent => /\ Len(runs) = Len(programs) /\ Len(launches) = Len(launch)
                       /\ \A k \in DOMAIN launch : MarkersSet(launch[k])
                       /\ \A c \in Named : \A k \in DOMAIN MemFile(programs, c) :
                             mem[c][k - 1] = MemFile(programs, c)[k]

\* Behind a complete session, what an invocation with -r prints of a channel are
\* the instructions its last program in the file was assembled to, all of them
\* and in order (read_via_serial()).
ReadsBackProgram ==
    mode = "READING" =>
        LET at    == SelectLastInSeq(programs, LAMBDA p : p.channel = reading)
            insns == programs[at].insns
        IN  /\ IsPrefix(printed, insns)
            /\ todo = <<>> => printed \in {<<>>, insns}
=============================================================================
