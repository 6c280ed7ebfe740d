------------------------------ MODULE SquishAsm ------------------------------
(***************************************************************************)
(* parse_asm() of asm/squish.py: an assembly file, line by line.  Each     *)
(* loop of the function is a mode, and each of its branches an action.     *)
(* A line that ends the instructions of a program is looked at again at    *)
(* the top.                                                                *)
(*                                                                         *)
(* The files are all sequences of the lines offered, so that every order   *)
(* of directives occurs.  A line is a record: what its directive is, and   *)
(* the numbers on it.  A value that may be missing is a sequence of 0 or 1 *)
(* values.                                                                 *)
(***************************************************************************)
EXTENDS SquishInsn

CONSTANTS
    ShortLines,   \* lines offered anywhere
    InsnLines,    \* instructions offered once, as the end of a short file
    MaxLines,     \* lines of a file
    NumDcChannel, \* DC_CHANNELS, the channels the markers may follow
    NumMarkers,   \* NUM_MARKERS
    Depth,        \* DC_DEPTH, instructions of a channel
    MaxCtrl,      \* MAX_CTRL
    MaxRepeat     \* MAX_REPEAT

\* What the lines of each mnemonic can say.
LineOpts == [flags: SUBSET STRING, vplus: Seq(Int)]
LineTime == [num: Nat, unit: DOMAIN Scale]
SwpLine  == [op: {"swp"}, v1: Int, v2: Int, n: Nat, t: LineTime, opts: LineOpts]
LvlLine  == [op: {"lvl"}, v: Int, t: LineTime, opts: LineOpts]
SetLine  == [op: {"set"}, reg: STRING, din: Nat, opts: LineOpts]
GetLine  == [op: {"get"}, reg: STRING, opts: LineOpts]
NopLine  == [op: {"nop"}, opts: LineOpts]
FulLine  == [op: {"ful"}, its: Nat, din: Nat, cyc: Nat, opts: LineOpts]
InsnLine == SwpLine \cup LvlLine \cup SetLine \cup GetLine \cup NopLine \cup FulLine

CtrlRegs == {"dvsr", "dlay", "csup", "ldac"}

\* What a line can be.  The tool takes a program of any channel; those that are
\* written are for channels of the board, as no other one hears of them.
Line ==
    [kind: {"empty", "other"}]
    \cup [kind: {"program"}, channel: 0 .. NumDcChannel - 1]
    \cup [kind: {"ctrl"}, reg: CtrlRegs, val: Nat]
    \cup [kind: {"repeat"}, val: Nat]
    \cup [kind: {"insn"}, insn: InsnLine]
    \cup [kind: {"launch"}, iters: Seq(Nat), trig: BOOLEAN, legacy: BOOLEAN, channels: SUBSET Int]
    \cup [kind: {"hex"}, channels: SUBSET Int]
    \cup [kind: {"marker"}, sels: Seq(Nat)]

ASSUME LinesAssumption == ShortLines \cup InsnLines \subseteq Line

ASSUME SizesAssumption ==
    /\ NumDcChannel \in Nat \ {0} /\ Depth \in Nat \ {0}
    /\ MaxCtrl \in Nat /\ MaxRepeat \in Nat \ {0}
    /\ NumMarkers \in 0 .. 3

VARIABLES
    mode,       \* SHELL, TOP, CTRL, INSNS, MASK, DONE or FAILED
    file,       \* the lines so far
    line,       \* the one being looked at, as a sequence of 0 or 1 lines
    prog,       \* the program being read
    programs,
    launch      \* 0 or 1 launches

parsing == <<mode, file, line, prog, programs, launch>>

NewProgram(ch) == [channel |-> ch, ctrl |-> [r \in CtrlRegs |-> <<>>],
                   repeat |-> 1, insns |-> <<>>]

NewLaunch == [dc_chmask |-> {}, iters |-> 1, use_trigger |-> FALSE, marker_sels |-> <<>>]

AsmInit ==
    /\ mode = "SHELL" /\ file = <<>> /\ line = <<>>
    /\ prog = NewProgram(0) /\ programs = <<>> /\ launch = <<>>

-----------------------------------------------------------------------------

EndOfFile == [kind |-> "end"]

Is(kind) == line # <<>> /\ line[1].kind = kind
Taken    == line' = <<>>

\* The tool exits, with the line in its message.
Fail ==
    /\ mode' = "FAILED"
    /\ UNCHANGED <<file, line, prog, programs, launch>>

\* The next line, or none any more.
ReadLine ==
    /\ mode \in {"TOP", "CTRL", "INSNS", "MASK"} /\ line = <<>>
    /\ \/ /\ line' = <<EndOfFile>>
          /\ UNCHANGED file
       \/ /\ IF file = <<>> THEN TRUE ELSE Len(file) < MaxLines /\ Last(file) \in ShortLines
          /\ \E l \in IF Len(file) = 2 /\ mode = "INSNS" THEN ShortLines \cup InsnLines ELSE ShortLines :
                line' = <<l>> /\ file' = Append(file, l)
    /\ UNCHANGED <<mode, prog, programs, launch>>

\* line_empty()
SkipEmpty ==
    /\ Is("empty") /\ Taken
    /\ UNCHANGED <<mode, file, prog, programs, launch>>

OpenProgram ==
    /\ mode = "TOP" /\ Is("program") /\ Taken
    /\ mode' = "CTRL"
    /\ prog' = NewProgram(line[1].channel)
    /\ UNCHANGED <<file, programs, launch>>

SetCtrl ==
    /\ mode = "CTRL" /\ Is("ctrl") /\ line[1].val <= MaxCtrl /\ Taken
    /\ prog' = [prog EXCEPT !.ctrl[line[1].reg] = <<line[1].val>>]
    /\ UNCHANGED <<mode, file, programs, launch>>

SetRepeat ==
    /\ mode = "CTRL" /\ Is("repeat") /\ line[1].val <= MaxRepeat /\ Taken
    /\ mode' = "INSNS"
    /\ prog' = [prog EXCEPT !.repeat = line[1].val]
    /\ UNCHANGED <<file, programs, launch>>

AddInsn ==
    /\ mode = "INSNS" /\ Is("insn") /\ Len(prog.insns) < Depth
    /\ Accepted(line[1].insn) /\ Taken
    /\ prog' = [prog EXCEPT !.insns = Append(@, Assemble(line[1].insn))]
    /\ UNCHANGED <<mode, file, programs, launch>>

\* Fault: the line that ends a program is taken with it.
CloseProgramTakesLine ==
    /\ mode = "INSNS" /\ line # <<>> /\ line[1].kind \notin {"insn", "empty"}
    /\ prog.insns # <<>>
    /\ programs' = Append(programs, prog)
    /\ IF Is("end") THEN mode' = "DONE" ELSE mode' = "TOP"
    /\ Taken /\ UNCHANGED <<file, prog, launch>>

\* The line is for the top.
CloseProgram ==
    /\ mode = "INSNS" /\ line # <<>> /\ line[1].kind \notin {"insn", "empty"}
    /\ prog.insns # <<>>
    /\ programs' = Append(programs, prog)
    /\ mode' = "TOP"
    /\ UNCHANGED <<file, line, prog, launch>>

\* Channels on the line are the mask, else the line behind has it.  A token that
\* names no channel is an error.
SetLaunch ==
    /\ mode = "TOP" /\ Is("launch") /\ -1 \notin line[1].channels /\ Taken
    /\ launch' = <<[NewLaunch EXCEPT
                        !.iters = IF line[1].iters = <<>> THEN 1 ELSE line[1].iters[1],
                        !.use_trigger = line[1].trig, !.dc_chmask = line[1].channels]>>
    /\ mode' = IF line[1].legacy THEN "MASK" ELSE "TOP"
    /\ UNCHANGED <<file, prog, programs>>

SetMask ==
    /\ mode = "MASK" /\ Is("hex") /\ Taken
    /\ launch' = <<[launch[1] EXCEPT !.dc_chmask = line[1].channels]>>
    /\ mode' = "TOP"
    /\ UNCHANGED <<file, prog, programs>>

MarkersAccepted(l) ==
    Len(l.sels) = NumMarkers /\ Range(l.sels) \subseteq 0 .. NumDcChannel - 1

\* A launch behind this line replaces the markers too.
SetMarkers ==
    /\ mode = "TOP" /\ Is("marker") /\ MarkersAccepted(line[1]) /\ Taken
    /\ launch' = <<[(IF launch = <<>> THEN NewLaunch ELSE launch[1])
                        EXCEPT !.marker_sels = <<line[1].sels>>]>>
    /\ UNCHANGED <<mode, file, prog, programs>>

\* A mask that is missing at the end of the file is no error.
Finish ==
    /\ mode \in {"TOP", "MASK"} /\ Is("end") /\ Taken
    /\ mode' = "DONE"
    /\ UNCHANGED <<file, prog, programs, launch>>

\* The lines that no branch of a mode takes, and those it raises an error for.
Reject ==
    /\ line # <<>> /\ ~Is("empty")
    /\ \/ /\ mode = "TOP"
          /\ \/ line[1].kind \in {"ctrl", "repeat", "insn", "hex", "other"}
             \/ Is("launch") /\ -1 \in line[1].channels
             \/ Is("marker") /\ ~MarkersAccepted(line[1])
       \/ /\ mode = "CTRL"
          /\ \/ line[1].kind \notin {"ctrl", "repeat"}
             \/ Is("ctrl") /\ line[1].val > MaxCtrl
             \/ Is("repeat") /\ line[1].val > MaxRepeat
       \/ /\ mode = "INSNS"
          /\ \/ line[1].kind # "insn" /\ prog.insns = <<>>
             \/ Is("insn") /\ (Len(prog.insns) >= Depth \/ ~Accepted(line[1].insn))
       \/ mode = "MASK" /\ line[1].kind \notin {"hex", "end"}
    /\ Fail

ParseStep ==
    \/ ReadLine \/ SkipEmpty \/ OpenProgram \/ SetCtrl \/ SetRepeat \/ AddInsn
    \/ CloseProgram \/ SetLaunch \/ SetMask \/ SetMarkers \/ Finish \/ Reject

-----------------------------------------------------------------------------
(* What a file says, read as a whole. *)

\* The elements of s in the places P, in order.
Picked(s, P) == FlattenSeq([i \in DOMAIN s |-> IF i \in P THEN <<s[i]>> ELSE <<>>])

Kind(f, kind) == Picked(f, {i \in DOMAIN f : f[i].kind = kind})

Lines(f) == Picked(f, {i \in DOMAIN f : f[i].kind # "empty"})

\* Where the programs begin.
Headers(f) == Picked([i \in DOMAIN f |-> i], {i \in DOMAIN f : f[i].kind = "program"})

\* From the k-th header to the next one.
Section(f, k) ==
    SubSeq(f, Headers(f)[k], IF k < Len(Headers(f)) THEN Headers(f)[k + 1] - 1 ELSE Len(f))

LastOf(s) == IF s = <<>> THEN <<>> ELSE <<Last(s)>>

\* The last line for a control register.
LastCtrl(section, r) ==
    LastOf(Picked(section, {i \in DOMAIN section : section[i].kind = "ctrl" /\ section[i].reg = r}))

WrittenCtrl(section) ==
    [r \in CtrlRegs |-> LET l == LastCtrl(section, r) IN IF l = <<>> THEN <<>> ELSE <<l[1].val>>]

WrittenInsns(section) ==
    LET insns == Kind(section, "insn") IN [i \in DOMAIN insns |-> Assemble(insns[i].insn)]

WrittenProgram(section) ==
    [channel |-> section[1].channel, ctrl |-> WrittenCtrl(section),
     repeat  |-> Kind(section, "repeat")[1].val, insns |-> WrittenInsns(section)]

WrittenPrograms(f) == [k \in DOMAIN Headers(f) |-> WrittenProgram(Section(f, k))]

\* Which line may follow which.
MayFollow(before, l) ==
    \/ l.kind = "ctrl" /\ before \in {"program", "ctrl"}
    \/ l.kind = "repeat" /\ before \in {"program", "ctrl"}
    \/ l.kind = "insn" /\ before \in {"repeat", "insn"}
    \/ l.kind = "hex" /\ before = "mask"
    \/ l.kind \in {"program", "launch", "marker", "end"}
         /\ before \in {"start", "insn", "launch", "hex", "marker"}
    \/ l.kind = "end" /\ before = "mask"

\* The role of a line for the one behind it.
Role(l) == IF l.kind = "launch" /\ l.legacy THEN "mask" ELSE l.kind

Fits(l) ==
    /\ l.kind = "ctrl" => l.val <= MaxCtrl
    /\ l.kind = "repeat" => l.val <= MaxRepeat
    /\ l.kind = "insn" => Accepted(l.insn)
    /\ l.kind = "launch" => -1 \notin l.channels
    /\ l.kind = "marker" => MarkersAccepted(l)

WellFormed(f) ==
    /\ \A i \in DOMAIN f : Fits(f[i]) /\ MayFollow(IF i = 1 THEN "start" ELSE Role(f[i - 1]), f[i])
    /\ \A k \in DOMAIN Headers(f) : Len(Kind(Section(f, k), "insn")) <= Depth

LaunchAt(f)     == SelectLastInSeq(f, LAMBDA l : l.kind = "launch")
BehindLaunch(f) == SubSeq(f, LaunchAt(f) + 1, Len(f))

WrittenSels(f) ==
    LET markers == LastOf(Kind(BehindLaunch(f), "marker"))
    IN  IF markers = <<>> THEN <<>> ELSE <<markers[1].sels>>

LaunchOf(mask, iters, trig, sels) ==
    [dc_chmask |-> mask, iters |-> iters, use_trigger |-> trig, marker_sels |-> sels]

\* The last launch, and the last markers behind it.
WrittenLaunch(f) ==
    LET at   == LaunchAt(f)
        hex  == Kind(BehindLaunch(f), "hex")
        sels == WrittenSels(f)
    IN  IF at = 0 THEN IF sels = <<>> THEN <<>> ELSE <<LaunchOf({}, 1, FALSE, sels)>>
        ELSE <<LaunchOf(IF f[at].legacy /\ hex # <<>> THEN hex[1].channels ELSE f[at].channels,
                        IF f[at].iters = <<>> THEN 1 ELSE f[at].iters[1], f[at].trig, sels)>>

\* The parser accepts the files that are well formed, and fails at the first
\* line that cannot be part of one.  What it makes of a file are its programs in
\* order, each with the channel, the control registers, the repetition and the
\* instructions of its own section, and the last launch, with the markers behind
\* it (parse_asm()).
ParsesAsWritten ==
    /\ mode = "DONE" =>
        /\ WellFormed(Append(Lines(file), EndOfFile))
        /\ programs = WrittenPrograms(file)
        /\ launch = WrittenLaunch(file)
    /\ mode = "FAILED" =>
        ~WellFormed(IF Is("end") THEN Append(Lines(file), EndOfFile) ELSE Lines(file))
=============================================================================
