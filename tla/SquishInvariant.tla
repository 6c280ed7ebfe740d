-------------------------- MODULE SquishInvariant --------------------------
(***************************************************************************)
(* The inductive invariant of SquishMain, in two parts.                    *)
(*                                                                         *)
(* What a session sends is cut into groups: the clear, the control         *)
(* registers of a program, each of its instructions, its start, and the    *)
(* launch.  SessionOK says of every command of every group what is left to *)
(* be sent, which registers hold what the group has written, and what the  *)
(* programs so far have made of the board; and the same of the words that  *)
(* are read back.                                                          *)
(*                                                                         *)
(* FileOK says what the parser has made of the lines it has dealt with, in *)
(* the terms in which the whole file is defined.                           *)
(***************************************************************************)
EXTENDS SquishMain

\* What is left of a sequence behind its first k elements.
From(s, k) == SubSeq(s, k + 1, Len(s))

\* A program that the parser has accepted.
Loadable ==
    [channel: Channels, ctrl: [CtrlRegs -> {<<>>} \cup {<<v>> : v \in 0 .. MaxCtrl}],
     repeat: 0 .. MaxRepeat, insns: {s \in Seq(DcInsn) : Len(s) \in 1 .. Depth}]

\* One that is being read.
Readable ==
    [channel: Channels, ctrl: [CtrlRegs -> {<<>>} \cup {<<v>> : v \in 0 .. MaxCtrl}],
     repeat: 0 .. MaxRepeat, insns: {s \in Seq(DcInsn) : Len(s) <= Depth}]

\* And a launch.
Launchable ==
    [dc_chmask: SUBSET Int, iters: Int, use_trigger: BOOLEAN,
     marker_sels: Seq([1 .. NumMarkers -> Int])]

\* What the parser has made of a file.
ParsedOK ==
    /\ programs \in Seq(Loadable)
    /\ launch \in Seq(Launchable) /\ Len(launch) <= 1
    /\ \A k \in DOMAIN launch : Len(launch[k].marker_sels) <= 1
    /\ mode \in {"CTRL", "INSNS"} => prog \in Readable
    /\ mode = "MASK" => launch # <<>>

\* What the tool writes, and to which registers.
Op == [reg: Regs, data: Int \cup SUBSET Int]

\* The commands of a program, those of the launch, those behind the first k programs, those
\* behind the instructions of a program and those behind its first i instructions.
ProgramOps(p) == LoadOps(p) \o StartOps(p)
LaunchPart == IF launch = <<>> THEN <<>> ELSE LaunchOps(launch[1])
BehindPrograms(k) ==
    FlattenSeq(From([j \in DOMAIN programs |-> ProgramOps(programs[j])], k)) \o LaunchPart
Closing(p) ==
    <<Set("ITERS", p.repeat % (MaxRepeat + 1)), Set("DEPTH", (Len(p.insns) - 1) % Depth)>> \o StartOps(p)
BehindInsns(p, i) ==
    FlattenSeq(From([j \in DOMAIN p.insns |-> InsnOps(p, j)], i)) \o Closing(p)

\* The registers r hold what the first n of these commands have written last.
Hold(r, ops, n) ==
    \A j \in 1 .. n :
        (\A i \in j + 1 .. n : ops[i].reg = ops[j].reg => ops[i].data = ops[j].data)
            => r[ops[j].reg] = ops[j].data

\* The first n of these commands have been sent, and rest comes behind them.
Within(ops, n, rest) ==
    n \in 0 .. Len(ops) /\ todo = From(ops, n) \o rest /\ Hold(regs, ops, n)

\* The board, behind k programs and in the m-th one.
Stored(j, n) ==
    \A i \in 1 .. n : mem[programs[j].channel][i - 1] = Encode(programs[j].insns[i])
Latest(j, m) == \A i \in j + 1 .. m : programs[i].channel # programs[j].channel
Kept(k, m) ==
    \A j \in 1 .. k : Latest(j, m) =>
        /\ Stored(j, Len(programs[j].insns))
        /\ depth[programs[j].channel] = Len(programs[j].insns) - 1
Started(k) == runs = [j \in 1 .. k |-> runs[j]] /\ \A j \in 1 .. k : Starts(j, runs[j])
Untouched(m) ==
    \A c \in Channels : (\A j \in 1 .. m : programs[j].channel # c) =>
        mem[c] = StaleMemory[c] /\ ctrl[c] = StaleCtrl[c]
Board(k, m) == Kept(k, m) /\ Started(k) /\ Untouched(m)

CtrlGiven(k) ==
    \A r \in CtrlRegs : programs[k].ctrl[r] # <<>> =>
        ctrl[programs[k].channel][r] = programs[k].ctrl[r][1]

\* The board has its shape.
BoardType ==
    /\ regs = [r \in Regs |-> regs[r]]
    /\ mem = [c \in Channels |-> mem[c]]
    /\ \A c \in Channels : mem[c] = [a \in 0 .. Depth - 1 |-> mem[c][a]]
    /\ ctrl = [c \in Channels |-> ctrl[c]] /\ depth = [c \in Channels |-> depth[c]]

\* The groups of commands of a session, with what each has done to the board so far.
Clearing(n) ==
    Within(ClearLaunchOps, n, BehindPrograms(0)) /\ Board(0, 0) /\ launches = <<>>

Loaded(k) ==
    todo = BehindPrograms(k) /\ Board(k, k) /\ launches = <<>>

Controlling(k, n) ==
    LET p == programs[k]
    IN  /\ Within(CtrlOps(p), n, BehindInsns(p, 0) \o BehindPrograms(k))
        /\ Board(k - 1, k) /\ launches = <<>>
        /\ n >= Len(CtrlOps(p)) - 1 => CtrlGiven(k)

Storing(k, i, n) ==
    LET p == programs[k]
    IN  /\ Within(InsnOps(p, i), n, BehindInsns(p, i) \o BehindPrograms(k))
        /\ Board(k - 1, k) /\ launches = <<>>
        /\ CtrlGiven(k) /\ Stored(k, IF n >= 6 THEN i ELSE i - 1)

Starting(k, n) ==
    LET p == programs[k]
    IN  /\ Within(Closing(p), n, BehindPrograms(k)) /\ launches = <<>>
        /\ IF n >= 4 THEN Board(k, k)
           ELSE Board(k - 1, k) /\ CtrlGiven(k) /\ Stored(k, Len(p.insns))

Launching(n) ==
    /\ Within(LaunchOps(launch[1]), n, <<>>)
    /\ Board(Len(programs), Len(programs))
    /\ IF n < 5 THEN launches = <<>>
       ELSE /\ launches = <<launches[1]>> /\ Launched(launch[1], launches[1])
            /\ launches[1].after = Len(programs)

Sending ==
    \/ \E n \in 0 .. 3 : Clearing(n)
    \/ \E k \in 0 .. Len(programs) : Loaded(k)
    \/ \E k \in DOMAIN programs :
        \/ \E n \in 0 .. Len(CtrlOps(programs[k])) : Controlling(k, n)
        \/ \E i \in DOMAIN programs[k].insns, n \in 0 .. 7 : Storing(k, i, n)
        \/ \E n \in 0 .. 5 : Starting(k, n)
    \/ launch # <<>> /\ \E n \in 0 .. Len(LaunchOps(launch[1])) : Launching(n)

\* The program that is read back, and how far.
BehindWords(j, i) ==
    FlattenSeq(From([k \in 1 .. Len(programs[j].insns) |-> ReadOps(k - 1)], i))

ReadingWord(j, i, n) ==
    LET insns == programs[j].insns
        w == WordParts(Encode(insns[i]))
    IN  /\ todo = From(ReadOps(i - 1), n) \o BehindWords(j, i)
        /\ n < 2 => regs["ILD_STRB"] = {}
        /\ n = 1 => regs["IST_ADDR"] = i - 1
        /\ n \in 2 .. 4 => insn_rd = Encode(insns[i])
        /\ answers = IF n = 3 THEN <<w[1]>> ELSE IF n = 4 THEN <<w[1], w[2]>> ELSE <<>>
        /\ n = 6 => regs["ILD_STRB"] = {}
        /\ printed = SubSeq(insns, 1, IF n >= 5 THEN i ELSE i - 1)

\* The last program of the channel is still in its memory.
ReadingFrom(j) ==
    /\ programs[j].channel = reading /\ Latest(j, Len(programs))
    /\ Stored(j, Len(programs[j].insns)) /\ depth[reading] = Len(programs[j].insns) - 1

\* Nothing has been asked for yet, or the words of a program.
Opened == todo = <<>> /\ answers = <<>> /\ printed = <<>>

Asked(j) ==
    /\ todo = <<Set("ILD_STRB", {})>> \o BehindWords(j, 0)
    /\ printed = <<>> /\ answers = <<>>

Reading ==
    \E j \in DOMAIN programs :
        /\ ReadingFrom(j)
        /\ \/ Opened \/ Asked(j)
           \/ \E i \in DOMAIN programs[j].insns, n \in 0 .. 6 : ReadingWord(j, i, n)

\* Everything has been sent.
Sent ==
    /\ todo = <<>>
    /\ IF launch = <<>> THEN Loaded(Len(programs)) ELSE Launching(Len(LaunchOps(launch[1])))

\* A command is left to be sent.
Underway ==
    \/ \E n \in 0 .. 2 : Clearing(n)
    \/ \E k \in DOMAIN programs :
        \/ \E n \in 0 .. Len(CtrlOps(programs[k])) - 1 : Controlling(k, n)
        \/ \E i \in DOMAIN programs[k].insns, n \in 0 .. 6 : Storing(k, i, n)
        \/ \E n \in 0 .. 4 : Starting(k, n)
    \/ launch # <<>> /\ \E n \in 0 .. Len(LaunchOps(launch[1])) - 1 : Launching(n)

\* Wherever an invocation is, the board is as its commands so far say.
SessionOK ==
    /\ mode \in {"SHELL", "DONE", "SENDING", "READING"} => line = <<>>
    /\ mode \notin {"SENDING", "READING"} =>
         /\ mem = StaleMemory /\ ctrl = StaleCtrl /\ depth = StaleDepth
         /\ runs = <<>> /\ launches = <<>>
    /\ mode # "READING" => answers = <<>> /\ printed = <<>>
    /\ mode = "SENDING" => Sending
    /\ mode = "READING" => Reading

-----------------------------------------------------------------------------
(* The parser, line by line. *)

\* What the parser has in hand is a line of the file.
LineOK ==
    line = <<>> \/ \E l \in ShortLines \cup InsnLines \cup {EndOfFile} : line = <<l>>

\* What comes before the next line.
Before(f) == IF f = <<>> THEN "start" ELSE Role(f[Len(f)])

\* The lines d have been dealt with, and the next one may have been read.
Dealt(d) ==
    /\ d \in Seq(Line)
    /\ line = <<>> \/ Is("end") => file = d
    /\ line # <<>> /\ ~Is("end") => file = Append(d, line[1])

\* The programs that are closed are those of the first sections of d.
ClosedAre(d) == \A k \in DOMAIN programs : programs[k] = WrittenProgram(Section(d, k))

\* The section that is open in d, and in the lines that are not empty.
OpenSection(d) == Section(d, Len(Headers(d)))

\* The program that is open is that of the section so far.
OpenIs(d) ==
    LET s == OpenSection(d)
    IN  /\ Len(Headers(d)) = Len(programs) + 1 /\ Len(Headers(Lines(d))) # 0
        /\ prog.channel = s[1].channel /\ prog.ctrl = WrittenCtrl(s) /\ prog.insns = WrittenInsns(s)
        /\ Len(Kind(OpenSection(Lines(d)), "insn")) = Len(prog.insns)

\* The last launch waits for its mask.
NoMaskYet(d) ==
    LaunchAt(d) # 0 /\ d[LaunchAt(d)].legacy /\ Kind(BehindLaunch(d), "hex") = <<>>

\* What has been made of the lines d, and which of them was the last.
ReadUpTo(d) ==
    LET before == Before(Lines(d))
        repeat == Kind(OpenSection(d), "repeat")
    IN  /\ WellFormed(Lines(d)) /\ launch = WrittenLaunch(d) /\ ClosedAre(d)
        /\ mode \in {"TOP", "MASK"} => Len(programs) = Len(Headers(d))
        /\ mode = "TOP" => before \in {"start", "insn", "launch", "hex", "marker"}
        /\ mode = "TOP" /\ before = "insn" => line # <<>> /\ line[1].kind \notin {"insn", "empty"}
        /\ mode = "CTRL" =>
              before \in {"program", "ctrl"} /\ OpenIs(d) /\ repeat = <<>> /\ prog.insns = <<>>
        /\ mode = "INSNS" =>
              /\ before = IF prog.insns = <<>> THEN "repeat" ELSE "insn"
              /\ OpenIs(d) /\ prog.repeat = repeat[1].val
        /\ mode = "MASK" => before = "mask" /\ NoMaskYet(d)

\* Wherever the parser is, it is as the lines so far say.
FileOK ==
    /\ mode \in {"SHELL", "TOP", "CTRL", "INSNS", "MASK", "DONE", "FAILED", "SENDING", "READING"}
    /\ mode \in {"TOP", "CTRL", "INSNS", "MASK"} => \E d : Dealt(d) /\ ReadUpTo(d)
    /\ mode \in {"SHELL", "SENDING", "READING"} => file = <<>>
    /\ mode \in {"SHELL", "SENDING", "READING", "DONE"} => line = <<>>
    /\ mode = "FAILED" => ~Is("empty")
    /\ mode = "SHELL" => programs = <<>> /\ launch = <<>>
    /\ ParsesAsWritten
=============================================================================
