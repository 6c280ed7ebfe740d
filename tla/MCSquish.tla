------------------------------ MODULE MCSquish ------------------------------
(***************************************************************************)
(* An instance of SquishMain for TLC: a DAC of 6 bits, deltas and holds of *)
(* 5, and 3 bits of iterations, so that every voltage, sweep and hold      *)
(* occurs; short files of every order of directives.  A printed digit is 6 *)
(* voltages and more than 5 codes, as on the board; a repetition has more  *)
(* bits than the sequencer, a launch more channels and a larger count than *)
(* a register.                                                             *)
(***************************************************************************)
EXTENDS SquishMain

Volts == -VMax - 1 .. VMax + 1
Opts(flags, vplus) == [flags |-> flags, vplus |-> vplus]
Plain == Opts({}, <<>>)
SomeOpts == {Opts(f, v) : f \in {{}, {"ldc"}, {"arm", "mk"}, {"srm", "rd", "ldc"}},
                          v \in {<<>>, <<-2>>, <<1>>, <<2 * Digit>>, <<VMax>>}}
Time(n, u) == [num |-> n, unit |-> u]
SomeTimes == {Time(0, "ns"), Time(3, "ns"), Time(5, "ns"), Time(3, "us"), Time(2, "ms"),
              Time(63, "ns"), Time(1, "s")}

Swp(v1, v2, n, t) == [op |-> "swp", v1 |-> v1, v2 |-> v2, n |-> n, t |-> t, opts |-> Plain]
Lvl(v, t, o) == [op |-> "lvl", v |-> v, t |-> t, opts |-> o]
SetReg(reg, din, o) == [op |-> "set", reg |-> reg, din |-> din, opts |-> o]
Get(reg, o) == [op |-> "get", reg |-> reg, opts |-> o]
Nop(o) == [op |-> "nop", opts |-> o]
Ful(its, din, cyc, o) == [op |-> "ful", its |-> its, din |-> din, cyc |-> cyc, opts |-> o]

Insn(i) == [kind |-> "insn", insn |-> i]

Regs5 == {"dr", "cr", "clr", "scr", "xr"}

MCInsnLines == {Insn(i) : i \in
    {Swp(v1, v2, n, Time(3, "us")) : v1 \in Volts, v2 \in Volts, n \in 1 .. IterMax + 2}
    \cup {Lvl(v, t, Plain) : v \in Volts, t \in SomeTimes}
    \cup {Lvl(2, Time(5, "ns"), o) : o \in SomeOpts}
    \cup {SetReg(r, d, o) : r \in Regs5, d \in {0, DacMod - 1, DacMod}, o \in SomeOpts}
    \cup {Get(r, o) : r \in Regs5, o \in SomeOpts}
    \cup {Nop(o) : o \in SomeOpts \cup {Opts({"x"}, <<>>)}}
    \cup {Ful(i, d, c, Plain) : i \in {0, IterMax + 1}, d \in {2 * DacMod, SpiMod - 1, SpiMod},
                                c \in {0, MaxHold, MaxHold + 1}}}

Program(ch)      == [kind |-> "program", channel |-> ch]
Ctrl(reg, val)   == [kind |-> "ctrl", reg |-> reg, val |-> val]
Repeat(val)      == [kind |-> "repeat", val |-> val]
LaunchLine(iters, trig, legacy, chs) ==
    [kind |-> "launch", iters |-> iters, trig |-> trig, legacy |-> legacy, channels |-> chs]
Marker(sels) == [kind |-> "marker", sels |-> sels]

MCShortLines ==
    {[kind |-> "empty"], [kind |-> "other"], [kind |-> "hex", channels |-> {1}],
     Program(0), Program(1),
     Ctrl("dvsr", MaxCtrl), Ctrl("dvsr", MaxCtrl + 1), Ctrl("dlay", 1),
     Repeat(MaxRepeat), Repeat(MaxRepeat + 1),
     Insn(Nop(Plain)), Insn(Lvl(VMax, Time(1, "us"), Plain)), Insn(Lvl(VMax + 1, Time(1, "us"), Plain)),
     LaunchLine(<<>>, TRUE, TRUE, {}), LaunchLine(<<RegMod + 2>>, FALSE, FALSE, {0, NumDcChannel, WordBits}),
     LaunchLine(<<>>, FALSE, FALSE, {-1}),
     Marker(<<0, 1>>), Marker(<<1>>), Marker(<<0, NumDcChannel>>)}
=============================================================================
