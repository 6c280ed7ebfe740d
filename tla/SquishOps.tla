------------------------------ MODULE SquishOps ------------------------------
(***************************************************************************)
(* The register writes that asm/squish.py makes of programs and launches,  *)
(* and the files it writes of them.  A command is a register and its new   *)
(* value; strobes and masks are sets of channels.                          *)
(***************************************************************************)
EXTENDS SquishAsm

CONSTANT WordBits   \* bits of a register

\* A register has a bit for each channel of the board.
ASSUME WordAssumption ==
    WordBits \in Nat /\ RegMod = 2 ^ WordBits /\ NumDcChannel <= WordBits

Set(reg, data) == [reg |-> reg, data |-> data]

\* What the four bytes of a command carry of a number and of a mask (reg_bytes()).
NumberSent(n) == n % RegMod
MaskSent(channels) == channels \cap (0 .. WordBits - 1)

\* Fault: the strobe is not cleared first.
StrobeUncleared(reg, mask) == <<Set(reg, mask), Set(reg, {})>>

\* Clear, assert, clear.
Strobe(reg, mask) == <<Set(reg, {}), Set(reg, mask), Set(reg, {})>>

CtrlOp(prg, r) ==
    IF prg.ctrl[r] = <<>> THEN <<>> ELSE <<Set(r, prg.ctrl[r][1] % (MaxCtrl + 1))>>

\* Only the registers the program gives, and one strobe for all four.
CtrlOps(prg) ==
    CtrlOp(prg, "dvsr") \o CtrlOp(prg, "dlay") \o CtrlOp(prg, "csup") \o CtrlOp(prg, "ldac")
    \o (IF \A r \in CtrlRegs : prg.ctrl[r] = <<>> THEN <<>> ELSE Strobe("CTRL_STRB", {prg.channel}))

InsnOps(prg, k) ==
    LET w == ToRegs(prg.insns[k])
    IN  <<Set("IST_ADDR", k - 1), Set("IST_LO", w[1]), Set("IST_MID", w[2]), Set("IST_HI", w[3])>>
        \o Strobe("IST_STRB", {prg.channel})

LoadOps(prg) ==
    CtrlOps(prg) \o FlattenSeq([k \in DOMAIN prg.insns |-> InsnOps(prg, k)])
    \o <<Set("ITERS", prg.repeat % (MaxRepeat + 1)), Set("DEPTH", (Len(prg.insns) - 1) % Depth)>>

StartOps(prg) == Strobe("START_STRB", {prg.channel})

MarkerRegs == <<"MK_SEL0", "MK_SEL1", "MK_SEL2">>

\* The launcher is one channel to its strobes.
Launcher == {0}

MarkerOps(l) ==
    IF l.marker_sels = <<>> THEN <<>>
    ELSE [m \in DOMAIN l.marker_sels[1] |-> Set(MarkerRegs[m], l.marker_sels[1][m])]

\* The parser bounds neither the channels of a launch nor its count.
LaunchOps(l) ==
    <<Set("LCH_MASK", MaskSent(l.dc_chmask)), Set("LCH_TRIG", Bit(l.use_trigger)),
      Set("LCH_ITERS", NumberSent(l.iters))>>
    \o Strobe("LCH_STRB", Launcher) \o MarkerOps(l)

ClearLaunchOps == Strobe("LCH_CLR", Launcher)

\* Each program is started as soon as it is loaded.
UartSeq(prgs, l) ==
    FlattenSeq([k \in DOMAIN prgs |-> LoadOps(prgs[k]) \o StartOps(prgs[k])])
    \o (IF l = <<>> THEN <<>> ELSE LaunchOps(l[1]))

SendOps(prgs, l, clear) == (IF clear THEN ClearLaunchOps ELSE <<>>) \o UartSeq(prgs, l)

\* The words of the last program of a channel.
MemFile(prgs, c) ==
    LET p == prgs[SelectLastInSeq(prgs, LAMBDA q : q.channel = c)]
    IN  [k \in DOMAIN p.insns |-> Encode(p.insns[k])]
=============================================================================
