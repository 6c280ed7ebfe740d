----------------------------- MODULE SquishInsn -----------------------------
(***************************************************************************)
(* The instruction assembler and disassembler of asm/squish.py.            *)
(*                                                                         *)
(* A source line is the record of what its mnemonic takes: voltages and    *)
(* times, the latter as a number and a unit.  The options in parentheses   *)
(* are a set of flags and the voltage of "v+", as a sequence of 0 or 1     *)
(* voltages.  Voltages are written as finely as one likes, in units of     *)
(* which Digit make the last digit that is printed (a ten-thousandth of a  *)
(* volt).                                                                  *)
(*                                                                         *)
(* Arithmetic is exact here.  The tool's floating point keeps 53 bits, and *)
(* could round otherwise only a voltage that lies within that precision of *)
(* the middle between two codes.                                           *)
(***************************************************************************)
EXTENDS DcSteps, Integers

CONSTANTS
    VMax,         \* the highest voltage, VMIN = -VMax
    Digit,        \* units of voltage to the last digit printed
    NsPerCycle,   \* NS_PER_CYCLE
    TimeBase,     \* from one unit of time to the next, 1000
    RegMod        \* 2^32, words of the register file

DacHalf  == DacMod \div 2
KMin     == -DacHalf
KMax     == DacHalf - 1
DeltaMax == DeltaMod \div 2 - 1
SpiMod   == 16 * DacMod      \* a read flag, three register bits, the DAC field
MaxHold  == CycleMod - 1     \* MAX_HOLD_CYCLES

ASSUME InsnAssumption ==
    /\ VMax \in Nat \ {0} /\ Digit \in Nat \ {0} /\ VMax % Digit = 0
    /\ NsPerCycle \in Nat \ {0}
    /\ TimeBase \in Nat \ {0} /\ RegMod \in Nat \ {0}
    /\ DeltaMod > 3
    /\ RegMod * RegMod = 64 * CycleMod * DeltaMod * SpiMod

DcInsn == [iters: 0 .. IterMax, spi_din: 0 .. SpiMod - 1, delta: 0 .. DeltaMod - 1,
           strb_ldac: BOOLEAN, hold_cycles: 0 .. MaxHold, modify: BOOLEAN,
           arm: BOOLEAN, sticky_arm: BOOLEAN, idle: BOOLEAN, marker: BOOLEAN]

-----------------------------------------------------------------------------
(* Voltages and times. *)

\* The integer closest to p / q, the even one of two.
Round(p, q) ==
    LET floor == p \div q  rest == p % q
    IN  IF 2 * rest > q \/ (2 * rest = q /\ floor % 2 = 1) THEN floor + 1 ELSE floor

\* The least integer not below p / q.
Ceil(p, q) == -((-p) \div q)

Clamp(k, low, high) == IF k < low THEN low ELSE IF k > high THEN high ELSE k

VoltToSigned(v) ==
    IF v >= VMax THEN KMax
    ELSE Clamp(Round(2 * VMax * KMin + (v + VMax) * (DacMod - 1), 2 * VMax), KMin, KMax)

VoltToCode(v) == VoltToSigned(v) % DacMod

ToBits(k) == Clamp(k, -DeltaMax - 1, DeltaMax) % DeltaMod

\* A DAC code as a number with a sign, a field of the delta likewise.
CodeSigned(code)   == IF code < DacHalf THEN code ELSE code - DacMod
DeltaSigned(delta) == IF delta <= DeltaMax THEN delta ELSE delta - DeltaMod

\* The voltage that is printed, rounded to the last digit.
CodeToVolt(code) ==
    Digit * Round((CodeSigned(code) - KMin) * 2 * VMax - VMax * (DacMod - 1), Digit * (DacMod - 1))

\* Codes have a width in bits, and the ends of the delta field come back from the
\* voltages that are printed of them, although those may be coarser than codes.
ASSUME PrintAssumption ==
    /\ DacMod % 2 = 0
    /\ \A k \in {-DeltaMax - 1, DeltaMax} : ToBits(VoltToSigned(CodeToVolt(k))) = ToBits(k)

Scale == [ns |-> 1, us |-> TimeBase, ms |-> TimeBase * TimeBase,
          s |-> TimeBase * TimeBase * TimeBase]

ParseTime(t) == t.num * Scale[t.unit]

\* The largest unit that leaves no fraction.
FormatTime(ns) ==
    LET fits == {u \in DOMAIN Scale : ns >= Scale[u] /\ ns % Scale[u] = 0} \cup {"ns"}
        unit == CHOOSE u \in fits : \A w \in fits : Scale[w] <= Scale[u]
    IN  [num |-> ns \div Scale[unit], unit |-> unit]

TimeToCycles(ns) == IF Round(ns, NsPerCycle) < 1 THEN 1 ELSE Round(ns, NsPerCycle)

HoldAccepted(t) == TimeToCycles(ParseTime(t)) <= MaxHold

-----------------------------------------------------------------------------
(* From source lines to instructions. *)

DacRegMap == [dr |-> 1, cr |-> 2, clr |-> 3, scr |-> 4]

Flags == {"arm", "rd", "ldc", "mk", "srm"}

\* A token that is no option is rejected.
OptsAccepted(opts) == opts.flags \subseteq Flags

NoInsn == [iters |-> 0, spi_din |-> 0, delta |-> 0, strb_ldac |-> FALSE,
           hold_cycles |-> 0, modify |-> FALSE, arm |-> FALSE,
           sticky_arm |-> FALSE, idle |-> FALSE, marker |-> FALSE]

\* What every mnemonic takes of its options.
Common(opts) == [NoInsn EXCEPT !.arm = "arm" \in opts.flags,
                               !.sticky_arm = "srm" \in opts.flags,
                               !.marker = "mk" \in opts.flags]

\* What those take that "v+" applies to.
Stepped(opts) ==
    IF opts.vplus = <<>> THEN Common(opts)
    ELSE [Common(opts) EXCEPT !.modify = TRUE,
                              !.delta = ToBits(VoltToSigned(opts.vplus[1]))]

InRange(v) == -VMax <= v /\ v <= VMax

\* Codes per step so that n - 1 steps reach the second voltage or exceed it.
DeltaTo(v1, v2, steps) ==
    LET diff == v2 - v1
    IN  IF diff >= 0 THEN Ceil(diff, steps) ELSE -Ceil(-diff, steps)

\* Fault: the last code may lie behind the end of the range.
PulledBackNever(k1, dv, steps) == dv

\* The largest step that stays within the range, where dv does not.
PulledBack(k1, dv, steps) ==
    CASE k1 + dv * steps > KMax -> (KMax - k1) \div steps
      [] k1 + dv * steps < KMin -> -((k1 - KMin) \div steps)
      [] OTHER -> dv

SwpDelta(l) == DeltaTo(VoltToSigned(l.v1), VoltToSigned(l.v2), l.n - 1)

\* The number of levels the error message asks for.
SwpAdvice(l) ==
    LET diff == VoltToSigned(l.v2) - VoltToSigned(l.v1)
    IN  Ceil(IF diff >= 0 THEN diff ELSE -diff, DeltaMax) + 1

SwpInRange(l) == InRange(l.v1) /\ InRange(l.v2) /\ l.n \in 2 .. IterMax + 1

SwpAccepted(l) ==
    SwpInRange(l) /\ SwpDelta(l) \in -DeltaMax .. DeltaMax /\ HoldAccepted(l.t)

ParseSwp(l) ==
    LET dv == PulledBack(VoltToSigned(l.v1), SwpDelta(l), l.n - 1)
    IN  [Common(l.opts) EXCEPT
            !.iters = l.n - 1, !.delta = ToBits(dv), !.strb_ldac = TRUE,
            !.spi_din = DacRegMap.dr * DacMod + VoltToCode(l.v1),
            !.hold_cycles = TimeToCycles(ParseTime(l.t))]

LvlAccepted(l) == InRange(l.v) /\ HoldAccepted(l.t)

ParseLvl(l) ==
    [Stepped(l.opts) EXCEPT
        !.spi_din = DacRegMap.dr * DacMod + VoltToCode(l.v), !.strb_ldac = TRUE,
        !.hold_cycles = TimeToCycles(ParseTime(l.t))]

SetAccepted(l) == l.reg \in DOMAIN DacRegMap /\ l.din < DacMod

ParseSet(l) ==
    [Stepped(l.opts) EXCEPT !.spi_din = DacRegMap[l.reg] * DacMod + l.din,
                            !.strb_ldac = "ldc" \in l.opts.flags]

GetAccepted(l) == l.reg \in DOMAIN DacRegMap

ParseGet(l) ==
    [Common(l.opts) EXCEPT !.spi_din = (8 + DacRegMap[l.reg]) * DacMod,
                           !.strb_ldac = "ldc" \in l.opts.flags]

ParseNop(l) ==
    [Stepped(l.opts) EXCEPT !.idle = TRUE, !.strb_ldac = "ldc" \in l.opts.flags]

FulAccepted(l) == l.its <= IterMax /\ l.din < SpiMod /\ l.cyc <= MaxHold

ParseFul(l) ==
    [Stepped(l.opts) EXCEPT !.iters = l.its, !.spi_din = l.din, !.hold_cycles = l.cyc,
                            !.strb_ldac = "ldc" \in l.opts.flags]

Accepted(l) ==
    /\ OptsAccepted(l.opts)
    /\ CASE l.op = "swp" -> SwpAccepted(l)
         [] l.op = "lvl" -> LvlAccepted(l)
         [] l.op = "set" -> SetAccepted(l)
         [] l.op = "get" -> GetAccepted(l)
         [] l.op = "ful" -> FulAccepted(l)
         [] l.op = "nop" -> TRUE

\* INSN_PARSERS
Assemble(l) ==
    CASE l.op = "swp" -> ParseSwp(l)
      [] l.op = "lvl" -> ParseLvl(l)
      [] l.op = "set" -> ParseSet(l)
      [] l.op = "get" -> ParseGet(l)
      [] l.op = "ful" -> ParseFul(l)
      [] l.op = "nop" -> ParseNop(l)

-----------------------------------------------------------------------------
(* From instructions to words of the registers and back. *)

Bit(b) == IF b THEN 1 ELSE 0

Encode(insn) ==
    insn.iters * 64 * CycleMod * DeltaMod * SpiMod + insn.spi_din * 64 * CycleMod * DeltaMod
    + insn.delta * 64 * CycleMod + Bit(insn.strb_ldac) * 32 * CycleMod
    + insn.hold_cycles * 32 + Bit(insn.modify) * 16 + Bit(insn.arm) * 8
    + Bit(insn.sticky_arm) * 4 + Bit(insn.idle) * 2 + Bit(insn.marker)

\* The three registers a word is written and read through; the first one holds
\* the iteration count alone.
WordParts(v) ==
    <<(v \div (RegMod * RegMod)) % (IterMax + 1), (v \div RegMod) % RegMod, v % RegMod>>

ToRegs(insn) == WordParts(Encode(insn))

\* The word of the memory, as the sequencer and as the tool put it together.
FromRegs(w) == w[1] * RegMod * RegMod + w[2] * RegMod + w[3]

\* Fault: the strobe flag is looked for above the hold count.
DecodeInsnShifted(v) ==
    [iters |-> (v \div (64 * CycleMod * DeltaMod * SpiMod)) % (IterMax + 1),
     spi_din |-> (v \div (64 * CycleMod * DeltaMod)) % SpiMod,
     delta |-> (v \div (64 * CycleMod)) % DeltaMod,
     strb_ldac |-> (v \div (16 * CycleMod)) % 2 = 1,
     hold_cycles |-> (v \div 32) % CycleMod,
     modify |-> (v \div 16) % 2 = 1, arm |-> (v \div 8) % 2 = 1,
     sticky_arm |-> (v \div 4) % 2 = 1, idle |-> (v \div 2) % 2 = 1, marker |-> v % 2 = 1]

DecodeInsn(v) ==
    [iters |-> (v \div (64 * CycleMod * DeltaMod * SpiMod)) % (IterMax + 1),
     spi_din |-> (v \div (64 * CycleMod * DeltaMod)) % SpiMod,
     delta |-> (v \div (64 * CycleMod)) % DeltaMod,
     strb_ldac |-> (v \div (32 * CycleMod)) % 2 = 1,
     hold_cycles |-> (v \div 32) % CycleMod,
     modify |-> (v \div 16) % 2 = 1, arm |-> (v \div 8) % 2 = 1,
     sticky_arm |-> (v \div 4) % 2 = 1, idle |-> (v \div 2) % 2 = 1, marker |-> v % 2 = 1]

\* The fields of dc_insn_t, most significant first, with the values each can have.
PackedFields ==
    <<[name |-> "iters", size |-> IterMax + 1], [name |-> "spi_din", size |-> SpiMod],
      [name |-> "delta", size |-> DeltaMod], [name |-> "strb_ldac", size |-> 2],
      [name |-> "hold_cycles", size |-> CycleMod], [name |-> "modify", size |-> 2],
      [name |-> "arm", size |-> 2], [name |-> "sticky_arm", size |-> 2],
      [name |-> "idle", size |-> 2], [name |-> "marker", size |-> 2]>>

\* The place of each field: the product of the sizes of those below it.
Place[k \in DOMAIN PackedFields] ==
    IF k = Len(PackedFields) THEN 1 ELSE Place[k + 1] * PackedFields[k + 1].size

\* What the core finds in the field k of a word.
PackedField(v, k) == (v \div Place[k]) % PackedFields[k].size

-----------------------------------------------------------------------------
(* From instructions to source lines. *)

RegName(code) ==
    LET known == {r \in DOMAIN DacRegMap : DacRegMap[r] = code}
    IN  IF known = {} THEN "r" ELSE CHOOSE r \in known : TRUE

OptsStr(insn, include_ldc, include_vplus) ==
    [flags |-> {f \in Flags : \/ f = "ldc" /\ include_ldc /\ insn.strb_ldac
                              \/ f = "arm" /\ insn.arm
                              \/ f = "srm" /\ insn.sticky_arm
                              \/ f = "mk" /\ insn.marker},
     vplus |-> IF include_vplus /\ insn.modify
               THEN <<CodeToVolt(DeltaSigned(insn.delta))>> ELSE <<>>]

\* Fault: the strobe of an idle is left out.
FormatIdleUnstrobed(insn) == [op |-> "nop", opts |-> OptsStr(insn, FALSE, TRUE)]

FormatIdle(insn) == [op |-> "nop", opts |-> OptsStr(insn, TRUE, TRUE)]

FormatInsn(insn) ==
    LET is_rd == insn.spi_din \div (8 * DacMod) = 1
        reg   == (insn.spi_din \div DacMod) % 8
        code  == insn.spi_din % DacMod
        t     == FormatTime(insn.hold_cycles * NsPerCycle)
        last  == (CodeSigned(code) + DeltaSigned(insn.delta) * insn.iters) % DacMod
    IN  IF insn.idle THEN FormatIdle(insn)
        ELSE IF is_rd
        THEN [op |-> "get", reg |-> RegName(reg), opts |-> OptsStr(insn, TRUE, FALSE)]
        ELSE IF reg = DacRegMap.dr /\ insn.strb_ldac /\ insn.iters = 0
        THEN [op |-> "lvl", v |-> CodeToVolt(code), t |-> t, opts |-> OptsStr(insn, FALSE, TRUE)]
        ELSE IF reg = DacRegMap.dr /\ insn.strb_ldac
        THEN [op |-> "swp", v1 |-> CodeToVolt(code), v2 |-> CodeToVolt(last),
              n |-> insn.iters + 1, t |-> t, opts |-> OptsStr(insn, FALSE, TRUE)]
        ELSE IF reg # DacRegMap.dr
        THEN [op |-> "set", reg |-> RegName(reg), din |-> code, opts |-> OptsStr(insn, TRUE, TRUE)]
        ELSE [op |-> "ful", its |-> insn.iters, din |-> insn.spi_din,
              cyc |-> insn.hold_cycles, opts |-> OptsStr(insn, TRUE, TRUE)]
=============================================================================
