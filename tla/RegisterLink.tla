---------------------------- MODULE RegisterLink ----------------------------
(***************************************************************************)
(* The register file and the host, asm/squish.py, with the line between    *)
(* them: bytes arrive whole, in order and at least BytePace clocks apart   *)
(* (UartLine).  The host writes registers without waiting, and waits for   *)
(* the answer of each read.                                                *)
(***************************************************************************)
EXTENDS UartRegs, SequencesExt

CONSTANTS
    Value,      \* words the host writes and the channels show
    BytePace,   \* clocks from one byte to the next, 10 bits of 16 ticks
    MaxWire     \* bound: bytes sent and not arrived

ASSUME LinkAssumption ==
    /\ Value \subseteq Word /\ ResetWord \in Word
    /\ Depth >= 2 /\ BytePace \in Nat /\ BytePace >= 2
    /\ MaxWire \in Nat

VARIABLES
    wire,       \* bytes the host has sent that have not arrived
    gap,        \* clocks until the next byte can arrive
    awaiting,   \* the host waits for an answer
    got,        \* bytes of the answer it has
    answer,     \* the last whole answer
    pending     \* commands that have not taken effect, for the properties

host == <<wire, gap, awaiting, got, answer, pending>>
vars == <<file, host>>

Init ==
    /\ FileInit
    /\ wire = <<>> /\ gap = 0
    /\ awaiting = FALSE /\ got = <<>> /\ answer = Zero
    /\ pending = <<>>

Command(read, a, w) == [read |-> read, addr |-> a, word |-> w]
Bytes(c) == IF c.read THEN <<AddrRange + c.addr>> ELSE <<c.addr>> \o c.word

Send(c) ==
    /\ ~awaiting
    /\ Len(wire) + Len(Bytes(c)) <= MaxWire
    /\ wire' = wire \o Bytes(c)
    /\ pending' = Append(pending, c)
    /\ UNCHANGED <<file, gap, got, answer>>

HostWrite(a, w) == Send(Command(FALSE, a, w)) /\ UNCHANGED awaiting
HostRead(a) == Send(Command(TRUE, a, Zero)) /\ awaiting' = TRUE

\* What the line does to the host's side in a clock.
ByteIn(arriving) ==
    /\ wire' = SubSeq(wire, Len(arriving) + 1, Len(wire))
    /\ gap' = IF arriving # <<>> THEN BytePace - 1 ELSE IF gap > 0 THEN gap - 1 ELSE 0

ByteOut(taken) ==
    IF taken
    THEN LET all == Append(got, Head(txq))
         IN  IF Len(all) = WordBytes
             THEN got' = <<>> /\ answer' = all /\ awaiting' = FALSE
             ELSE got' = all /\ UNCHANGED <<answer, awaiting>>
    ELSE UNCHANGED <<got, answer, awaiting>>

Effect(arriving, taken, status) ==
    OpRead(arriving, taken, status) \/ Store(arriving, taken, status)

Internal(arriving, taken, status) ==
    \/ LatchOp(arriving, taken, status)
    \/ OpWrite(arriving, taken, status)
    \/ ShiftIn(arriving, taken, status)
    \/ ShiftOut(arriving, taken, status)
    \/ Answered(arriving, taken, status)
    \/ Hold(arriving, taken, status)

Edge(arriving, taken) ==
    /\ arriving # <<>> => gap = 0 /\ wire # <<>>
    /\ taken => txq # <<>>
    /\ \E status \in [ReadReg -> Value] :
         \/ Effect(arriving, taken, status) /\ pending' = SubSeq(pending, 2, Len(pending))
         \/ Internal(arriving, taken, status) /\ UNCHANGED pending
    /\ ByteIn(arriving) /\ ByteOut(taken)

Arriving == IF wire = <<>> THEN {<<>>} ELSE {<<>>, <<Head(wire)>>}

Clock == \E arriving \in Arriving, taken \in BOOLEAN : Edge(arriving, taken)

Next ==
    \/ \E a \in Reg \ ReadReg, w \in Value : HostWrite(a, w)
    \/ \E a \in Reg : HostRead(a)
    \/ Clock

\* The clock runs, the line delivers what was sent and takes what is queued.
Spec ==
    /\ Init /\ [][Next]_vars
    /\ WF_vars(Clock)
    /\ WF_vars(\E arriving \in Arriving \ {<<>>}, taken \in BOOLEAN : Edge(arriving, taken))
    /\ WF_vars(\E arriving \in Arriving : Edge(arriving, TRUE))

-----------------------------------------------------------------------------

\* Every register of the file and of the link holds a value of its type.
TypeOK ==
    /\ FileTypeOK
    /\ wire \in Seq(Byte) /\ Len(wire) <= MaxWire
    /\ gap \in 0 .. BytePace - 1
    /\ awaiting \in BOOLEAN
    /\ got \in Seq(Byte) /\ Len(got) < WordBytes
    /\ answer \in Word
    /\ pending \in Seq([read : BOOLEAN, addr : Reg, word : Word])

\* The bytes of the present command that the state machine has taken.
Consumed ==
    CASE r_state = "OP" -> <<r_op>>
      [] r_state = "WR" -> <<r_op>> \o SubSeq(r_wr_data, WordBytes - r_bcnt + 1, WordBytes)
      [] OTHER -> <<>>

\* Framing: what the state machine has consumed, what waits in the queue and
\* what is on the wire are the commands still to take effect, byte for byte.
\* A byte lost or taken twice would turn data into commands for ever after.
StreamIntact ==
    Consumed \o rxq \o wire = FlattenSeq([i \in DOMAIN pending |-> Bytes(pending[i])])

\* The state machine keeps up with the line: a byte never finds the queue full.
QueueHasRoom == Len(rxq) < Depth

\* No byte of an answer is left over for the next read.
NothingLeftOver ==
    ~awaiting => txq = <<>> /\ got = <<>> /\ (r_state = "RD" => r_bcnt = WordBytes)

\* The bytes of an answer, wherever they are.
Reply == got \o txq \o IF r_state = "RD" THEN SubSeq(r_rd_data, 1, WordBytes - r_bcnt) ELSE <<>>

File == INSTANCE RegisterFile WITH
    regs <- r_regs,
    reply <- IF awaiting /\ pending = <<>> THEN <<Reply>> ELSE <<>>

\* Each command takes effect once, whole and in order, each answer is the word
\* of one moment, and all of this happens (the checks of
\* rtl/tb/uart_regs_tb.sv: wait_reg_eq, the byte comparison after a read).
ServesCommands == File!Spec
=============================================================================
