---------------------------- MODULE HostSessions ----------------------------
(***************************************************************************)
(* The sessions of asm/squish.py, one after another, each of which may be  *)
(* killed between any two commands and leaves the registers as they are.   *)
(* A session either starts channels, each with a strobe() of three writes, *)
(* or reads the program of a channel back (read_via_serial()): it          *)
(* addresses a word, strobes the channel, reads the parts of the word one  *)
(* after another and clears the strobe.                                    *)
(*                                                                         *)
(* Behind the two strobe registers are edge detectors; on the way back are *)
(* the read port of the channel's memory, the latch o_insn_rd of           *)
(* rtl/src/serial_sequencer.sv, the multiplexer of rtl/src/processor.sv    *)
(* and the status registers of rtl/src/uart_regs.sv.                       *)
(*                                                                         *)
(* A word is known by the channel and the address it is stored at.         *)
(***************************************************************************)
EXTENDS EdgeDetector, Naturals, Sequences, FiniteSetsExt

CONSTANTS
    NumDcChannel,   \* channels, 24
    Addr,           \* addresses of a program
    Parts,          \* registers of a word, DC_REG_PER_INSN = 3
    Pace            \* clocks from one command of the host to the next

ASSUME SessionsAssumption ==
    /\ NumDcChannel \in Nat \ {0} /\ Parts \in Nat \ {0}
    /\ Pace \in Nat /\ Pace >= 4

Channels == 0 .. NumDcChannel - 1
Words    == Channels \X Addr
NoWord   == <<>>

VARIABLES
    active,       \* channels whose sequencer fetches (p.r_active)
    addr,         \* the address register
    start_strb,   \* START_STRB_REG
    start_edge,   \* its edge detectors
    ild_strb,     \* ILD_STRB_REG
    ild_edge,     \* its edge detectors
    dout,         \* the address each memory has read last
    insn_rd,      \* the word each channel has latched
    slot,         \* the status registers with the parts of one word
    session,      \* NONE, SEND or READ
    chan,         \* the channel the session is about
    todo,         \* commands still to be sent
    quiet,        \* clocks until the next one can arrive
    seen,         \* start pulses of each channel since its strobe began
    got,          \* for each part, the word it was taken from
    target,       \* the word asked for
    undisturbed   \* the channel has not been active since the word was asked for

registers == <<addr, start_strb, ild_strb>>
hardware == <<active, registers, start_edge, ild_edge, dout, insn_rd, slot>>
host == <<session, chan, todo, quiet, seen, got, target, undisturbed>>
vars == <<hardware, host>>

NonePulsed == [c \in Channels |-> 0]

Init ==
    /\ active = {} /\ addr \in Addr
    /\ start_strb = {} /\ start_edge = DetectorInit
    /\ ild_strb = {} /\ ild_edge = DetectorInit
    /\ dout = [c \in Channels |-> addr]
    /\ insn_rd = [c \in Channels |-> NoWord] /\ slot = NoWord
    /\ session = "NONE" /\ chan = 0 /\ todo = <<>> /\ quiet = 0
    /\ seen = NonePulsed
    /\ got = <<>> /\ target = NoWord /\ undisturbed = FALSE

-----------------------------------------------------------------------------
(* The host. *)

SetAddr(a)    == [op |-> "addr", addr |-> a]
SetStart(cs)  == [op |-> "start", level |-> cs]
SetIld(cs)    == [op |-> "ild", level |-> cs]
ReadPart      == [op |-> "read"]

\* Fault: the register is not cleared first.
StrobeOpsUncleared(c) == <<SetStart({c}), SetStart({})>>

\* Clear, assert, clear.
StrobeOps(c) == <<SetStart({}), SetStart({c}), SetStart({})>>

\* Fault: the strobe is not cleared behind a word.
ReadOpsUncleared(c, a) ==
    <<SetAddr(a), SetIld({c})>> \o [p \in 1 .. Parts |-> ReadPart]

ReadOps(c, a) ==
    <<SetAddr(a), SetIld({c})>> \o [p \in 1 .. Parts |-> ReadPart] \o <<SetIld({})>>

\* A session takes longer to begin than a command to arrive.
StartChannel(c) ==
    /\ session \in {"NONE", "SEND"} /\ todo = <<>> /\ quiet = 0
    /\ session' = "SEND" /\ chan' = c
    /\ todo' = StrobeOps(c) /\ seen' = NonePulsed
    /\ UNCHANGED <<hardware, quiet, got, target, undisturbed>>

OpenReading(c) ==
    /\ session = "NONE" /\ quiet = 0
    /\ session' = "READ" /\ chan' = c
    /\ todo' = <<SetIld({})>>
    /\ UNCHANGED <<hardware, quiet, seen, got, target, undisturbed>>

AskWord(a) ==
    /\ session = "READ" /\ todo = <<>>
    /\ todo' = ReadOps(chan, a)
    /\ target' = <<chan, a>> /\ got' = <<>>
    /\ undisturbed' = (chan \notin active)
    /\ UNCHANGED <<hardware, session, chan, quiet, seen>>

\* The session is over, or killed.
CloseSession ==
    /\ session # "NONE"
    /\ session' = "NONE" /\ todo' = <<>>
    /\ seen' = NonePulsed
    /\ got' = <<>> /\ target' = NoWord /\ undisturbed' = FALSE
    /\ UNCHANGED <<hardware, chan, quiet>>

-----------------------------------------------------------------------------
(* A rising edge of i_clk. *)

CommandArrives ==
    LET c == Head(todo)
    IN  /\ todo # <<>> /\ quiet = 0
        /\ todo' = Tail(todo) /\ quiet' = Pace
        /\ addr'       = IF c.op = "addr"  THEN c.addr  ELSE addr
        /\ start_strb' = IF c.op = "start" THEN c.level ELSE start_strb
        /\ ild_strb'   = IF c.op = "ild"   THEN c.level ELSE ild_strb
        /\ got'        = IF c.op = "read"  THEN Append(got, slot) ELSE got

NoCommand ==
    /\ quiet' = IF quiet > 0 THEN quiet - 1 ELSE 0
    /\ UNCHANGED <<todo, registers, got>>

\* The highest selected channel.
Mux == IF ild_strb = {} THEN NoWord ELSE insn_rd[Max(ild_strb)]

\* A memory reads the host's address, or the one its sequencer fetches.
Port == \E fetched \in [active -> Addr] :
          dout' = [c \in Channels |-> IF c \in active THEN fetched[c] ELSE addr]

Latch == insn_rd' = [c \in Channels |->
                       IF c \in ild_edge.pulse THEN <<c, dout[c]>> ELSE insn_rd[c]]

\* A start pulse starts a run; runs end at any time.
Runs == \E ended \in SUBSET active : active' = (active \ ended) \cup start_edge.pulse

Clock ==
    /\ CommandArrives \/ NoCommand
    /\ start_edge' = Sense(start_edge, start_strb)
    /\ ild_edge' = Sense(ild_edge, ild_strb)
    /\ Runs /\ Port /\ Latch
    /\ slot' = Mux
    /\ seen' = [c \in Channels |-> IF session = "SEND" /\ c \in start_edge.pulse
                                   THEN seen[c] + 1 ELSE seen[c]]
    /\ undisturbed' = (undisturbed /\ chan \notin active')
    /\ UNCHANGED <<session, chan, target>>

Next ==
    \/ \E c \in Channels : StartChannel(c) \/ OpenReading(c)
    \/ \E a \in Addr : AskWord(a)
    \/ CloseSession
    \/ Clock

Spec == Init /\ [][Next]_vars

-----------------------------------------------------------------------------

\* Every register of the strobes, of the read-back path and of the host holds a
\* value of its type.
TypeOK ==
    /\ active \subseteq Channels /\ addr \in Addr
    /\ start_strb \subseteq Channels /\ start_edge \in Detectors(Channels)
    /\ ild_strb \subseteq Channels /\ ild_edge \in Detectors(Channels)
    /\ dout \in [Channels -> Addr]
    /\ insn_rd \in [Channels -> Words \cup {NoWord}] /\ slot \in Words \cup {NoWord}
    /\ session \in {"NONE", "SEND", "READ"} /\ chan \in Channels
    /\ Len(todo) <= Parts + 3 /\ quiet \in 0 .. Pace
    /\ seen \in [Channels -> Nat]
    /\ got \in Seq(Words \cup {NoWord}) /\ Len(got) <= Parts
    /\ target \in Words \cup {NoWord}
    /\ undisturbed \in BOOLEAN

\* A strobe that was sent in full has given its channel exactly one start pulse
\* and the others none, in whatever state an earlier session left the register
\* ("Clear -> assert -> clear for edge-detected strobes", asm/squish.py:713).
StrobesOnce ==
    session = "SEND" /\ todo = <<>> /\ quiet = 0 =>
        seen = [c \in Channels |-> IF c = chan THEN 1 ELSE 0]

\* No channel is started by another one's strobe, nor by the clearing of a
\* register that was left high.
NoStrayStart == start_edge.pulse \subseteq {chan}

\* What the host reads of a channel at rest is the word it addressed, whatever
\* the other channels do and whatever an earlier session left behind.
ReadsStored == undisturbed => \A p \in DOMAIN got : got[p] = target

\* The parts of a word are read one after another, and are still parts of one
\* word of the channel, even if the channel is running.
ReadsWhole ==
    \A p \in DOMAIN got : got[p] = got[1] /\ got[p] # NoWord /\ got[p][1] = target[1]
=============================================================================
