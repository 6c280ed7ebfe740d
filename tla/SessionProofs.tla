---------------------------- MODULE SessionProofs ----------------------------
(***************************************************************************)
(* The sessions of asm/squish.py strobe exactly the channel they mean and  *)
(* read the words they ask for, wherever an earlier session was killed:    *)
(* for every number of channels, addresses and parts of a word, and every  *)
(* pace of the host of at least four clocks between two commands.          *)
(***************************************************************************)
EXTENDS HostSessions, TLAPS

-----------------------------------------------------------------------------
(* The inductive invariant. *)

\* The detectors of a strobe register have followed its last write: a level is
\* seen one clock after it, again two clocks after it, and its pulse is over
\* after three.  Only the session's channel, c, may be rising; q clocks are left
\* before the next write.
Follows(d, strobe, q, c) ==
    /\ q < Pace => d.ff1 = strobe
    /\ q < Pace - 1 => d.ff2 = strobe
    /\ q # Pace - 2 => d.pulse = {}
    /\ q = Pace => d.ff2 = d.ff1
    /\ strobe \ d.ff1 \subseteq {c}
    /\ d.ff1 \ d.ff2 \subseteq {c}
    /\ d.pulse \subseteq {c}

\* The register was low when it was last written.
WasLow(d, q, c) ==
    /\ q = Pace => d.ff1 = {}
    /\ q >= Pace - 1 => d.ff2 = {}
    /\ q = Pace - 2 => d.pulse = {c}

\* The register is low, and no edge of it is on the way through the detectors.
IsLow(d, strobe) == strobe = {} /\ d.ff1 \subseteq d.ff2 /\ d.pulse = {}

OncePulsed == [c \in Channels |-> IF c = chan THEN 1 ELSE 0]

\* A session that starts channels, by what is left of its strobe.
Strobing ==
    \/ todo = StrobeOps(chan) /\ quiet = 0 /\ seen = NonePulsed
    \/ /\ todo = <<SetStart({chan}), SetStart({})>>
       /\ IsLow(start_edge, start_strb) /\ seen = NonePulsed
    \/ /\ todo = <<SetStart({})>>
       /\ start_strb = {chan} /\ WasLow(start_edge, quiet, chan)
       /\ seen = IF quiet < Pace - 2 THEN OncePulsed ELSE NonePulsed
    \/ /\ todo = <<>>
       /\ IsLow(start_edge, start_strb) /\ seen = OncePulsed

\* The last n commands of reading the target.
LastReadOps(n) == SubSeq(ReadOps(chan, target[2]), Parts + 4 - n, Parts + 3)

\* The channel has read the memory where it was told to.
Addressed ==
    addr = target[2] /\ (quiet < Pace /\ undisturbed => dout[chan] = target[2])

\* The channel has latched a word of its own, the target if it is at rest.
Latched ==
    insn_rd[chan] \in {chan} \X Addr /\ (undisturbed => insn_rd[chan] = target)

\* A word being read, by how many commands are left.
Reading ==
    LET n == Len(todo)
    IN  \/ n = Parts + 3 /\ got = <<>> /\ ild_strb = {}
        \/ n = Parts + 2 /\ got = <<>> /\ ild_strb = {} /\ Addressed
        \/ /\ n = Parts + 1 /\ got = <<>>
           /\ ild_strb = {chan} /\ WasLow(ild_edge, quiet, chan)
           /\ Addressed /\ (undisturbed => dout[chan] = target[2])
           /\ quiet < Pace - 2 => Latched
           /\ quiet < Pace - 3 => slot = insn_rd[chan]
        \/ /\ n \in 1 .. Parts /\ Len(got) = Parts + 1 - n
           /\ ild_strb = {chan}
           /\ ild_edge = [ff1 |-> {chan}, ff2 |-> {chan}, pulse |-> {}]
           /\ Latched /\ slot = insn_rd[chan]
           /\ \A p \in DOMAIN got : got[p] = insn_rd[chan]
        \/ /\ n = 0 /\ Len(got) = Parts /\ ild_strb = {}
           /\ \E w \in {chan} \X Addr :
                 (undisturbed => w = target) /\ \A p \in DOMAIN got : got[p] = w

SessionInv ==
    /\ TypeOK
    /\ Follows(start_edge, start_strb, quiet, chan)
    /\ Follows(ild_edge, ild_strb, quiet, chan)
    /\ \E c \in Channels : ild_strb \subseteq {c}
    /\ undisturbed => chan \notin active
    /\ session = "NONE" => todo = <<>>
    /\ session = "SEND" => Strobing
    /\ session # "READ" => got = <<>> /\ target = NoWord
    /\ target = NoWord => got = <<>> /\ ~undisturbed
    /\ session = "READ" /\ target = NoWord =>
          \/ todo = <<SetIld({})>> /\ quiet = 0
          \/ todo = <<>> /\ ild_strb = {}
    /\ session = "READ" /\ target # NoWord =>
          target \in {chan} \X Addr /\ todo = LastReadOps(Len(todo)) /\ Reading

-----------------------------------------------------------------------------
(* The edge detectors. *)

\* A command cannot come before the detectors have settled.
LEMMA PaceRange == Pace \in Nat /\ Pace >= 4 /\ 0 < Pace - 2 /\ Parts \in Nat \ {0}
  BY SessionsAssumption

\* The detectors of a register after a clock have the type of detectors.
LEMMA SenseType ==
    ASSUME NEW bits, NEW d \in Detectors(bits), NEW s \in SUBSET bits
    PROVE  /\ Sense(d, s) \in Detectors(bits)
           /\ Sense(d, s).ff1 = s
           /\ Sense(d, s).ff2 = d.ff1
           /\ Sense(d, s).pulse = d.ff1 \ d.ff2
  <1>1. Sense(d, s) = [ff1 |-> s, ff2 |-> d.ff1, pulse |-> d.ff1 \ d.ff2]
    BY DEF Sense
  <1>2. d.ff1 \in SUBSET bits /\ d.ff1 \ d.ff2 \in SUBSET bits
    BY DEF Detectors
  <1> QED BY <1>1, <1>2 DEF Detectors

\* A clock without a write: the detectors go on following the last one.
LEMMA QuietFollows ==
    ASSUME NEW bits, NEW d \in Detectors(bits), NEW s \in SUBSET bits,
           NEW q \in 0 .. Pace, NEW c, Follows(d, s, q, c)
    PROVE  Follows(Sense(d, s), s, IF q > 0 THEN q - 1 ELSE 0, c)
  <1>1. CASE q > 0
    <2>1. q = Pace \/ q = Pace - 1 \/ q = Pace - 2 \/ q < Pace - 2
      BY PaceRange
    <2> QED BY <1>1, <2>1, SenseType, PaceRange DEF Follows
  <1>2. CASE q = 0
    BY <1>2, SenseType, PaceRange DEF Follows
  <1> QED BY <1>1, <1>2

\* A clock with a write, to this register or to another.
LEMMA WriteFollows ==
    ASSUME NEW bits, NEW d \in Detectors(bits), NEW s \in SUBSET bits,
           NEW c, Follows(d, s, 0, c), NEW t, t \ s \subseteq {c}
    PROVE  Follows(Sense(d, s), t, Pace, c)
  BY SenseType, PaceRange DEF Follows

\* With nothing on the way the detectors follow for any channel.
LEMMA SettledFollows ==
    ASSUME NEW d, NEW s, NEW c, NEW e, Follows(d, s, 0, c)
    PROVE  Follows(d, s, 0, e) /\ d.ff1 = s /\ d.ff2 = s /\ d.pulse = {}
  BY PaceRange DEF Follows

\* A register that is cleared once the detectors have settled is low.
LEMMA ClearedIsLow ==
    ASSUME NEW bits, NEW d \in Detectors(bits), NEW s \in SUBSET bits,
           NEW c, Follows(d, s, 0, c)
    PROVE  IsLow(Sense(d, s), {})
  BY SenseType, SettledFollows DEF IsLow

\* A low register stays low until it is written.
LEMMA StaysLow ==
    ASSUME NEW bits, NEW d \in Detectors(bits), NEW s \in SUBSET bits, IsLow(d, s)
    PROVE  IsLow(Sense(d, s), s)
  BY SenseType DEF IsLow

\* A register raised once the detectors have settled was low when written.
LEMMA RaisedWasLow ==
    ASSUME NEW bits, NEW d \in Detectors(bits), NEW c, Follows(d, {}, 0, c)
    PROVE  WasLow(Sense(d, {}), Pace, c)
  BY SenseType, SettledFollows, PaceRange DEF WasLow

\* Its pulse is there two clocks later.
LEMMA RisingWasLow ==
    ASSUME NEW bits, NEW d \in Detectors(bits), NEW q \in 0 .. Pace,
           NEW c, {c} \in SUBSET bits, Follows(d, {c}, q, c), WasLow(d, q, c)
    PROVE  WasLow(Sense(d, {c}), IF q > 0 THEN q - 1 ELSE 0, c)
  <1>1. CASE q > 0
    <2>1. q = Pace \/ q = Pace - 1 \/ q < Pace - 1
      BY PaceRange
    <2> QED BY <1>1, <2>1, SenseType, PaceRange DEF Follows, WasLow
  <1>2. CASE q = 0
    BY <1>2, SenseType, PaceRange DEF Follows, WasLow
  <1> QED BY <1>1, <1>2

-----------------------------------------------------------------------------
(* The commands. *)

Commands ==
    {ReadPart} \cup {SetAddr(a) : a \in Addr}
    \cup {SetStart(cs) : cs \in SUBSET Channels} \cup {SetIld(cs) : cs \in SUBSET Channels}

\* The commands are told apart by what they are about.
LEMMA CommandFields ==
    /\ ReadPart.op = "read"
    /\ \A a : SetAddr(a).op = "addr" /\ SetAddr(a).addr = a
    /\ \A cs : SetStart(cs).op = "start" /\ SetStart(cs).level = cs
    /\ \A cs : SetIld(cs).op = "ild" /\ SetIld(cs).level = cs
  BY DEF ReadPart, SetAddr, SetStart, SetIld

\* One sequence of commands behind another.
LEMMA Joined ==
    ASSUME NEW s \in Seq(Commands), NEW t \in Seq(Commands)
    PROVE  /\ s \o t \in Seq(Commands) /\ Len(s \o t) = Len(s) + Len(t)
           /\ \A n \in 1 .. Len(s) : (s \o t)[n] = s[n]
           /\ \A n \in 1 .. Len(t) : (s \o t)[Len(s) + n] = t[n]
  OBVIOUS

\* Reading a word is addressing, strobing, reading the parts and clearing.
LEMMA ReadOpsAt ==
    ASSUME NEW c \in Channels, NEW a \in Addr
    PROVE  /\ ReadOps(c, a) \in Seq(Commands) /\ Len(ReadOps(c, a)) = Parts + 3
           /\ ReadOps(c, a)[1] = SetAddr(a)
           /\ ReadOps(c, a)[2] = SetIld({c})
           /\ \A n \in 3 .. Parts + 2 : ReadOps(c, a)[n] = ReadPart
           /\ ReadOps(c, a)[Parts + 3] = SetIld({})
  <1> DEFINE ask   == <<SetAddr(a), SetIld({c})>>
             parts == [p \in 1 .. Parts |-> ReadPart]
             clear == <<SetIld({})>>
  <1>1. /\ SetAddr(a) \in Commands /\ SetIld({c}) \in Commands
        /\ SetIld({}) \in Commands /\ ReadPart \in Commands
    BY DEF Commands
  <1>2. /\ ask \in Seq(Commands) /\ Len(ask) = 2
        /\ ask[1] = SetAddr(a) /\ ask[2] = SetIld({c})
    <2> HIDE DEF Commands
    <2> QED BY <1>1
  <1>3. /\ parts \in Seq(Commands) /\ Len(parts) = Parts
        /\ \A p \in 1 .. Parts : parts[p] = ReadPart
    BY <1>1, PaceRange
  <1>4. clear \in Seq(Commands) /\ Len(clear) = 1 /\ clear[1] = SetIld({})
    BY <1>1
  <1> HIDE DEF ask, parts, clear
  <1>5. /\ ask \o parts \in Seq(Commands) /\ Len(ask \o parts) = Len(ask) + Len(parts)
        /\ \A n \in 1 .. Len(ask) : (ask \o parts)[n] = ask[n]
        /\ \A n \in 1 .. Len(parts) : (ask \o parts)[Len(ask) + n] = parts[n]
    BY <1>2, <1>3, Joined
  <1>6. ASSUME NEW n \in 3 .. Parts + 2
        PROVE  (ask \o parts)[n] = ReadPart
    <2> DEFINE m == n - 2
    <2>1. m \in 1 .. Parts /\ 2 + m = n
      BY PaceRange
    <2> HIDE DEF m
    <2> QED BY <1>2, <1>3, <1>5, <2>1
  <1> DEFINE front == ask \o parts
  <1>7. /\ front \in Seq(Commands) /\ Len(front) = Parts + 2
        /\ front[1] = SetAddr(a) /\ front[2] = SetIld({c})
        /\ \A n \in 3 .. Parts + 2 : front[n] = ReadPart
    <2>1. Len(ask) + Len(parts) = Parts + 2 /\ 1 \in 1 .. Len(ask) /\ 2 \in 1 .. Len(ask)
      BY <1>2, <1>3, PaceRange
    <2>2. front[1] = SetAddr(a) /\ front[2] = SetIld({c})
      BY <1>2, <1>5, <2>1
    <2> QED BY <1>5, <1>6, <2>1, <2>2, Zenon
  <1> HIDE DEF front
  <1>8. /\ front \o clear \in Seq(Commands) /\ Len(front \o clear) = Parts + 3
        /\ \A n \in 1 .. Parts + 2 : (front \o clear)[n] = front[n]
        /\ (front \o clear)[Parts + 3] = clear[1]
    <2>1. /\ front \o clear \in Seq(Commands)
          /\ Len(front \o clear) = Len(front) + Len(clear)
          /\ \A n \in 1 .. Len(front) : (front \o clear)[n] = front[n]
          /\ \A n \in 1 .. Len(clear) : (front \o clear)[Len(front) + n] = clear[n]
      BY <1>4, <1>7, Joined
    <2>2. Len(front) + 1 = Parts + 3 /\ 1 \in 1 .. Len(clear)
      BY <1>4, <1>7, PaceRange
    <2>3. (front \o clear)[Parts + 3] = clear[1]
      BY <2>1, <2>2
    <2> QED BY <1>4, <1>7, <2>1, <2>2, <2>3
  <1>9. ReadOps(c, a) = front \o clear
    BY DEF ReadOps, front, ask, parts, clear
  <1> QED BY <1>4, <1>7, <1>8, <1>9, PaceRange

\* Sending a command of a reading leaves the commands behind it.
LEMMA LastReadOpsMove ==
    ASSUME chan \in Channels, target[2] \in Addr, NEW n \in 0 .. Parts + 3
    PROVE  /\ LastReadOps(n) \in Seq(Commands) /\ Len(LastReadOps(n)) = n
           /\ n > 0 => /\ Head(LastReadOps(n)) = ReadOps(chan, target[2])[Parts + 4 - n]
                       /\ Tail(LastReadOps(n)) = LastReadOps(n - 1)
           /\ LastReadOps(Parts + 3) = ReadOps(chan, target[2])
  <1> DEFINE r == ReadOps(chan, target[2])
             k == Parts + 4 - n
  <1>1. r \in Seq(Commands) /\ Len(r) = Parts + 3
    BY ReadOpsAt
  <1>2. k \in 1 .. Parts + 4 /\ Parts + 3 - k + 1 = n
    BY PaceRange
  <1> HIDE DEF r, k
  <1>3. SubSeq(r, k, Parts + 3) \in Seq(Commands) /\ Len(SubSeq(r, k, Parts + 3)) = n
    BY <1>1, <1>2, PaceRange
  <1>4. ASSUME n > 0
        PROVE  /\ Head(SubSeq(r, k, Parts + 3)) = r[k]
               /\ Tail(SubSeq(r, k, Parts + 3)) = SubSeq(r, k + 1, Parts + 3)
    BY <1>1, <1>2, <1>4, PaceRange
  <1>5. SubSeq(r, 1, Parts + 3) = r
    BY <1>1, PaceRange
  <1>6. LastReadOps(n) = SubSeq(r, k, Parts + 3)
    BY DEF LastReadOps, r, k
  <1>7. LastReadOps(n - 1) = SubSeq(r, k + 1, Parts + 3)
    <2>1. Parts + 4 - (n - 1) = k + 1
      BY PaceRange DEF k
    <2> QED BY <2>1 DEF LastReadOps, r
  <1>8. LastReadOps(Parts + 3) = r
    <2>1. Parts + 4 - (Parts + 3) = 1
      BY PaceRange
    <2> QED BY <1>5, <2>1 DEF LastReadOps, r
  <1> QED BY <1>3, <1>4, <1>6, <1>7, <1>8 DEF r, k

-----------------------------------------------------------------------------
(* Types, clock by clock. *)

\* The highest of a single channel.
LEMMA MaxOfOne ==
    ASSUME NEW c \in Channels
    PROVE  Max({c}) = c
  <1>1. c \in Nat
    BY SessionsAssumption DEF Channels
  <1>2. \A x \in {c} : (\A y \in {c} : x >= y) <=> x = c
    BY <1>1
  <1>3. \E x \in {c} : \A y \in {c} : x >= y
    BY <1>2
  <1> QED BY <1>2, <1>3 DEF Max

\* NoWord is no word of any channel.
LEMMA NoWordIsNone == \A w \in Words : w # NoWord
  BY DEF Words, NoWord

\* While one channel is selected the multiplexer gives its latch.
LEMMA MuxOfOne ==
    ASSUME NEW c \in Channels
    PROVE  /\ ild_strb = {c} => Mux = insn_rd[c]
           /\ ild_strb = {} => Mux = NoWord
  BY MaxOfOne DEF Mux

\* The hardware and the observed counts keep their types in every clock.
LEMMA HardwareTypes ==
    ASSUME SessionInv, Clock
    PROVE  /\ active' \subseteq Channels
           /\ start_edge' \in Detectors(Channels) /\ ild_edge' \in Detectors(Channels)
           /\ dout' \in [Channels -> Addr]
           /\ insn_rd' \in [Channels -> Words \cup {NoWord}]
           /\ slot' \in Words \cup {NoWord}
           /\ seen' \in [Channels -> Nat]
           /\ undisturbed' \in BOOLEAN
  <1>1. TypeOK
    BY DEF SessionInv
  <1>2. active' \subseteq Channels
    <2>1. start_edge.pulse \subseteq Channels
      BY <1>1 DEF TypeOK, Detectors
    <2> QED BY <1>1, <2>1 DEF Clock, Runs, TypeOK
  <1>3. start_edge' \in Detectors(Channels) /\ ild_edge' \in Detectors(Channels)
    BY <1>1, SenseType DEF Clock, TypeOK
  <1>4. dout' \in [Channels -> Addr]
    BY <1>1 DEF Clock, Port, TypeOK
  <1>5. insn_rd' \in [Channels -> Words \cup {NoWord}]
    BY <1>1 DEF Clock, Latch, TypeOK, Words
  <1>6. slot' \in Words \cup {NoWord}
    <2>1. PICK c \in Channels : ild_strb \subseteq {c}
      BY DEF SessionInv
    <2>2. Mux = insn_rd[c] \/ Mux = NoWord
      BY <2>1, MuxOfOne
    <2> QED BY <1>1, <2>2 DEF Clock, TypeOK
  <1>7. seen' \in [Channels -> Nat]
    BY <1>1 DEF Clock, TypeOK
  <1>8. undisturbed' \in BOOLEAN
    BY <1>1 DEF Clock, TypeOK
  <1> QED BY <1>2, <1>3, <1>4, <1>5, <1>6, <1>7, <1>8

\* A channel asked for a word at rest is at rest as long as that is recorded.
LEMMA RestKept ==
    ASSUME Clock
    PROVE  /\ undisturbed' => undisturbed /\ chan' \notin active'
           /\ undisturbed' /\ chan \in Channels /\ chan \notin active => dout'[chan] = addr
  BY DEF Clock, Port

\* A clock in which no command arrives.
LEMMA QuietClock ==
    ASSUME SessionInv, Clock, NoCommand
    PROVE  /\ quiet' = IF quiet > 0 THEN quiet - 1 ELSE 0
           /\ quiet \in 0 .. Pace /\ quiet' \in 0 .. Pace
           /\ UNCHANGED <<session, chan, target, todo, addr, start_strb, ild_strb, got>>
           /\ Follows(start_edge', start_strb', quiet', chan')
           /\ Follows(ild_edge', ild_strb', quiet', chan')
  <1>1. /\ quiet' = IF quiet > 0 THEN quiet - 1 ELSE 0
        /\ UNCHANGED <<session, chan, target, todo, addr, start_strb, ild_strb, got>>
    BY DEF Clock, NoCommand, registers
  <1>2. TypeOK
    BY DEF SessionInv
  <1>3. quiet \in 0 .. Pace /\ quiet' \in 0 .. Pace
    BY <1>1, <1>2, PaceRange DEF TypeOK
  <1>4. /\ start_edge \in Detectors(Channels) /\ start_strb \in SUBSET Channels
        /\ ild_edge \in Detectors(Channels) /\ ild_strb \in SUBSET Channels
    BY <1>2 DEF TypeOK
  <1>5. Follows(Sense(start_edge, start_strb), start_strb,
                IF quiet > 0 THEN quiet - 1 ELSE 0, chan)
    BY <1>3, <1>4, QuietFollows DEF SessionInv
  <1>6. Follows(Sense(ild_edge, ild_strb), ild_strb,
                IF quiet > 0 THEN quiet - 1 ELSE 0, chan)
    BY <1>3, <1>4, QuietFollows DEF SessionInv
  <1> QED BY <1>1, <1>3, <1>5, <1>6 DEF Clock

\* A clock in which a command arrives that raises at most the session's channel.
LEMMA CommandClock ==
    ASSUME SessionInv, Clock, CommandArrives,
           start_strb' \ start_strb \subseteq {chan}, ild_strb' \ ild_strb \subseteq {chan}
    PROVE  /\ quiet = 0 /\ quiet' = Pace
           /\ UNCHANGED <<session, chan, target>>
           /\ Follows(start_edge', start_strb', quiet', chan')
           /\ Follows(ild_edge', ild_strb', quiet', chan')
  <1>1. /\ quiet = 0 /\ quiet' = Pace
        /\ UNCHANGED <<session, chan, target>>
    BY DEF Clock, CommandArrives
  <1>2. TypeOK
    BY DEF SessionInv
  <1>3. /\ start_edge \in Detectors(Channels) /\ start_strb \in SUBSET Channels
        /\ ild_edge \in Detectors(Channels) /\ ild_strb \in SUBSET Channels
    BY <1>2 DEF TypeOK
  <1>4. Follows(start_edge, start_strb, 0, chan) /\ Follows(ild_edge, ild_strb, 0, chan)
    BY <1>1 DEF SessionInv
  <1>5. Follows(Sense(start_edge, start_strb), start_strb', Pace, chan)
    BY <1>3, <1>4, WriteFollows
  <1>6. Follows(Sense(ild_edge, ild_strb), ild_strb', Pace, chan)
    BY <1>3, <1>4, WriteFollows
  <1> QED BY <1>1, <1>5, <1>6 DEF Clock

\* What a command that arrives does to the registers.
LEMMA CommandDoes ==
    ASSUME CommandArrives
    PROVE  /\ \A a : Head(todo) = SetAddr(a) =>
                  addr' = a /\ UNCHANGED <<start_strb, ild_strb, got>>
           /\ \A cs : Head(todo) = SetStart(cs) =>
                  start_strb' = cs /\ UNCHANGED <<addr, ild_strb, got>>
           /\ \A cs : Head(todo) = SetIld(cs) =>
                  ild_strb' = cs /\ UNCHANGED <<addr, start_strb, got>>
           /\ Head(todo) = ReadPart =>
                  got' = Append(got, slot) /\ UNCHANGED <<addr, start_strb, ild_strb>>
  BY CommandFields DEF CommandArrives

-----------------------------------------------------------------------------
(* A session that starts channels. *)

\* The start pulses of the session's channel are counted, one each.
LEMMA SeenCounts ==
    ASSUME TypeOK, Clock
    PROVE  /\ start_edge.pulse = {} => seen' = seen
           /\ session = "SEND" /\ start_edge.pulse = {chan} /\ seen = NonePulsed =>
                  seen' = OncePulsed
  <1>1. seen' = [c \in Channels |-> IF session = "SEND" /\ c \in start_edge.pulse
                                   THEN seen[c] + 1 ELSE seen[c]]
    BY DEF Clock
  <1>2. seen = [c \in Channels |-> seen[c]]
    BY DEF TypeOK
  <1>3. ASSUME start_edge.pulse = {} PROVE seen' = seen
    BY <1>1, <1>2, <1>3
  <1>4. ASSUME session = "SEND", start_edge.pulse = {chan}, seen = NonePulsed
        PROVE  seen' = OncePulsed
    <2>1. seen' = [c \in Channels |-> IF c = chan THEN NonePulsed[c] + 1 ELSE NonePulsed[c]]
      BY <1>1, <1>4
    <2> QED BY <2>1 DEF NonePulsed, OncePulsed
  <1> QED BY <1>3, <1>4

\* Between two commands a strobe goes on, and its pulse is counted.
LEMMA StrobeWaits ==
    ASSUME SessionInv, Clock, NoCommand, session = "SEND"
    PROVE  Strobing'
  <1>1. TypeOK /\ Follows(start_edge, start_strb, quiet, chan) /\ Strobing
    BY DEF SessionInv
  <1>2. /\ quiet' = IF quiet > 0 THEN quiet - 1 ELSE 0
        /\ quiet \in 0 .. Pace
        /\ chan' = chan /\ todo' = todo /\ start_strb' = start_strb
    BY QuietClock
  <1>3. /\ start_edge' = Sense(start_edge, start_strb)
        /\ start_edge \in Detectors(Channels) /\ start_strb \in SUBSET Channels
        /\ {chan} \in SUBSET Channels
    BY <1>1 DEF Clock, TypeOK
  <1>4. quiet # Pace - 2 => start_edge.pulse = {}
    BY <1>1 DEF Follows
  <1>5. CASE todo = StrobeOps(chan) /\ quiet = 0 /\ seen = NonePulsed
    <2>1. seen' = NonePulsed
      BY <1>1, <1>4, <1>5, SeenCounts, PaceRange
    <2> QED BY <1>2, <1>5, <2>1 DEF Strobing, NonePulsed
  <1>6. CASE /\ todo = <<SetStart({chan}), SetStart({})>>
             /\ IsLow(start_edge, start_strb) /\ seen = NonePulsed
    <2>1. IsLow(start_edge', start_strb')
      BY <1>2, <1>3, <1>6, StaysLow
    <2>2. seen' = NonePulsed
      BY <1>1, <1>6, SeenCounts DEF IsLow
    <2> QED BY <1>2, <1>6, <2>1, <2>2 DEF Strobing, NonePulsed
  <1>7. CASE /\ todo = <<SetStart({})>>
             /\ start_strb = {chan} /\ WasLow(start_edge, quiet, chan)
             /\ seen = IF quiet < Pace - 2 THEN OncePulsed ELSE NonePulsed
    <2>1. WasLow(start_edge', quiet', chan')
      BY <1>1, <1>2, <1>3, <1>7, RisingWasLow
    <2>2. seen' = IF quiet' < Pace - 2 THEN OncePulsed ELSE NonePulsed
      <3>1. CASE quiet = Pace - 2
        <4>1. start_edge.pulse = {chan} /\ seen = NonePulsed
          BY <1>7, <3>1, PaceRange DEF WasLow
        <4>2. quiet' < Pace - 2
          BY <1>2, <3>1, PaceRange
        <4> QED BY <1>1, <4>1, <4>2, SeenCounts
      <3>2. CASE quiet # Pace - 2
        <4>1. seen' = seen
          BY <1>1, <1>4, <3>2, SeenCounts
        <4>2. quiet' < Pace - 2 <=> quiet < Pace - 2
          BY <1>2, <3>2, PaceRange
        <4> QED BY <1>7, <4>1, <4>2
      <3> QED BY <3>1, <3>2
    <2> QED BY <1>2, <1>7, <2>1, <2>2 DEF Strobing, NonePulsed, OncePulsed
  <1>8. CASE todo = <<>> /\ IsLow(start_edge, start_strb) /\ seen = OncePulsed
    <2>1. IsLow(start_edge', start_strb')
      BY <1>2, <1>3, <1>8, StaysLow
    <2>2. seen' = OncePulsed
      BY <1>1, <1>8, SeenCounts DEF IsLow
    <2> QED BY <1>2, <1>8, <2>1, <2>2 DEF Strobing, OncePulsed
  <1> QED BY <1>1, <1>5, <1>6, <1>7, <1>8 DEF Strobing

\* A command of a strobe writes the start register and takes the strobe on.
LEMMA StrobeCommand ==
    ASSUME SessionInv, Clock, CommandArrives, session = "SEND"
    PROVE  /\ Strobing'
           /\ start_strb' \subseteq {chan}
           /\ UNCHANGED <<addr, ild_strb, got>>
  <1>1. TypeOK /\ Follows(start_edge, start_strb, quiet, chan) /\ Strobing
    BY DEF SessionInv
  <1>2. /\ todo # <<>> /\ quiet = 0 /\ todo' = Tail(todo) /\ quiet' = Pace
        /\ chan' = chan
    BY DEF CommandArrives, Clock
  <1>3. /\ start_edge' = Sense(start_edge, start_strb)
        /\ start_edge \in Detectors(Channels) /\ start_strb \in SUBSET Channels
    BY <1>1 DEF Clock, TypeOK
  <1>4. seen' = seen
    BY <1>1, <1>2, SeenCounts, SettledFollows
  <1>5. IsLow(start_edge', {})
    BY <1>1, <1>2, <1>3, ClearedIsLow
  <1>6. CASE todo = StrobeOps(chan) /\ quiet = 0 /\ seen = NonePulsed
    <2>1. Head(todo) = SetStart({}) /\ todo' = <<SetStart({chan}), SetStart({})>>
      BY <1>2, <1>6 DEF StrobeOps
    <2>2. start_strb' = {} /\ UNCHANGED <<addr, ild_strb, got>>
      BY <2>1, CommandDoes
    <2> QED BY <1>2, <1>4, <1>5, <1>6, <2>1, <2>2 DEF Strobing, NonePulsed
  <1>7. CASE /\ todo = <<SetStart({chan}), SetStart({})>>
             /\ IsLow(start_edge, start_strb) /\ seen = NonePulsed
    <2>1. Head(todo) = SetStart({chan}) /\ todo' = <<SetStart({})>>
      BY <1>2, <1>7
    <2>2. start_strb' = {chan} /\ UNCHANGED <<addr, ild_strb, got>>
      BY <2>1, CommandDoes
    <2>3. WasLow(start_edge', quiet', chan')
      <3>1. start_strb = {}
        BY <1>7 DEF IsLow
      <3> QED BY <1>1, <1>2, <1>3, <3>1, RaisedWasLow
    <2>4. seen' = IF quiet' < Pace - 2 THEN OncePulsed ELSE NonePulsed
      BY <1>2, <1>4, <1>7, PaceRange
    <2> QED BY <1>2, <2>1, <2>2, <2>3, <2>4 DEF Strobing, NonePulsed, OncePulsed
  <1>8. CASE /\ todo = <<SetStart({})>>
             /\ start_strb = {chan} /\ WasLow(start_edge, quiet, chan)
             /\ seen = IF quiet < Pace - 2 THEN OncePulsed ELSE NonePulsed
    <2>1. Head(todo) = SetStart({}) /\ todo' = <<>>
      BY <1>2, <1>8
    <2>2. start_strb' = {} /\ UNCHANGED <<addr, ild_strb, got>>
      BY <2>1, CommandDoes
    <2>3. seen' = OncePulsed
      BY <1>2, <1>4, <1>8, PaceRange
    <2> QED BY <1>2, <1>5, <2>1, <2>2, <2>3 DEF Strobing, OncePulsed
  <1> QED BY <1>1, <1>2, <1>6, <1>7, <1>8 DEF Strobing

-----------------------------------------------------------------------------
(* A session that reads. *)

\* What is known of a channel that is being read.
LEMMA ReadFacts ==
    ASSUME SessionInv, session = "READ", target # NoWord
    PROVE  /\ chan \in Channels /\ target = <<chan, target[2]>> /\ target[2] \in Addr
           /\ todo = LastReadOps(Len(todo)) /\ Reading /\ Len(todo) \in 0 .. Parts + 3
           /\ undisturbed => chan \notin active
           /\ insn_rd \in [Channels -> Words \cup {NoWord}]
           /\ dout[chan] \in Addr
  <1>1. TypeOK /\ target \in {chan} \X Addr /\ todo = LastReadOps(Len(todo)) /\ Reading
    BY DEF SessionInv
  <1>2. Len(todo) \in 0 .. Parts + 3
    BY <1>1, PaceRange DEF Reading
  <1> QED BY <1>1, <1>2 DEF TypeOK, SessionInv

\* The latch of a channel changes only by its own pulse.
LEMMA LatchMoves ==
    ASSUME TypeOK, Clock
    PROVE  /\ ild_edge.pulse = {chan} => insn_rd'[chan] = <<chan, dout[chan]>>
           /\ ild_edge.pulse = {} => insn_rd'[chan] = insn_rd[chan]
           /\ ild_strb = {chan} => slot' = insn_rd[chan]
  <1>1. chan \in Channels
    BY DEF TypeOK
  <1>2. insn_rd'[chan] = IF chan \in ild_edge.pulse THEN <<chan, dout[chan]>> ELSE insn_rd[chan]
    BY <1>1 DEF Clock, Latch
  <1>3. ild_strb = {chan} => slot' = insn_rd[chan]
    BY <1>1, MuxOfOne DEF Clock
  <1> QED BY <1>2, <1>3

\* What has been latched, and the address read, last until the next command.
LEMMA LatchedKept ==
    ASSUME SessionInv, Clock, session = "READ", target # NoWord,
           UNCHANGED <<chan, target>>
    PROVE  /\ Latched /\ ild_edge.pulse = {} => Latched'
           /\ Addressed /\ addr' = addr => Addressed' /\ (undisturbed' => dout'[chan] = target[2])
           /\ undisturbed' => undisturbed
  <1>1. TypeOK
    BY DEF SessionInv
  <1>2. undisturbed' => undisturbed
    BY RestKept
  <1>3. undisturbed' /\ addr = target[2] => dout'[chan] = target[2]
    BY <1>2, RestKept, ReadFacts
  <1>4. ild_edge.pulse = {} => insn_rd'[chan] = insn_rd[chan]
    BY <1>1, LatchMoves
  <1>5. ASSUME Latched, ild_edge.pulse = {} PROVE Latched'
    BY <1>2, <1>4, <1>5 DEF Latched
  <1>6. ASSUME Addressed, addr' = addr
        PROVE  Addressed' /\ (undisturbed' => dout'[chan] = target[2])
    BY <1>3, <1>6 DEF Addressed
  <1> QED BY <1>2, <1>5, <1>6

\* Between two commands the word asked for is latched and comes to the registers.
LEMMA ReadWaits ==
    ASSUME SessionInv, Clock, NoCommand, session = "READ", target # NoWord
    PROVE  Reading' /\ todo' = LastReadOps(Len(todo))'
  <1>1. TypeOK /\ Follows(ild_edge, ild_strb, quiet, chan)
    BY DEF SessionInv
  <1>2. /\ quiet' = IF quiet > 0 THEN quiet - 1 ELSE 0
        /\ quiet \in 0 .. Pace
        /\ UNCHANGED <<chan, target, todo, addr, ild_strb, got>>
    BY QuietClock
  <1>3. /\ ild_edge' = Sense(ild_edge, ild_strb)
        /\ ild_edge \in Detectors(Channels) /\ ild_strb \in SUBSET Channels
        /\ {chan} \in SUBSET Channels
    BY <1>1 DEF Clock, TypeOK
  <1>4. /\ todo = LastReadOps(Len(todo)) /\ Reading /\ Len(todo) \in 0 .. Parts + 3
        /\ chan \in Channels /\ target = <<chan, target[2]>> /\ dout[chan] \in Addr
    BY ReadFacts
  <1>5. todo' = LastReadOps(Len(todo))'
    BY <1>2, <1>4 DEF LastReadOps
  <1>6. undisturbed' => undisturbed
    BY <1>2, LatchedKept
  <1> DEFINE n == Len(todo)
  <1>7. CASE n = Parts + 3 /\ got = <<>> /\ ild_strb = {}
    BY <1>2, <1>5, <1>7 DEF Reading
  <1>8. CASE n = Parts + 2 /\ got = <<>> /\ ild_strb = {} /\ Addressed
    <2>1. Addressed'
      BY <1>2, <1>8, LatchedKept
    <2> QED BY <1>2, <1>5, <1>8, <2>1 DEF Reading
  <1>9. CASE /\ n = Parts + 1 /\ got = <<>>
             /\ ild_strb = {chan} /\ WasLow(ild_edge, quiet, chan)
             /\ Addressed /\ (undisturbed => dout[chan] = target[2])
             /\ quiet < Pace - 2 => Latched
             /\ quiet < Pace - 3 => slot = insn_rd[chan]
    <2>1. WasLow(ild_edge', quiet', chan')
      BY <1>1, <1>2, <1>3, <1>9, RisingWasLow
    <2>2. Addressed' /\ (undisturbed' => dout'[chan] = target[2])
      BY <1>2, <1>9, LatchedKept
    <2>3. quiet' < Pace - 2 => Latched'
      <3>1. CASE quiet = Pace - 2
        <4>1. insn_rd'[chan] = <<chan, dout[chan]>>
          BY <1>1, <1>9, <3>1, LatchMoves DEF WasLow
        <4> QED BY <1>2, <1>4, <1>6, <1>9, <4>1 DEF Latched
      <3>2. CASE quiet # Pace - 2
        <4>1. ild_edge.pulse = {}
          BY <1>1, <3>2 DEF Follows
        <4>2. quiet' < Pace - 2 => quiet < Pace - 2
          BY <1>2, <3>2, PaceRange
        <4> QED BY <1>2, <1>9, <4>1, <4>2, LatchedKept
      <3> QED BY <3>1, <3>2
    <2>4. quiet' < Pace - 3 => slot' = insn_rd'[chan]
      <3>1. quiet' < Pace - 3 => quiet < Pace - 2
        BY <1>2, PaceRange
      <3>2. quiet < Pace - 2 => ild_edge.pulse = {}
        BY <1>1, <1>2, PaceRange DEF Follows
      <3> QED BY <1>1, <1>9, <3>1, <3>2, LatchMoves
    <2> QED BY <1>2, <1>5, <1>9, <2>1, <2>2, <2>3, <2>4 DEF Reading
  <1>10. CASE /\ n \in 1 .. Parts /\ Len(got) = Parts + 1 - n
              /\ ild_strb = {chan}
              /\ ild_edge = [ff1 |-> {chan}, ff2 |-> {chan}, pulse |-> {}]
              /\ Latched /\ slot = insn_rd[chan]
              /\ \A p \in DOMAIN got : got[p] = insn_rd[chan]
    <2>1. ild_edge' = [ff1 |-> {chan}, ff2 |-> {chan}, pulse |-> {}]
      BY <1>3, <1>10 DEF Sense
    <2>2. Latched'
      BY <1>2, <1>10, LatchedKept
    <2>3. insn_rd'[chan] = insn_rd[chan] /\ slot' = insn_rd[chan]
      BY <1>1, <1>10, LatchMoves
    <2> QED BY <1>2, <1>5, <1>10, <2>1, <2>2, <2>3 DEF Reading
  <1>11. CASE /\ n = 0 /\ Len(got) = Parts /\ ild_strb = {}
              /\ \E w \in {chan} \X Addr :
                    (undisturbed => w = target) /\ \A p \in DOMAIN got : got[p] = w
    BY <1>2, <1>5, <1>6, <1>11 DEF Reading
  <1> QED BY <1>4, <1>5, <1>7, <1>8, <1>9, <1>10, <1>11 DEF Reading

\* A command of a reading takes it on: the parts are read of the latched word.
LEMMA ReadCommand ==
    ASSUME SessionInv, Clock, CommandArrives, session = "READ", target # NoWord
    PROVE  /\ Reading' /\ todo' = LastReadOps(Len(todo))'
           /\ ild_strb' \subseteq {chan} /\ UNCHANGED start_strb
           /\ addr' \in Addr
           /\ got' \in Seq(Words \cup {NoWord}) /\ Len(got') <= Parts
           /\ Len(todo') <= Parts + 3
  <1>1. /\ TypeOK /\ Follows(ild_edge, ild_strb, quiet, chan)
        /\ addr \in Addr
        /\ got \in Seq(Words \cup {NoWord}) /\ Len(got) <= Parts /\ slot \in Words \cup {NoWord}
    BY DEF SessionInv, TypeOK
  <1>2. /\ todo # <<>> /\ quiet = 0 /\ todo' = Tail(todo) /\ quiet' = Pace
        /\ UNCHANGED <<chan, target>>
    BY DEF CommandArrives, Clock
  <1>3. /\ ild_edge' = Sense(ild_edge, ild_strb)
        /\ ild_edge \in Detectors(Channels) /\ ild_strb \in SUBSET Channels
    BY <1>1 DEF Clock, TypeOK
  <1>4. /\ todo = LastReadOps(Len(todo)) /\ Reading /\ Len(todo) \in 0 .. Parts + 3
        /\ chan \in Channels /\ target = <<chan, target[2]>> /\ target[2] \in Addr
    BY ReadFacts
  <1> DEFINE n == Len(todo)
             r == ReadOps(chan, target[2])
  <1>5. n \in 1 .. Parts + 3 /\ Head(todo) = r[Parts + 4 - n] /\ todo' = LastReadOps(n - 1)
        /\ Len(todo') = n - 1
    <2>1. n # 0
      <3>1. todo \in Seq(Commands)
        BY <1>4, LastReadOpsMove
      <3> QED BY <1>2, <3>1
    <2>2. n \in 1 .. Parts + 3 /\ n - 1 \in 0 .. Parts + 3
      BY <1>4, <2>1, PaceRange
    <2>3. Head(LastReadOps(n)) = r[Parts + 4 - n] /\ Tail(LastReadOps(n)) = LastReadOps(n - 1)
      BY <1>4, <2>2, LastReadOpsMove
    <2>4. Len(LastReadOps(n - 1)) = n - 1
      BY <1>4, <2>2, LastReadOpsMove
    <2> QED BY <1>2, <1>4, <2>2, <2>3, <2>4
  <1>6. /\ r[1] = SetAddr(target[2]) /\ r[2] = SetIld({chan}) /\ r[Parts + 3] = SetIld({})
        /\ \A k \in 3 .. Parts + 2 : r[k] = ReadPart
    BY <1>4, ReadOpsAt
  <1> HIDE DEF r
  <1>7. todo' = LastReadOps(Len(todo))' /\ Len(todo') <= Parts + 3
    <2>1. todo' = LastReadOps(Len(todo'))
      BY <1>5
    <2>2. Len(todo') <= Parts + 3
      BY <1>5, PaceRange
    <2> QED BY <1>2, <2>1, <2>2 DEF LastReadOps
  <1>8. undisturbed' => undisturbed
    BY <1>2, LatchedKept
  <1>9. ild_edge.pulse = {} /\ ild_edge.ff1 = ild_strb /\ ild_edge.ff2 = ild_strb
    BY <1>1, <1>2, SettledFollows
  <1>10. CASE n = Parts + 3 /\ got = <<>> /\ ild_strb = {}
    <2>1. Head(todo) = SetAddr(target[2])
      BY <1>5, <1>6, <1>10, PaceRange
    <2>2. addr' = target[2] /\ UNCHANGED <<start_strb, ild_strb, got>>
      BY <2>1, CommandDoes
    <2>3. Addressed'
      BY <1>2, <2>2, PaceRange DEF Addressed
    <2>4. Reading'
      BY <1>5, <1>10, <2>2, <2>3, PaceRange DEF Reading
    <2> QED BY <1>1, <1>4, <1>7, <1>10, <2>2, <2>4
  <1>11. CASE n = Parts + 2 /\ got = <<>> /\ ild_strb = {} /\ Addressed
    <2>1. Head(todo) = SetIld({chan})
      BY <1>5, <1>6, <1>11, PaceRange
    <2>2. ild_strb' = {chan} /\ UNCHANGED <<addr, start_strb, got>>
      BY <2>1, CommandDoes
    <2>3. Addressed' /\ (undisturbed' => dout'[chan] = target[2])
      BY <1>2, <1>11, <2>2, LatchedKept
    <2>4. WasLow(ild_edge', quiet', chan')
      BY <1>1, <1>2, <1>3, <1>11, RaisedWasLow
    <2>5. ~(quiet' < Pace - 2) /\ ~(quiet' < Pace - 3) /\ Len(todo') = Parts + 1
      BY <1>2, <1>5, <1>11, PaceRange
    <2>6. Reading'
      BY <1>2, <1>11, <2>2, <2>3, <2>4, <2>5 DEF Reading
    <2> QED BY <1>1, <1>7, <2>2, <2>6
  <1>12. ASSUME n \in 2 .. Parts + 1, Latched, slot = insn_rd[chan], ild_strb = {chan},
                Len(got) = Parts + 1 - n, \A p \in DOMAIN got : got[p] = insn_rd[chan]
         PROVE  /\ Reading' /\ ild_strb' = ild_strb /\ UNCHANGED <<addr, start_strb>>
                /\ got' \in Seq(Words \cup {NoWord}) /\ Len(got') <= Parts
    <2>1. Head(todo) = ReadPart
      <3>1. Parts + 4 - n \in 3 .. Parts + 2
        BY <1>12, PaceRange
      <3> QED BY <1>5, <1>6, <3>1
    <2>2. got' = Append(got, slot) /\ UNCHANGED <<addr, start_strb, ild_strb>>
      BY <2>1, CommandDoes
    <2>3. /\ got' \in Seq(Words \cup {NoWord})
          /\ Len(got') = Len(got) + 1
          /\ \A p \in DOMAIN got' : got'[p] = insn_rd[chan]
      BY <1>1, <1>12, <2>2
    <2>4. ild_edge' = [ff1 |-> {chan}, ff2 |-> {chan}, pulse |-> {}]
      BY <1>3, <1>9, <1>12 DEF Sense
    <2>5. Latched'
      BY <1>2, <1>9, <1>12, LatchedKept
    <2>6. insn_rd'[chan] = insn_rd[chan] /\ slot' = insn_rd[chan]
      BY <1>1, <1>9, <1>12, LatchMoves
    <2>7. /\ Len(todo') \in 1 .. Parts /\ Len(got') = Parts + 1 - Len(todo')
          /\ Len(got') <= Parts
      BY <1>5, <1>12, <2>3, PaceRange, SMTT(30)
    <2>8. Reading'
      BY <1>2, <1>12, <2>2, <2>3, <2>4, <2>5, <2>6, <2>7 DEF Reading
    <2> QED BY <2>2, <2>3, <2>7, <2>8
  <1>13. CASE /\ n = Parts + 1 /\ got = <<>>
              /\ ild_strb = {chan} /\ WasLow(ild_edge, quiet, chan)
              /\ Addressed /\ (undisturbed => dout[chan] = target[2])
              /\ quiet < Pace - 2 => Latched
              /\ quiet < Pace - 3 => slot = insn_rd[chan]
    <2>1. n \in 2 .. Parts + 1 /\ quiet < Pace - 2 /\ quiet < Pace - 3
          /\ Parts + 1 - n = 0
      BY <1>2, <1>13, PaceRange
    <2>2. Len(got) = Parts + 1 - n /\ \A p \in DOMAIN got : got[p] = insn_rd[chan]
      BY <1>13, <2>1
    <2>3. Latched /\ slot = insn_rd[chan] /\ ild_strb = {chan}
      BY <1>13, <2>1
    <2>4. /\ Reading' /\ ild_strb' = ild_strb /\ UNCHANGED <<addr, start_strb>>
          /\ got' \in Seq(Words \cup {NoWord}) /\ Len(got') <= Parts
      BY <1>12, <2>1, <2>2, <2>3
    <2> QED BY <1>1, <1>7, <2>3, <2>4
  <1>14. CASE /\ n \in 1 .. Parts /\ Len(got) = Parts + 1 - n
              /\ ild_strb = {chan}
              /\ ild_edge = [ff1 |-> {chan}, ff2 |-> {chan}, pulse |-> {}]
              /\ Latched /\ slot = insn_rd[chan]
              /\ \A p \in DOMAIN got : got[p] = insn_rd[chan]
    <2>1. CASE n > 1
      <3>1. n \in 2 .. Parts + 1
        BY <1>14, <2>1, PaceRange
      <3> QED BY <1>1, <1>7, <1>12, <1>14, <3>1
    <2>2. CASE n = 1
      <3>1. Head(todo) = SetIld({})
        BY <1>5, <1>6, <2>2, PaceRange
      <3>2. ild_strb' = {} /\ UNCHANGED <<addr, start_strb, got>>
        BY <3>1, CommandDoes
      <3>3. \E w \in {chan} \X Addr :
                (undisturbed' => w = target) /\ \A p \in DOMAIN got : got[p] = w
        BY <1>8, <1>14 DEF Latched
      <3>4. Len(todo') = 0 /\ Len(got) = Parts
        BY <1>5, <1>14, <2>2, PaceRange
      <3>5. Reading'
        BY <1>2, <3>2, <3>3, <3>4 DEF Reading
      <3> QED BY <1>1, <1>7, <3>2, <3>5
    <2>3. n = 1 \/ n > 1
      <3>1. n \in 1 .. Parts + 3
        BY <1>5
      <3> HIDE DEF n
      <3> QED BY <3>1, PaceRange
    <2> QED BY <2>1, <2>2, <2>3
  <1> QED BY <1>4, <1>5, <1>10, <1>11, <1>13, <1>14, PaceRange DEF Reading

-----------------------------------------------------------------------------
(* Every step keeps the invariant. *)

\* A clock without a command keeps the invariant.
LEMMA QuietKeeps ==
    ASSUME SessionInv, Clock, NoCommand
    PROVE  SessionInv'
  <1>1. TypeOK
    BY DEF SessionInv
  <1>2. /\ quiet' = IF quiet > 0 THEN quiet - 1 ELSE 0
        /\ quiet' \in 0 .. Pace
        /\ UNCHANGED <<session, chan, target, todo, addr, start_strb, ild_strb, got>>
        /\ Follows(start_edge', start_strb', quiet', chan')
        /\ Follows(ild_edge', ild_strb', quiet', chan')
    BY QuietClock
  <1>3. TypeOK'
    BY <1>1, <1>2, HardwareTypes DEF TypeOK
  <1>4. (undisturbed' => undisturbed /\ chan' \notin active') /\ undisturbed' \in BOOLEAN
    BY RestKept, HardwareTypes
  <1>5. session' = "SEND" => Strobing'
    BY <1>2, StrobeWaits
  <1>6. session' = "READ" /\ target' # NoWord =>
            target' \in {chan'} \X Addr /\ todo' = LastReadOps(Len(todo))' /\ Reading'
    BY <1>2, ReadWaits DEF SessionInv
  <1>7. session' = "READ" /\ target' = NoWord =>
            \/ todo' = <<SetIld({})>> /\ quiet' = 0
            \/ todo' = <<>> /\ ild_strb' = {}
    BY <1>2 DEF SessionInv
  <1>8. /\ \E c \in Channels : ild_strb' \subseteq {c}
        /\ session' = "NONE" => todo' = <<>>
        /\ session' # "READ" => got' = <<>> /\ target' = NoWord
        /\ target' = NoWord => got' = <<>> /\ ~undisturbed'
    BY <1>2, <1>4 DEF SessionInv
  <1> QED BY <1>2, <1>3, <1>4, <1>5, <1>6, <1>7, <1>8 DEF SessionInv

\* A command of a strobe keeps the invariant.
LEMMA StrobeKeeps ==
    ASSUME SessionInv, Clock, CommandArrives, session = "SEND"
    PROVE  SessionInv'
  <1>1. TypeOK /\ chan \in Channels /\ target = NoWord
    BY DEF SessionInv, TypeOK
  <1>2. /\ Strobing' /\ start_strb' \subseteq {chan}
        /\ UNCHANGED <<addr, ild_strb, got>>
    BY StrobeCommand
  <1>3. /\ quiet' = Pace /\ UNCHANGED <<session, chan, target>>
        /\ Follows(start_edge', start_strb', quiet', chan')
        /\ Follows(ild_edge', ild_strb', quiet', chan')
    BY <1>2, CommandClock
  <1>4. Len(todo') <= Parts + 3
    <2>1. CASE todo' = <<SetStart({}), SetStart({chan'}), SetStart({})>>
      BY <2>1, PaceRange
    <2>2. CASE todo' = <<SetStart({chan'}), SetStart({})>>
      BY <2>2, PaceRange
    <2>3. CASE todo' = <<SetStart({})>>
      BY <2>3, PaceRange
    <2>4. CASE todo' = <<>>
      BY <2>4, PaceRange
    <2> QED BY <1>2, <2>1, <2>2, <2>3, <2>4, Zenon DEF Strobing, StrobeOps
  <1>5. TypeOK'
    BY <1>1, <1>2, <1>3, <1>4, HardwareTypes, PaceRange DEF TypeOK
  <1>6. undisturbed' => undisturbed /\ chan' \notin active'
    BY RestKept
  <1> QED BY <1>1, <1>2, <1>3, <1>5, <1>6 DEF SessionInv

\* The first command of a reading session clears the strobe it may have found.
LEMMA OpeningKeeps ==
    ASSUME SessionInv, Clock, CommandArrives, session = "READ", target = NoWord
    PROVE  SessionInv'
  <1>1. TypeOK /\ chan \in Channels /\ got = <<>> /\ ~undisturbed
    BY DEF SessionInv, TypeOK
  <1>2. todo # <<>> /\ todo' = Tail(todo)
    BY DEF CommandArrives
  <1>3. todo = <<SetIld({})>>
    BY <1>2 DEF SessionInv
  <1>4. Head(todo) = SetIld({}) /\ todo' = <<>>
    BY <1>2, <1>3
  <1>5. ild_strb' = {} /\ UNCHANGED <<addr, start_strb, got>>
    BY <1>4, CommandDoes
  <1>6. /\ quiet' = Pace /\ UNCHANGED <<session, chan, target>>
        /\ Follows(start_edge', start_strb', quiet', chan')
        /\ Follows(ild_edge', ild_strb', quiet', chan')
    BY <1>5, CommandClock
  <1>7. Len(todo') <= Parts + 3
    BY <1>4, PaceRange
  <1>8. TypeOK'
    BY <1>1, <1>5, <1>6, <1>7, HardwareTypes, PaceRange DEF TypeOK
  <1>9. undisturbed' => undisturbed /\ chan' \notin active'
    BY RestKept
  <1> QED BY <1>1, <1>4, <1>5, <1>6, <1>8, <1>9 DEF SessionInv

\* A command of a reading keeps the invariant.
LEMMA ReadKeeps ==
    ASSUME SessionInv, Clock, CommandArrives, session = "READ", target # NoWord
    PROVE  SessionInv'
  <1>1. TypeOK /\ chan \in Channels /\ target \in {chan} \X Addr
    BY DEF SessionInv, TypeOK
  <1>2. /\ Reading' /\ todo' = LastReadOps(Len(todo))'
        /\ ild_strb' \subseteq {chan} /\ UNCHANGED start_strb
        /\ addr' \in Addr
        /\ got' \in Seq(Words \cup {NoWord}) /\ Len(got') <= Parts
        /\ Len(todo') <= Parts + 3
    BY ReadCommand
  <1>3. /\ quiet' = Pace /\ UNCHANGED <<session, chan, target>>
        /\ Follows(start_edge', start_strb', quiet', chan')
        /\ Follows(ild_edge', ild_strb', quiet', chan')
    BY <1>2, CommandClock
  <1>4. TypeOK'
    BY <1>1, <1>2, <1>3, HardwareTypes, PaceRange DEF TypeOK
  <1>5. undisturbed' => undisturbed /\ chan' \notin active'
    BY RestKept
  <1> QED BY <1>1, <1>2, <1>3, <1>4, <1>5 DEF SessionInv

\* Types when a session opens or closes.
LEMMA HostTypes ==
    ASSUME TypeOK, UNCHANGED hardware, quiet' = quiet, got' = <<>>,
           session' \in {"NONE", "SEND", "READ"}, chan' \in Channels,
           Len(todo') <= Parts + 3, seen' \in [Channels -> Nat],
           target' \in Words \cup {NoWord}, undisturbed' \in BOOLEAN
    PROVE  TypeOK'
  <1>1. /\ active' \subseteq Channels /\ addr' \in Addr
        /\ start_strb' \subseteq Channels /\ start_edge' \in Detectors(Channels)
        /\ ild_strb' \subseteq Channels /\ ild_edge' \in Detectors(Channels)
        /\ dout' \in [Channels -> Addr]
        /\ insn_rd' \in [Channels -> Words \cup {NoWord}]
        /\ slot' \in Words \cup {NoWord} /\ quiet' \in 0 .. Pace
    BY Zenon DEF TypeOK, hardware, registers
  <1>2. got' \in Seq(Words \cup {NoWord}) /\ Len(got') <= Parts
    <2> DEFINE W == Words \cup {NoWord}
    <2> HIDE DEF W
    <2>1. got' \in Seq(W) /\ Len(got') = 0
      OBVIOUS
    <2> QED BY <2>1, PaceRange DEF W
  <1> QED BY <1>1, <1>2, Zenon DEF TypeOK

\* A session opens or closes without touching the hardware.
LEMMA HostKeeps ==
    ASSUME SessionInv,
           \/ \E c \in Channels : StartChannel(c) \/ OpenReading(c)
           \/ \E a \in Addr : AskWord(a)
           \/ CloseSession
    PROVE  SessionInv'
  <1>1. TypeOK /\ UNCHANGED hardware
    BY DEF SessionInv, StartChannel, OpenReading, AskWord, CloseSession
  <1>2. ASSUME NEW c \in Channels, quiet = 0
        PROVE  /\ Follows(start_edge, start_strb, 0, c)
               /\ Follows(ild_edge, ild_strb, 0, c)
    BY <1>2, SettledFollows DEF SessionInv
  <1>3. ASSUME NEW c \in Channels, StartChannel(c) PROVE SessionInv'
    <2>1. /\ quiet = 0 /\ quiet' = 0 /\ chan' = c /\ session' = "SEND"
          /\ target = NoWord /\ target' = NoWord /\ got = <<>> /\ got' = <<>>
          /\ ~undisturbed /\ ~undisturbed'
          /\ todo' = StrobeOps(c) /\ seen' = NonePulsed
      BY <1>3 DEF StartChannel, SessionInv
    <2>2. Len(todo') = 3 /\ NonePulsed \in [Channels -> Nat]
      BY <2>1 DEF StrobeOps, NonePulsed
    <2>3. TypeOK'
      <3>1. /\ session' \in {"NONE", "SEND", "READ"} /\ quiet' = quiet
            /\ Len(todo') <= Parts + 3 /\ seen' \in [Channels -> Nat]
            /\ target' \in Words \cup {NoWord}
        BY <2>1, <2>2, PaceRange
      <3>2. undisturbed' \in BOOLEAN
        BY <1>1, <1>3 DEF StartChannel, TypeOK
      <3> QED BY <1>1, <2>1, <3>1, <3>2, HostTypes, Zenon
    <2>4. Strobing'
      BY <2>1 DEF Strobing, NonePulsed
    <2>5. Follows(start_edge', start_strb', quiet', chan')
          /\ Follows(ild_edge', ild_strb', quiet', chan')
      BY <1>1, <1>2, <2>1 DEF hardware, registers
    <2> QED BY <1>1, <2>1, <2>3, <2>4, <2>5 DEF SessionInv, hardware, registers
  <1>4. ASSUME NEW c \in Channels, OpenReading(c) PROVE SessionInv'
    <2>1. /\ quiet = 0 /\ quiet' = 0 /\ chan' = c /\ session' = "READ"
          /\ target = NoWord /\ target' = NoWord /\ got = <<>> /\ got' = <<>>
          /\ ~undisturbed /\ ~undisturbed'
          /\ todo' = <<SetIld({})>> /\ seen' = seen
      BY <1>4 DEF OpenReading, SessionInv
    <2>2. Len(todo') = 1 /\ seen' \in [Channels -> Nat]
      BY <1>1, <2>1 DEF TypeOK
    <2>3. TypeOK'
      <3>1. /\ session' \in {"NONE", "SEND", "READ"} /\ quiet' = quiet
            /\ Len(todo') <= Parts + 3 /\ seen' \in [Channels -> Nat]
            /\ target' \in Words \cup {NoWord}
        BY <2>1, <2>2, PaceRange
      <3>2. undisturbed' \in BOOLEAN
        BY <1>1, <1>4 DEF OpenReading, TypeOK
      <3> QED BY <1>1, <2>1, <3>1, <3>2, HostTypes, Zenon
    <2>4. Follows(start_edge', start_strb', quiet', chan')
          /\ Follows(ild_edge', ild_strb', quiet', chan')
      BY <1>1, <1>2, <2>1 DEF hardware, registers
    <2> QED BY <1>1, <2>1, <2>3, <2>4 DEF SessionInv, hardware, registers
  <1>5. ASSUME NEW a \in Addr, AskWord(a) PROVE SessionInv'
    <2>1. /\ session = "READ" /\ session' = "READ" /\ todo = <<>>
          /\ todo' = ReadOps(chan, a) /\ target' = <<chan, a>> /\ got' = <<>>
          /\ undisturbed' = (chan \notin active)
          /\ UNCHANGED <<chan, quiet, seen>>
      BY <1>5 DEF AskWord
    <2>2. chan \in Channels /\ target' \in {chan} \X Addr /\ target'[2] = a
          /\ target' # NoWord
      BY <1>1, <2>1, NoWordIsNone DEF TypeOK, Words
    <2>3. Len(todo') = Parts + 3
      BY <2>1, <2>2, ReadOpsAt
    <2>4. todo' = LastReadOps(Len(todo))'
      <3> DEFINE r == ReadOps(chan, a)
      <3>1. r \in Seq(Commands) /\ Len(r) = Parts + 3
        BY <2>2, ReadOpsAt
      <3>2. Parts + 4 - (Parts + 3) = 1
        BY PaceRange
      <3>3. LastReadOps(Len(todo))' = SubSeq(r, 1, Parts + 3)
        BY <2>1, <2>2, <2>3, <3>2 DEF LastReadOps
      <3> HIDE DEF r
      <3>4. SubSeq(r, 1, Parts + 3) = r
        BY <3>1, PaceRange
      <3> QED BY <2>1, <3>3, <3>4 DEF r
    <2>5. ild_strb = {}
      <3>1. CASE target = NoWord
        BY <2>1, <3>1 DEF SessionInv
      <3>2. CASE target # NoWord
        <4>1. Reading /\ Len(todo) = 0
          BY <2>1, <3>2 DEF SessionInv
        <4> QED BY <4>1, PaceRange DEF Reading
      <3> QED BY <3>1, <3>2
    <2>6. Reading'
      BY <1>1, <2>1, <2>3, <2>5 DEF Reading, hardware, registers
    <2>7. TypeOK'
      <3>1. target' \in Words \cup {NoWord}
        BY <2>2 DEF Words
      <3>2. quiet' = quiet /\ chan' \in Channels /\ seen' \in [Channels -> Nat]
            /\ session' \in {"NONE", "SEND", "READ"} /\ undisturbed' \in BOOLEAN
        BY <1>1, <2>1 DEF TypeOK
      <3>3. Len(todo') <= Parts + 3
        BY <2>3, PaceRange
      <3> QED BY <1>1, <2>1, <3>1, <3>2, <3>3, HostTypes
    <2>8. Follows(start_edge', start_strb', quiet', chan')
          /\ Follows(ild_edge', ild_strb', quiet', chan')
      BY <1>1, <2>1 DEF SessionInv, hardware, registers
    <2> QED BY <1>1, <2>1, <2>2, <2>4, <2>6, <2>7, <2>8 DEF SessionInv, hardware, registers
  <1>6. CASE CloseSession
    <2>1. /\ session' = "NONE" /\ todo' = <<>> /\ seen' = NonePulsed
          /\ got' = <<>> /\ target' = NoWord /\ undisturbed' = FALSE
          /\ UNCHANGED <<chan, quiet>>
      BY <1>6 DEF CloseSession
    <2>2. /\ NonePulsed \in [Channels -> Nat] /\ chan' \in Channels
          /\ Len(todo') <= Parts + 3
      BY <1>1, <2>1, PaceRange DEF NonePulsed, TypeOK
    <2>3. TypeOK'
      BY <1>1, <2>1, <2>2, HostTypes
    <2> QED BY <1>1, <2>1, <2>3 DEF SessionInv, hardware, registers
  <1> QED BY <1>3, <1>4, <1>5, <1>6

\* SessionInv is inductive, with a session killed between any two commands.
LEMMA SessionStep == SessionInv /\ [Next]_vars => SessionInv'
  <1> SUFFICES ASSUME SessionInv, [Next]_vars PROVE SessionInv'
    OBVIOUS
  <1>1. CASE Clock
    <2>1. CASE NoCommand
      BY <1>1, <2>1, QuietKeeps
    <2>2. CASE CommandArrives
      <3>1. session \in {"SEND", "READ"}
        BY <2>2 DEF CommandArrives, SessionInv, TypeOK
      <3> QED BY <1>1, <2>2, <3>1, StrobeKeeps, OpeningKeeps, ReadKeeps
    <2> QED BY <1>1, <2>1, <2>2 DEF Clock
  <1>2. CASE UNCHANGED vars
    BY <1>2 DEF SessionInv, TypeOK, Strobing, Reading, Addressed, Latched, LastReadOps,
       NonePulsed, OncePulsed, vars, hardware, registers, host
  <1> QED BY <1>1, <1>2, HostKeeps DEF Next

\* SessionInv holds after reset.
LEMMA SessionInit == Init => SessionInv
  <1> SUFFICES ASSUME Init PROVE SessionInv
    OBVIOUS
  <1>1. DetectorInit \in Detectors(Channels) /\ 0 \in Channels
    BY SessionsAssumption DEF DetectorInit, Detectors, Channels
  <1>2. TypeOK
    BY <1>1, PaceRange DEF Init, TypeOK, NonePulsed
  <1>3. Follows(start_edge, start_strb, quiet, chan) /\ Follows(ild_edge, ild_strb, quiet, chan)
    BY PaceRange DEF Init, Follows, DetectorInit
  <1> QED BY <1>1, <1>2, <1>3 DEF Init, SessionInv

-----------------------------------------------------------------------------
(* What it implies. *)

\* The registers of the strobes and of the read-back path keep their types.
THEOREM SessionTypeCorrect == Spec => []TypeOK
  <1>1. SessionInv => TypeOK
    BY DEF SessionInv
  <1> QED BY SessionInit, SessionStep, <1>1, PTL DEF Spec

\* No strobe starts another channel, in whatever state a killed session left
\* the start register.
THEOREM NeverStrayStart == Spec => []NoStrayStart
  <1>1. SessionInv => NoStrayStart
    BY DEF SessionInv, NoStrayStart, Follows
  <1> QED BY SessionInit, SessionStep, <1>1, PTL DEF Spec

\* A strobe sent in full starts its channel exactly once.
THEOREM StrobesAlwaysOnce == Spec => []StrobesOnce
  <1>1. SessionInv => StrobesOnce
    <2> SUFFICES ASSUME SessionInv, session = "SEND", todo = <<>>
                 PROVE  seen = OncePulsed
      BY DEF StrobesOnce, OncePulsed
    <2> QED BY DEF SessionInv, Strobing, StrobeOps
  <1> QED BY SessionInit, SessionStep, <1>1, PTL DEF Spec

\* All parts of a word read back are parts of one word of the channel addressed,
\* and of the word addressed if the channel has been at rest.
LEMMA PartsOfOneWord ==
    ASSUME SessionInv
    PROVE  ReadsStored /\ ReadsWhole
  <1>1. CASE session # "READ" \/ target = NoWord
    BY <1>1 DEF SessionInv, ReadsStored, ReadsWhole
  <1>2. CASE session = "READ" /\ target # NoWord
    <2>1. /\ Reading /\ chan \in Channels /\ target = <<chan, target[2]>>
      BY <1>2, ReadFacts
    <2>2. PICK w \in {chan} \X Addr :
              (undisturbed => w = target) /\ \A p \in DOMAIN got : got[p] = w
      <3>1. CASE Len(todo) \in 1 .. Parts /\ Latched
                 /\ \A p \in DOMAIN got : got[p] = insn_rd[chan]
        BY <3>1 DEF Latched
      <3>2. CASE got = <<>>
        BY <1>2, <3>2 DEF SessionInv
      <3> QED BY <2>1, <3>1, <3>2 DEF Reading
    <2>3. w # NoWord /\ w[1] = chan /\ target[1] = chan
      BY <2>1, NoWordIsNone DEF Words
    <2>4. \A p \in DOMAIN got : 1 \in DOMAIN got
      BY DEF SessionInv, TypeOK
    <2> QED BY <2>2, <2>3, <2>4 DEF ReadsStored, ReadsWhole
  <1> QED BY <1>1, <1>2

\* The host reads of a channel at rest the word it addressed.
THEOREM AlwaysReadsStored == Spec => []ReadsStored
  BY SessionInit, SessionStep, PartsOfOneWord, PTL DEF Spec

\* The host never mixes parts of two words, even of a channel that runs.
THEOREM AlwaysReadsWhole == Spec => []ReadsWhole
  BY SessionInit, SessionStep, PartsOfOneWord, PTL DEF Spec

=============================================================================
