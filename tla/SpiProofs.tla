------------------------------ MODULE SpiProofs ------------------------------
(***************************************************************************)
(* The SPI link delivers whole words, bit by bit and in order, and a frame *)
(* under one divisor takes its time exactly: for every frame width, width  *)
(* of the cycle counter and set of divisors, whenever the host rewrites    *)
(* the divisor.                                                            *)
(***************************************************************************)
EXTENDS SpiLink, TLAPS

-----------------------------------------------------------------------------
(* The inductive invariant. *)

\* What is still to be sent: the bits of the word not yet shifted, then zeros.
SendsRest ==
    state # "IDLE" =>
        \A b \in 1 .. DataWidth :
            data_send[b] = IF b + bit_counter <= DataWidth THEN word[b + bit_counter] ELSE 0

\* Phases of the frame that are over.
Phases == IF state = "P1" THEN 2 * bit_counter + 1 ELSE 2 * bit_counter

\* Under one divisor the cycle counter never passes it, and the clocks of the
\* frame are those of its phases and of the present one.
ClocksCounted ==
    state # "IDLE" /\ clocks > 0 =>
        /\ cycle_counter <= dvsr
        /\ clocks = Phases * (dvsr + 1) + cycle_counter + 1

LinkInv == TypeOK /\ BitsInOrder /\ SendsRest /\ ClocksCounted

-----------------------------------------------------------------------------
(* Shift registers. *)

\* A word is a sequence of DataWidth bits.
LEMMA WordIsSequence ==
    ASSUME NEW w \in Word
    PROVE  w \in Seq(Bit) /\ Len(w) = DataWidth
  BY DataWidthAssumption DEF Word

\* Shifting a bit in moves every other bit one place forward.
LEMMA ShiftInBits ==
    ASSUME NEW w \in Word, NEW b \in Bit
    PROVE  /\ ShiftIn(w, b) \in Word
           /\ \A n \in 1 .. DataWidth :
                  ShiftIn(w, b)[n] = IF n < DataWidth THEN w[n + 1] ELSE b
  <1>1. w \in Seq(Bit) /\ Len(w) = DataWidth
    BY WordIsSequence
  <1>2. /\ Tail(w) \in Seq(Bit) /\ Len(Tail(w)) = DataWidth - 1
        /\ \A n \in 1 .. DataWidth - 1 : Tail(w)[n] = w[n + 1]
    BY <1>1, DataWidthAssumption
  <1>3. /\ ShiftIn(w, b) \in Seq(Bit) /\ Len(ShiftIn(w, b)) = DataWidth
        /\ \A n \in 1 .. DataWidth :
               ShiftIn(w, b)[n] = IF n < DataWidth THEN w[n + 1] ELSE b
    BY <1>2, DataWidthAssumption DEF ShiftIn
  <1>4. ShiftIn(w, b) \in [1 .. DataWidth -> Bit]
    BY <1>3
  <1> QED BY <1>3, <1>4 DEF Word

\* The rest of one word followed by the first n bits of another.
LEMMA SplicedBits ==
    ASSUME NEW v \in Word, NEW w \in Word, NEW n \in 0 .. DataWidth
    PROVE  /\ Spliced(v, w, n) \in Word
           /\ \A b \in 1 .. DataWidth :
                  Spliced(v, w, n)[b] = IF b + n <= DataWidth THEN v[b + n]
                                        ELSE w[b + n - DataWidth]
  <1> DEFINE r == SubSeq(v, n + 1, DataWidth)
             f == SubSeq(w, 1, n)
             s == r \o f
  <1>1. /\ v \in Seq(Bit) /\ Len(v) = DataWidth
        /\ w \in Seq(Bit) /\ Len(w) = DataWidth
    BY WordIsSequence
  <1>2. /\ r \in Seq(Bit) /\ Len(r) = DataWidth - n
        /\ \A b \in 1 .. DataWidth - n : r[b] = v[b + n]
    BY <1>1, DataWidthAssumption
  <1>3. f \in Seq(Bit) /\ Len(f) = n /\ \A b \in 1 .. n : f[b] = w[b]
    BY <1>1, DataWidthAssumption
  <1> HIDE DEF r, f
  <1>4. /\ s \in Seq(Bit) /\ Len(s) = DataWidth
        /\ \A b \in 1 .. DataWidth :
               s[b] = IF b <= DataWidth - n THEN r[b] ELSE f[b - (DataWidth - n)]
    BY <1>2, <1>3, DataWidthAssumption
  <1> HIDE DEF s
  <1>5. s \in [1 .. DataWidth -> Bit]
    BY <1>4
  <1>6. ASSUME NEW b \in 1 .. DataWidth
        PROVE  s[b] = IF b + n <= DataWidth THEN v[b + n] ELSE w[b + n - DataWidth]
    <2>1. CASE b + n <= DataWidth
      <3>1. b \in 1 .. DataWidth - n /\ b <= DataWidth - n
        BY <2>1, DataWidthAssumption
      <3>2. s[b] = r[b]
        BY <1>4, <3>1
      <3>3. r[b] = v[b + n]
        BY <1>2, <3>1
      <3> QED BY <2>1, <3>2, <3>3
    <2>2. CASE ~(b + n <= DataWidth)
      <3> DEFINE m == b - (DataWidth - n)
      <3>1. m \in 1 .. n /\ m = b + n - DataWidth
        BY <2>2, DataWidthAssumption
      <3>2. s[b] = f[m]
        BY <1>4, <2>2, DataWidthAssumption
      <3> HIDE DEF m
      <3> QED BY <1>3, <2>2, <3>1, <3>2
    <2> QED BY <2>1, <2>2
  <1> QED BY <1>5, <1>6 DEF s, r, f, Word, Spliced

\* Two words with the same bits are the same.
LEMMA SameBits ==
    ASSUME NEW v \in Word, NEW w \in Word, \A b \in 1 .. DataWidth : v[b] = w[b]
    PROVE  v = w
  <1>1. /\ v = [b \in 1 .. DataWidth |-> v[b]]
        /\ w = [b \in 1 .. DataWidth |-> w[b]]
    BY DEF Word
  <1> QED BY <1>1

\* A register holds the rest of one word and the start of another if its bits do.
LEMMA SplicedIs ==
    ASSUME NEW u \in Word, NEW v \in Word, NEW w \in Word, NEW n \in 0 .. DataWidth
    PROVE  u = Spliced(v, w, n) <=>
           \A b \in 1 .. DataWidth :
               u[b] = IF b + n <= DataWidth THEN v[b + n] ELSE w[b + n - DataWidth]
  <1>1. /\ Spliced(v, w, n) \in Word
        /\ \A b \in 1 .. DataWidth :
               Spliced(v, w, n)[b] = IF b + n <= DataWidth THEN v[b + n]
                                     ELSE w[b + n - DataWidth]
    BY SplicedBits
  <1>2. u = Spliced(v, w, n) <=> \A b \in 1 .. DataWidth : u[b] = Spliced(v, w, n)[b]
    BY <1>1, SameBits
  <1> QED BY <1>1, <1>2

-----------------------------------------------------------------------------
(* Types. *)

\* The word of zeros the shift registers hold after reset.
LEMMA ZerosAreWord == [b \in 1 .. DataWidth |-> 0] \in Word
  BY DEF Word, Bit

\* The first bit of a word, the one on the wire.
LEMMA FirstBit ==
    ASSUME NEW w \in Word
    PROVE  w[1] \in Bit
  BY DataWidthAssumption DEF Word

\* The cycle counter wraps within its width.
LEMMA CycleCounted ==
    ASSUME TypeOK
    PROVE  /\ (cycle_counter + 1) % CounterMod \in 0 .. CounterMod - 1
           /\ cycle_counter < dvsr => (cycle_counter + 1) % CounterMod = cycle_counter + 1
           /\ dvsr \in 0 .. CounterMod - 1
  <1>1. /\ cycle_counter \in 0 .. CounterMod - 1 /\ dvsr \in 0 .. CounterMod - 1
        /\ CounterMod \in Nat \ {0}
    BY DvsrAssumption DEF TypeOK, MasterTypeOK
  <1> QED BY <1>1

\* Every register of the link keeps its type.
LEMMA TypeStep == TypeOK /\ [Next]_vars => TypeOK'
  <1> SUFFICES ASSUME TypeOK, [Next]_vars PROVE TypeOK'
    OBVIOUS
  <1>1. /\ 0 \in 0 .. CounterMod - 1 /\ 0 \in 0 .. DataWidth - 1
        /\ 0 \in Bit /\ 1 \in Bit
    BY DataWidthAssumption, DvsrAssumption DEF Bit
  <1>2. CASE StartFrame
    BY <1>1, <1>2 DEF StartFrame, Start, TypeOK, MasterTypeOK
  <1>3. CASE Reconfigure
    BY <1>3 DEF Reconfigure, master, TypeOK, MasterTypeOK
  <1>4. CASE Clock /\ Wait(dvsr) /\ UNCHANGED slave /\ Elapse
    BY <1>4, CycleCounted DEF Clock, Wait, Elapse, TypeOK, MasterTypeOK
  <1>5. CASE Clock /\ NextBit(dvsr) /\ UNCHANGED slave /\ Elapse
    <2>1. bit_counter' \in 0 .. DataWidth - 1
      BY <1>5, DataWidthAssumption DEF NextBit, TypeOK, MasterTypeOK
    <2>2. data_send' \in Word
      BY <1>1, <1>5, ShiftInBits DEF NextBit, TypeOK, MasterTypeOK
    <2> QED BY <1>1, <1>5, <2>1, <2>2 DEF Clock, NextBit, Elapse, TypeOK, MasterTypeOK
  <1>6. CASE Clock /\ Sample(dvsr, slave[1]) /\ slave' = ShiftIn(slave, Mosi) /\ Elapse
    <2>1. slave' \in Word
      BY <1>6, FirstBit, ShiftInBits DEF Mosi, TypeOK, MasterTypeOK
    <2>2. data_recv' \in Word
      BY <1>6, FirstBit, ShiftInBits DEF Sample, TypeOK, MasterTypeOK
    <2> QED BY <1>1, <1>6, <2>1, <2>2 DEF Clock, Sample, Elapse, TypeOK, MasterTypeOK
  <1>7. CASE Clock /\ Done(dvsr) /\ UNCHANGED <<slave, clocks>>
    BY <1>1, <1>7 DEF Clock, Done, TypeOK, MasterTypeOK
  <1>8. CASE UNCHANGED vars
    BY <1>8 DEF vars, master, TypeOK, MasterTypeOK
  <1> QED BY <1>2, <1>3, <1>4, <1>5, <1>6, <1>7, <1>8 DEF Next, Clock

\* The registers have their types after reset.
LEMMA TypeInit == LinkInit => TypeOK
  BY ZerosAreWord, DataWidthAssumption, DvsrAssumption
  DEF LinkInit, Init, TypeOK, MasterTypeOK, Bit

\* The registers of the master and the slave keep their types, however often
\* the divisor is rewritten within a frame.
THEOREM SpiTypeCorrect == Spec => []TypeOK
  BY TypeInit, TypeStep, PTL DEF Spec

-----------------------------------------------------------------------------
(* Bits. *)

\* A falling edge of sclk moves one bit of the word into the slave.
LEMMA SampleKeepsBits ==
    ASSUME TypeOK, TypeOK', BitsInOrder, SendsRest,
           Sample(dvsr, slave[1]), slave' = ShiftIn(slave, Mosi),
           UNCHANGED <<word, before>>
    PROVE  BitsInOrder'
  <1>1. /\ bit_counter \in 0 .. DataWidth - 1 /\ bit_counter' = bit_counter
        /\ state = "P0" /\ state' = "P1"
    BY DEF Sample, TypeOK, MasterTypeOK
  <1>2. Sampled = bit_counter /\ Sampled' = bit_counter + 1
    BY <1>1 DEF Sampled
  <1>3. Mosi = word[bit_counter + 1] /\ Mosi \in Bit
    <2>1. Mosi = word[1 + bit_counter]
      BY <1>1, DataWidthAssumption DEF SendsRest, Mosi
    <2>2. Mosi \in Bit
      BY FirstBit DEF Mosi, TypeOK, MasterTypeOK
    <2> QED BY <1>1, <2>1, <2>2
  <1>4. \A b \in 1 .. DataWidth :
            slave[b] = IF b + bit_counter <= DataWidth THEN before[b + bit_counter]
                       ELSE word[b + bit_counter - DataWidth]
    <2>1. slave = Spliced(before, word, bit_counter)
      BY <1>1, <1>2 DEF BitsInOrder
    <2>2. bit_counter \in 0 .. DataWidth
      BY <1>1, DataWidthAssumption
    <2> QED BY <2>1, <2>2, SplicedIs DEF TypeOK
  <1>5. \A b \in 1 .. DataWidth :
            slave'[b] = IF b < DataWidth THEN slave[b + 1] ELSE Mosi
    BY <1>3, ShiftInBits DEF TypeOK
  <1>6. ASSUME NEW b \in 1 .. DataWidth
        PROVE  slave'[b] = IF b + (bit_counter + 1) <= DataWidth
                           THEN before[b + (bit_counter + 1)]
                           ELSE word[b + (bit_counter + 1) - DataWidth]
    <2> DEFINE n == b + 1
    <2>1. /\ n + bit_counter = b + (bit_counter + 1)
          /\ n + bit_counter - DataWidth = b + (bit_counter + 1) - DataWidth
      BY <1>1, DataWidthAssumption
    <2>2. CASE b < DataWidth
      <3>1. slave'[b] = slave[n] /\ n \in 1 .. DataWidth
        BY <1>5, <2>2, DataWidthAssumption
      <3> HIDE DEF n
      <3> QED BY <1>4, <2>1, <3>1
    <2>3. CASE b = DataWidth
      <3>1. slave'[b] = word[bit_counter + 1]
        BY <1>3, <1>5, <2>3, DataWidthAssumption
      <3>2. /\ ~(b + (bit_counter + 1) <= DataWidth)
            /\ b + (bit_counter + 1) - DataWidth = bit_counter + 1
        BY <1>1, <2>3, DataWidthAssumption
      <3> QED BY <3>1, <3>2
    <2> QED BY <2>2, <2>3, DataWidthAssumption
  <1> DEFINE m == bit_counter + 1
  <1>7. m \in 0 .. DataWidth /\ slave' \in Word /\ before \in Word /\ word \in Word
    BY <1>1, DataWidthAssumption DEF TypeOK
  <1>8. slave' = Spliced(before, word, m)
    <2>1. \A b \in 1 .. DataWidth :
              slave'[b] = IF b + m <= DataWidth THEN before[b + m]
                          ELSE word[b + m - DataWidth]
      BY <1>6
    <2> HIDE DEF m
    <2> DEFINE u == slave'
    <2>2. u \in Word /\ before \in Word /\ word \in Word /\ m \in 0 .. DataWidth
      BY <1>7
    <2>3. \A b \in 1 .. DataWidth :
              u[b] = IF b + m <= DataWidth THEN before[b + m]
                     ELSE word[b + m - DataWidth]
      BY <2>1
    <2> HIDE DEF u
    <2>4. u = Spliced(before, word, m) <=>
          \A b \in 1 .. DataWidth :
              u[b] = IF b + m <= DataWidth THEN before[b + m]
                     ELSE word[b + m - DataWidth]
      BY <2>2, SplicedIs, ZenonT(30)
    <2> QED BY <2>3, <2>4 DEF u
  <1> QED BY <1>2, <1>8 DEF BitsInOrder

\* A rising edge of sclk shifts the next bit onto the wire.
LEMMA NextBitKeepsRest ==
    ASSUME TypeOK, SendsRest, NextBit(dvsr), UNCHANGED word
    PROVE  SendsRest'
  <1>1. /\ bit_counter \in 0 .. DataWidth - 1 /\ bit_counter' = bit_counter + 1
        /\ state = "P1" /\ data_send' = ShiftIn(data_send, 0)
    BY DEF NextBit, TypeOK, MasterTypeOK
  <1>2. \A b \in 1 .. DataWidth :
            data_send'[b] = IF b < DataWidth THEN data_send[b + 1] ELSE 0
    BY <1>1, ShiftInBits DEF TypeOK, MasterTypeOK, Bit
  <1>3. \A b \in 1 .. DataWidth :
            data_send[b] = IF b + bit_counter <= DataWidth THEN word[b + bit_counter] ELSE 0
    BY <1>1 DEF SendsRest
  <1>4. ASSUME NEW b \in 1 .. DataWidth
        PROVE  data_send'[b] = IF b + (bit_counter + 1) <= DataWidth
                               THEN word[b + (bit_counter + 1)] ELSE 0
    <2> DEFINE n == b + 1
    <2>1. n + bit_counter = b + (bit_counter + 1)
      BY <1>1
    <2>2. CASE b < DataWidth
      <3>1. data_send'[b] = data_send[n] /\ n \in 1 .. DataWidth
        BY <1>2, <2>2, DataWidthAssumption
      <3> HIDE DEF n
      <3> QED BY <1>3, <2>1, <3>1
    <2>3. CASE b = DataWidth
      BY <1>1, <1>2, <2>3, DataWidthAssumption
    <2> QED BY <2>2, <2>3, DataWidthAssumption
  <1> QED BY <1>1, <1>4 DEF SendsRest

-----------------------------------------------------------------------------
(* Clocks. *)

\* A phase more is dvsr + 1 clocks more.
LEMMA OnePhase ==
    ASSUME NEW n \in Nat, NEW d \in Nat
    PROVE  (n + 1) * (d + 1) = n * (d + 1) + (d + 1) /\ n * (d + 1) \in Nat
  OBVIOUS

\* The count of a frame's clocks is exact while the divisor stays.
LEMMA PhaseEndsCounted ==
    ASSUME TypeOK, ClocksCounted, state # "IDLE", clocks > 0, PhaseOver(dvsr)
    PROVE  /\ clocks = (Phases + 1) * (dvsr + 1) /\ clocks \in Nat
           /\ Phases \in Nat /\ dvsr \in Nat
  <1>1. /\ Phases \in Nat /\ dvsr \in Nat /\ cycle_counter = dvsr
    BY DataWidthAssumption, DvsrAssumption DEF Phases, PhaseOver, TypeOK, MasterTypeOK
  <1>2. clocks = Phases * (dvsr + 1) + dvsr + 1
    BY <1>1 DEF ClocksCounted
  <1>3. /\ (Phases + 1) * (dvsr + 1) = Phases * (dvsr + 1) + (dvsr + 1)
        /\ Phases * (dvsr + 1) \in Nat
    BY <1>1, OnePhase
  <1> DEFINE over == Phases * (dvsr + 1)
             due  == (Phases + 1) * (dvsr + 1)
  <1>4. clocks = over + dvsr + 1 /\ due = over + (dvsr + 1) /\ over \in Nat
    BY <1>2, <1>3
  <1> HIDE DEF over, due
  <1>5. clocks = due /\ clocks \in Nat
    BY <1>1, <1>4
  <1> QED BY <1>1, <1>5 DEF due

\* A clock within a frame keeps the count.
LEMMA ClockKeepsCount ==
    ASSUME TypeOK, TypeOK', ClocksCounted, Elapse, UNCHANGED dvsr,
           Wait(dvsr) \/ NextBit(dvsr) \/ Sample(dvsr, slave[1])
    PROVE  ClocksCounted'
  <1> SUFFICES ASSUME clocks' > 0
               PROVE  /\ cycle_counter' <= dvsr
                      /\ clocks' = Phases' * (dvsr + 1) + cycle_counter' + 1
    BY DEF ClocksCounted
  <1>1. /\ clocks \in Nat /\ dvsr \in Nat /\ bit_counter \in Nat /\ cycle_counter \in Nat
        /\ Phases \in Nat
    BY DataWidthAssumption, DvsrAssumption DEF TypeOK, MasterTypeOK, Phases
  <1>2. clocks > 0 /\ clocks' = clocks + 1
    BY <1>1 DEF Elapse
  <1>3. CASE Wait(dvsr)
    <2>1. state # "IDLE" /\ state' = state /\ bit_counter' = bit_counter
          /\ cycle_counter # dvsr /\ cycle_counter' = (cycle_counter + 1) % CounterMod
      BY <1>3 DEF Wait, PhaseOver
    <2>2. cycle_counter <= dvsr /\ clocks = Phases * (dvsr + 1) + cycle_counter + 1
      BY <1>2, <2>1 DEF ClocksCounted
    <2>3. cycle_counter' = cycle_counter + 1 /\ cycle_counter + 1 <= dvsr
      BY <1>1, <2>1, <2>2, CycleCounted
    <2>4. Phases' = Phases
      BY <2>1 DEF Phases
    <2>5. Phases * (dvsr + 1) \in Nat
      BY <1>1, OnePhase
    <2> DEFINE over == Phases * (dvsr + 1)
    <2>6. /\ clocks = over + cycle_counter + 1 /\ over \in Nat
          /\ Phases' * (dvsr + 1) = over
      BY <2>2, <2>4, <2>5
    <2> HIDE DEF over
    <2> QED BY <1>1, <1>2, <2>3, <2>6
  <1>4. CASE NextBit(dvsr) \/ Sample(dvsr, slave[1])
    <2>1. /\ state # "IDLE" /\ PhaseOver(dvsr) /\ cycle_counter' = 0
          /\ Phases' = Phases + 1
      BY <1>1, <1>4 DEF NextBit, Sample, Phases
    <2>2. clocks = (Phases + 1) * (dvsr + 1)
      BY <1>2, <2>1, PhaseEndsCounted
    <2> DEFINE due == (Phases + 1) * (dvsr + 1)
    <2>3. clocks = due /\ Phases' * (dvsr + 1) = due
      BY <2>1, <2>2
    <2> HIDE DEF due
    <2> QED BY <1>1, <1>2, <2>1, <2>3
  <1> QED BY <1>3, <1>4

-----------------------------------------------------------------------------
(* Its steps, and what it implies. *)

\* LinkInv is inductive, with a divisor rewritten at any time.
LEMMA LinkStep == LinkInv /\ [Next]_vars => LinkInv'
  <1> SUFFICES ASSUME LinkInv, [Next]_vars PROVE LinkInv'
    OBVIOUS
  <1>1. TypeOK /\ TypeOK' /\ BitsInOrder /\ SendsRest /\ ClocksCounted
    BY TypeStep DEF LinkInv
  <1>2. CASE StartFrame
    <2>1. PICK din \in Word : Start(din) /\ word' = din
      BY <1>2 DEF StartFrame
    <2>2. /\ state' = "P0" /\ bit_counter' = 0 /\ cycle_counter' = 0
          /\ data_send' = word' /\ before' = slave /\ slave' = slave
          /\ clocks' = 1 /\ dvsr' = dvsr
      BY <1>2, <2>1 DEF StartFrame, Start
    <2>3. BitsInOrder'
      <3>1. 0 \in 0 .. DataWidth /\ slave \in Word /\ word' \in Word
        BY <1>1, DataWidthAssumption DEF TypeOK
      <3>2. \A b \in 1 .. DataWidth : b + 0 = b /\ b + 0 <= DataWidth
        BY DataWidthAssumption
      <3>3. \A v \in Word : slave = Spliced(slave, v, 0)
        BY <3>1, <3>2, SplicedIs
      <3> QED BY <2>2, <3>1, <3>3 DEF BitsInOrder, Sampled
    <2>4. SendsRest'
      BY <2>2, DataWidthAssumption DEF SendsRest
    <2>5. ClocksCounted'
      <3>1. dvsr \in Nat
        BY <1>1, DvsrAssumption DEF TypeOK
      <3>2. Phases' = 0 /\ 0 * (dvsr + 1) = 0
        BY <2>2, <3>1 DEF Phases
      <3> QED BY <2>2, <3>1, <3>2 DEF ClocksCounted
    <2> QED BY <1>1, <2>3, <2>4, <2>5 DEF LinkInv
  <1>3. CASE Clock /\ Wait(dvsr) /\ UNCHANGED slave /\ Elapse
    <2>1. /\ UNCHANGED <<state, bit_counter, data_send, slave, word, before, dvsr>>
      BY <1>3 DEF Clock, Wait
    <2>2. BitsInOrder' /\ SendsRest'
      BY <1>1, <2>1 DEF BitsInOrder, SendsRest, Sampled
    <2> QED BY <1>1, <1>3, <2>1, <2>2, ClockKeepsCount DEF LinkInv
  <1>4. CASE Clock /\ NextBit(dvsr) /\ UNCHANGED slave /\ Elapse
    <2>1. UNCHANGED <<slave, word, before, dvsr>>
      BY <1>4 DEF Clock
    <2>2. Sampled' = Sampled
      BY <1>4 DEF NextBit, Sampled
    <2>3. state # "IDLE"
      BY <1>4 DEF NextBit
    <2>4. BitsInOrder'
      BY <1>1, <2>1, <2>2, <2>3 DEF BitsInOrder
    <2> QED BY <1>1, <1>4, <2>1, <2>4, ClockKeepsCount, NextBitKeepsRest DEF LinkInv
  <1>5. CASE Clock /\ Sample(dvsr, slave[1]) /\ slave' = ShiftIn(slave, Mosi) /\ Elapse
    <2>1. UNCHANGED <<word, before, dvsr>>
      BY <1>5 DEF Clock
    <2>2. BitsInOrder'
      BY <1>1, <1>5, <2>1, SampleKeepsBits
    <2>3. SendsRest'
      BY <1>1, <1>5, <2>1 DEF Sample, SendsRest
    <2> QED BY <1>1, <1>5, <2>1, <2>2, <2>3, ClockKeepsCount DEF LinkInv
  <1>6. CASE Clock /\ Done(dvsr)
    <2>1. state' = "IDLE"
      BY <1>6 DEF Done
    <2> QED BY <1>1, <2>1 DEF LinkInv, BitsInOrder, SendsRest, ClocksCounted
  <1>7. CASE Reconfigure
    <2>1. UNCHANGED <<state, bit_counter, data_send, slave, word, before>> /\ clocks' = 0
      BY <1>7 DEF Reconfigure, master
    <2> QED BY <1>1, <2>1 DEF LinkInv, BitsInOrder, SendsRest, Sampled, ClocksCounted
  <1>8. CASE UNCHANGED vars
    BY <1>1, <1>8 DEF LinkInv, BitsInOrder, SendsRest, Sampled, ClocksCounted, Phases,
       vars, master
  <1> QED BY <1>2, <1>3, <1>4, <1>5, <1>6, <1>7, <1>8 DEF Next, Clock

\* LinkInv holds after reset.
LEMMA LinkIsInit == LinkInit => LinkInv
  BY TypeInit DEF LinkInit, Init, LinkInv, BitsInOrder, SendsRest, ClocksCounted

\* dc_spi_master.sv and its slave exchange their words in order, bit by bit,
\* whatever is written to the divisor within the frame.
THEOREM BitsAlwaysInOrder == Spec => []BitsInOrder
  <1>1. LinkInv => BitsInOrder
    BY DEF LinkInv
  <1> QED BY LinkIsInit, LinkStep, <1>1, PTL DEF Spec

\* A frame whose divisor is not rewritten ends after 2 * DataWidth * (dvsr + 1)
\* clocks exactly.
THEOREM FrameTakesExactly == Spec => FrameTakes
  <1>1. LinkInv /\ [Next]_vars => [Done(dvsr) /\ clocks > 0 => clocks = FrameClocks]_vars
    <2> SUFFICES ASSUME LinkInv, Done(dvsr), clocks > 0 PROVE clocks = FrameClocks
      OBVIOUS
    <2>1. state = "P1" /\ PhaseOver(dvsr) /\ bit_counter = DataWidth - 1
      BY DEF Done
    <2>2. clocks = (Phases + 1) * (dvsr + 1)
      BY <2>1, PhaseEndsCounted DEF LinkInv
    <2>3. Phases + 1 = 2 * DataWidth
      BY <2>1, DataWidthAssumption DEF Phases
    <2> QED BY <2>2, <2>3 DEF FrameClocks
  <1> QED BY LinkIsInit, LinkStep, <1>1, PTL DEF Spec, FrameTakes

\* The link implements SpiFrame: a word given with start is the word the slave
\* holds when the frame is done, and nothing else changes it.
THEOREM LinkDeliversFrames == Spec => DeliversFrames
  <1>1. LinkInit => Frame!Init
    BY TypeInit DEF LinkInit, Init, TypeOK, Frame!Init
  <1>2. LinkInv /\ LinkInv' /\ [Next]_vars => [Frame!Next]_(Frame!vars)
    <2> SUFFICES ASSUME LinkInv, LinkInv', [Next]_vars PROVE [Frame!Next]_(Frame!vars)
      OBVIOUS
    <2>1. TypeOK /\ TypeOK' /\ BitsInOrder
      BY DEF LinkInv
    <2>2. CASE StartFrame
      <3>1. /\ state = "IDLE" /\ state' = "P0" /\ before' = slave
        BY <2>2 DEF StartFrame, Start
      <3>2. word' \in Word
        BY <2>1 DEF TypeOK
      <3> QED BY <3>1, <3>2 DEF Frame!Next, Frame!Start
    <2>3. CASE Clock /\ (Wait(dvsr) \/ NextBit(dvsr) \/ Sample(dvsr, slave[1]))
      <3>1. state # "IDLE" /\ state' # "IDLE" /\ UNCHANGED <<word, before>>
        BY <2>3 DEF Clock, Wait, NextBit, Sample
      <3> QED BY <3>1 DEF Frame!vars
    <2>4. CASE Clock /\ Done(dvsr) /\ UNCHANGED <<slave, clocks>>
      <3>1. /\ state = "P1" /\ bit_counter = DataWidth - 1 /\ state' = "IDLE"
            /\ slave' = slave /\ word' = word
        BY <2>4 DEF Clock, Done
      <3>2. Sampled = DataWidth /\ slave = Spliced(before, word, Sampled)
        BY <2>1, <3>1, DataWidthAssumption DEF BitsInOrder, Sampled
      <3>3. slave = word
        <4>1. /\ DataWidth \in 0 .. DataWidth
              /\ slave \in Word /\ before \in Word /\ word \in Word
          BY <2>1, DataWidthAssumption DEF TypeOK
        <4>2. \A b \in 1 .. DataWidth :
                  slave[b] = IF b + DataWidth <= DataWidth THEN before[b + DataWidth]
                             ELSE word[b + DataWidth - DataWidth]
          BY <3>2, <4>1, SplicedIs
        <4>3. \A b \in 1 .. DataWidth :
                  ~(b + DataWidth <= DataWidth) /\ b + DataWidth - DataWidth = b
          BY DataWidthAssumption
        <4>4. \A b \in 1 .. DataWidth : slave[b] = word[b]
          BY <4>2, <4>3
        <4> QED BY <4>1, <4>4, SameBits
      <3> QED BY <3>1, <3>3 DEF Frame!Next, Frame!Done
    <2>5. CASE Reconfigure
      BY <2>5 DEF Reconfigure, master, Frame!vars
    <2>6. CASE UNCHANGED vars
      BY <2>6 DEF vars, master, Frame!vars
    <2> QED BY <2>2, <2>3, <2>4, <2>5, <2>6 DEF Next, Clock
  <1> QED BY <1>1, <1>2, LinkIsInit, LinkStep, PTL DEF Spec, DeliversFrames

=============================================================================
