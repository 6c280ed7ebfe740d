------------------------------- MODULE SpiLink -------------------------------
(***************************************************************************)
(* The SPI master wired to a slave that shifts as rtl/tb/spi_master_tb.sv  *)
(* does: it presents its first bit, and on each falling edge of sclk takes *)
(* MOSI in.  The host may rewrite the clock divisor at any time.           *)
(***************************************************************************)
EXTENDS DcSpiMaster

VARIABLES
    dvsr,     \* the divisor register of dc_ctrl
    slave,    \* the slave's shift register
    word,     \* the word given with the last start
    before,   \* what the slave held at the last start
    clocks    \* clocks of the present frame, while dvsr has not changed

vars == <<master, dvsr, slave, word, before, clocks>>

FrameClocks == 2 * DataWidth * (dvsr + 1)

LinkInit ==
    /\ Init
    /\ dvsr \in Dvsr
    /\ slave \in Word
    /\ word = data_send /\ before = slave
    /\ clocks = 0

StartFrame ==
    /\ \E din \in Word : Start(din) /\ word' = din
    /\ before' = slave /\ clocks' = 1
    /\ UNCHANGED <<slave, dvsr>>

Elapse == clocks' = IF clocks = 0 THEN 0 ELSE clocks + 1

Clock ==
    /\ \/ (Wait(dvsr) \/ NextBit(dvsr)) /\ UNCHANGED slave /\ Elapse
       \/ Sample(dvsr, slave[1]) /\ slave' = ShiftIn(slave, Mosi) /\ Elapse
       \/ Done(dvsr) /\ UNCHANGED <<slave, clocks>>
    /\ UNCHANGED <<dvsr, word, before>>

\* The host rewrites the divisor, between two clock edges.
Reconfigure ==
    /\ dvsr' \in Dvsr \ {dvsr}
    /\ clocks' = 0
    /\ UNCHANGED <<master, slave, word, before>>

Next == StartFrame \/ Clock \/ Reconfigure

Spec == LinkInit /\ [][Next]_vars /\ WF_vars(Clock)

-----------------------------------------------------------------------------

\* Every register of the link holds a value of its type.
TypeOK ==
    /\ MasterTypeOK
    /\ dvsr \in Dvsr
    /\ slave \in Word /\ word \in Word /\ before \in Word
    /\ clocks \in Nat

\* Bits sampled by the slave so far.
Sampled == IF state = "P1" THEN bit_counter + 1 ELSE bit_counter

\* The rest of one word followed by the first n bits of another.
Spliced(v, w, n) == SubSeq(v, n + 1, DataWidth) \o SubSeq(w, 1, n)

\* During a frame the slave's register is the rest of what it held followed
\* by the first bits of the word given at the start, whatever the divisor does.
BitsInOrder == state # "IDLE" => slave = Spliced(before, word, Sampled)

\* A frame under one divisor takes 2 * DataWidth * (dvsr + 1) clocks: the time
\* that dc_tb.sv's min_hold_cycles leaves between two steps.
FrameTakes == [][Done(dvsr) /\ clocks > 0 => clocks = FrameClocks]_vars

\* Once the divisor is left alone every frame ends, even if it was lowered
\* below the count already reached.
FrameEnds == <>[][UNCHANGED dvsr]_dvsr => (state # "IDLE" ~> state = "IDLE")

Frame == INSTANCE SpiFrame WITH
    busy <- state # "IDLE",
    slave <- IF state = "IDLE" THEN slave ELSE before

\* The master delivers whole words: no divisor change tears a frame.
DeliversFrames == Frame!Init /\ [][Frame!Next]_(Frame!vars)
=============================================================================
