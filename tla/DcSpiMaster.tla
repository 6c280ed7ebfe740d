----------------------------- MODULE DcSpiMaster -----------------------------
(***************************************************************************)
(* The SPI master of a channel, rtl/src/dc_spi_master.sv, with the         *)
(* parameters dc_core.sv gives it: clock polarity 0, phase 1.  A bit takes *)
(* two phases, P0 (sclk high) and P1 (sclk low), of i_dvsr + 1 clocks      *)
(* each.  A word is a sequence of bits, first bit first on the wire.       *)
(***************************************************************************)
EXTENDS Naturals, Sequences

CONSTANTS
    DataWidth,   \* bits of a frame
    CounterMod,  \* 2^16, the width of the cycle counter
    Dvsr         \* clock divisors the host configures

ASSUME DataWidthAssumption == DataWidth \in Nat \ {0}
ASSUME DvsrAssumption == CounterMod \in Nat \ {0} /\ Dvsr \subseteq 0 .. CounterMod - 1

Bit == {0, 1}
Word == [1 .. DataWidth -> Bit]

VARIABLES
    state,          \* IDLE, P0 or P1
    cycle_counter,  \* clocks spent in the phase
    bit_counter,    \* bits already shifted
    sclk,           \* the serial clock
    data_send,      \* shift register out; its first bit is MOSI
    data_recv       \* shift register in

master == <<state, cycle_counter, bit_counter, sclk, data_send, data_recv>>

MasterTypeOK ==
    /\ state \in {"IDLE", "P0", "P1"}
    /\ cycle_counter \in 0 .. CounterMod - 1
    /\ bit_counter \in 0 .. DataWidth - 1
    /\ sclk \in Bit
    /\ data_send \in Word
    /\ data_recv \in Word

Init ==
    /\ state = "IDLE"
    /\ cycle_counter = 0
    /\ bit_counter = 0
    /\ sclk = 0
    /\ data_send = [b \in 1 .. DataWidth |-> 0]
    /\ data_recv = [b \in 1 .. DataWidth |-> 0]

Mosi == data_send[1]

ShiftIn(w, b) == Append(Tail(w), b)

PhaseOverEarly(dvsr) == cycle_counter + 1 >= dvsr   \* fault: off by one
PhaseOver(dvsr) == cycle_counter = dvsr

\* Fault: a start reloads the shift register under a running frame.
StartAnytime(din) ==
    /\ state' = "P0" /\ sclk' = 1
    /\ cycle_counter' = 0 /\ bit_counter' = 0
    /\ data_send' = din
    /\ UNCHANGED data_recv

Start(din) ==
    /\ state = "IDLE"
    /\ state' = "P0" /\ sclk' = 1
    /\ cycle_counter' = 0 /\ bit_counter' = 0
    /\ data_send' = din
    /\ UNCHANGED data_recv

\* Fault: the counter saturates instead of wrapping.
WaitSaturates(dvsr) ==
    /\ state # "IDLE" /\ ~PhaseOver(dvsr)
    /\ cycle_counter' = IF cycle_counter < CounterMod - 1 THEN cycle_counter + 1 ELSE cycle_counter
    /\ UNCHANGED <<state, bit_counter, sclk, data_send, data_recv>>

Wait(dvsr) ==
    /\ state # "IDLE" /\ ~PhaseOver(dvsr)
    /\ cycle_counter' = (cycle_counter + 1) % CounterMod
    /\ UNCHANGED <<state, bit_counter, sclk, data_send, data_recv>>

\* The slave samples MOSI on this falling edge, the master samples MISO.
Sample(dvsr, miso) ==
    /\ state = "P0" /\ PhaseOver(dvsr)
    /\ state' = "P1" /\ sclk' = 0 /\ cycle_counter' = 0
    /\ data_recv' = ShiftIn(data_recv, miso)
    /\ UNCHANGED <<bit_counter, data_send>>

\* Fault: the register out is not shifted.
NextBitUnshifted(dvsr) ==
    /\ state = "P1" /\ PhaseOver(dvsr) /\ bit_counter # DataWidth - 1
    /\ state' = "P0" /\ sclk' = 1 /\ cycle_counter' = 0
    /\ bit_counter' = bit_counter + 1
    /\ UNCHANGED <<data_send, data_recv>>

NextBit(dvsr) ==
    /\ state = "P1" /\ PhaseOver(dvsr) /\ bit_counter # DataWidth - 1
    /\ state' = "P0" /\ sclk' = 1 /\ cycle_counter' = 0
    /\ bit_counter' = bit_counter + 1
    /\ data_send' = ShiftIn(data_send, 0)
    /\ UNCHANGED data_recv

\* o_done is high in the clock this edge ends.
Done(dvsr) ==
    /\ state = "P1" /\ PhaseOver(dvsr) /\ bit_counter = DataWidth - 1
    /\ state' = "IDLE" /\ sclk' = 0 /\ cycle_counter' = 0 /\ bit_counter' = 0
    /\ UNCHANGED <<data_send, data_recv>>

=============================================================================
