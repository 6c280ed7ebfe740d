------------------------------ MODULE UartLine ------------------------------
(***************************************************************************)
(* One direction of the UART: a queue (rtl/lib/fifo.sv) and                *)
(* rtl/lib/transmitter.sv at one end and rtl/lib/receiver.sv at the other, *)
(* each end with the ticks of its own baudx16_generator.  A frame is a start bit (low), the bits of the byte, *)
(* first bit first, and a stop bit (high), each of Over ticks.             *)
(*                                                                         *)
(* The two clocks are not the same.  Counted from the falling edge of the  *)
(* start bit, one end is never more than MaxSkew ticks ahead of the other. *)
(***************************************************************************)
EXTENDS ByteQueue, Integers

CONSTANTS
    DataBits,   \* bits of a byte, 8
    Over,       \* ticks of a bit, 16
    MaxSkew     \* ticks by which the clocks differ within a frame

ASSUME LineAssumption ==
    /\ DataBits \in Nat \ {0} /\ Item = [1 .. DataBits -> {0, 1}]
    /\ Over \in Nat \ {0, 1} /\ Over % 2 = 0
    /\ MaxSkew \in 0 .. Over \div 2 - 1

Bit  == {0, 1}
Byte == [1 .. DataBits -> Bit]
Zero == [b \in 1 .. DataBits |-> 0]

VARIABLES
    tx_state, tx_cycle, tx_bit, tx_data,   \* transmitter
    rx_state, rx_cycle, rx_bit, rx_data,   \* receiver
    skew,                              \* ticks by which the transmitter is ahead
    flight,                            \* the byte taken and not received, for the properties
    last                               \* the byte received last, for the properties

transmitter == <<tx_state, tx_cycle, tx_bit, tx_data>>
receiver    == <<rx_state, rx_cycle, rx_bit, rx_data>>
vars == <<queue, transmitter, receiver, skew, flight, last>>

Init ==
    /\ QueueInit
    /\ tx_state = "IDLE" /\ tx_cycle = 0 /\ tx_bit = 0 /\ tx_data = Zero
    /\ rx_state = "IDLE" /\ rx_cycle = 0 /\ rx_bit = 0 /\ rx_data = Zero
    /\ skew = 0 /\ flight = <<>> /\ last = Zero

-----------------------------------------------------------------------------
(* The transmitter, at its ticks. *)

OTx == CASE tx_state = "START" -> 0
         [] tx_state = "DATA"  -> tx_data[1]
         [] OTHER -> 1

\* The queue may be given a byte in the same clock.
TakeByte ==
    /\ tx_state = "IDLE" /\ ~OEmpty
    /\ tx_state' = "START" /\ tx_cycle' = 0 /\ tx_bit' = 0
    /\ tx_data' = OData
    /\ Deq \/ \E b \in Byte : EnqDeq(b)
    /\ flight' = Append(flight, OData)

BitOver == tx_cycle = Over - 1

BitLasts ==
    /\ tx_state # "IDLE" /\ ~BitOver
    /\ tx_cycle' = tx_cycle + 1
    /\ UNCHANGED <<queue, tx_state, tx_bit, tx_data, flight>>

StartSent ==
    /\ tx_state = "START" /\ BitOver
    /\ tx_state' = "DATA" /\ tx_cycle' = 0 /\ tx_bit' = 0
    /\ UNCHANGED <<queue, tx_data, flight>>

\* Fault: the register is not shifted.
BitSentUnshifted ==
    /\ tx_state = "DATA" /\ BitOver /\ tx_bit # DataBits - 1
    /\ tx_cycle' = 0 /\ tx_bit' = tx_bit + 1
    /\ UNCHANGED <<queue, tx_state, tx_data, flight>>

BitSent ==
    /\ tx_state = "DATA" /\ BitOver /\ tx_bit # DataBits - 1
    /\ tx_cycle' = 0 /\ tx_bit' = tx_bit + 1
    /\ tx_data' = Append(Tail(tx_data), 0)
    /\ UNCHANGED <<queue, tx_state, flight>>

DataSent ==
    /\ tx_state = "DATA" /\ BitOver /\ tx_bit = DataBits - 1
    /\ tx_state' = "STOP" /\ tx_cycle' = 0 /\ tx_bit' = 0
    /\ UNCHANGED <<queue, tx_data, flight>>

StopSent ==
    /\ tx_state = "STOP" /\ BitOver
    /\ tx_state' = "IDLE" /\ tx_cycle' = 0 /\ tx_bit' = 0
    /\ UNCHANGED <<queue, tx_data, flight>>

-----------------------------------------------------------------------------
(* The receiver: any clock while it is idle, its ticks within a frame. *)

Detect ==
    /\ rx_state = "IDLE" /\ OTx = 0
    /\ rx_state' = "START" /\ rx_cycle' = 0
    /\ UNCHANGED <<rx_bit, rx_data, flight, last>>

\* Half a bit after the edge is the middle of the start bit.
StartSeen ==
    /\ rx_state = "START"
    /\ IF rx_cycle = Over \div 2 - 1
       THEN rx_state' = "DATA" /\ rx_cycle' = 0 /\ rx_bit' = 0
       ELSE rx_cycle' = rx_cycle + 1 /\ UNCHANGED <<rx_state, rx_bit>>
    /\ UNCHANGED <<rx_data, flight, last>>

SampleLater ==
    /\ rx_state \in {"DATA", "STOP"} /\ rx_cycle # Over - 1
    /\ rx_cycle' = rx_cycle + 1
    /\ UNCHANGED <<rx_state, rx_bit, rx_data, flight, last>>

\* Fault: the counter keeps its value, and every tick takes a sample.
SampleKeepsCount ==
    /\ rx_state = "DATA" /\ rx_cycle = Over - 1
    /\ rx_data' = Append(Tail(rx_data), OTx)
    /\ IF rx_bit = DataBits - 1
       THEN rx_state' = "STOP" /\ rx_bit' = 0 /\ rx_cycle' = 0
       ELSE rx_bit' = rx_bit + 1 /\ UNCHANGED <<rx_state, rx_cycle>>
    /\ UNCHANGED <<flight, last>>

\* The counter's 4 bits wrap to 0 here.
Sample ==
    /\ rx_state = "DATA" /\ rx_cycle = Over - 1
    /\ rx_data' = Append(Tail(rx_data), OTx)
    /\ rx_cycle' = (rx_cycle + 1) % Over
    /\ IF rx_bit = DataBits - 1
       THEN rx_state' = "STOP" /\ rx_bit' = 0
       ELSE rx_bit' = rx_bit + 1 /\ UNCHANGED rx_state
    /\ UNCHANGED <<flight, last>>

\* The middle of the stop bit: o_enq_rxq.
Received ==
    /\ rx_state = "STOP" /\ rx_cycle = Over - 1
    /\ rx_state' = "IDLE" /\ rx_cycle' = 0
    /\ last' = rx_data /\ flight' = <<>>
    /\ UNCHANGED <<rx_bit, rx_data>>

-----------------------------------------------------------------------------

Offer(b) ==
    /\ Enq(b)
    /\ UNCHANGED <<transmitter, receiver, skew, flight, last>>

\* The receiver looks for a start bit in every clock, so it sees one before the
\* transmitter's next tick.
TxTick ==
    /\ rx_state = "IDLE" => OTx = 1
    /\ skew < MaxSkew
    /\ TakeByte \/ BitLasts \/ StartSent \/ BitSent \/ DataSent \/ StopSent
    /\ skew' = IF rx_state = "IDLE" THEN 0 ELSE skew + 1
    /\ UNCHANGED <<receiver, last>>

RxEdge ==
    /\ Detect
    /\ skew' = 0
    /\ UNCHANGED <<queue, transmitter>>

RxTick ==
    /\ skew > -MaxSkew
    /\ StartSeen \/ SampleLater \/ Sample \/ Received
    /\ skew' = IF rx_state' = "IDLE" THEN 0 ELSE skew - 1
    /\ UNCHANGED <<queue, transmitter>>

Next == (\E b \in Byte : Offer(b)) \/ TxTick \/ RxEdge \/ RxTick

\* Both clocks run.
Spec == Init /\ [][Next]_vars /\ WF_vars(TxTick) /\ WF_vars(RxEdge) /\ WF_vars(RxTick)

-----------------------------------------------------------------------------

\* Every register of the two ends holds a value of its type.
TypeOK ==
    /\ QueueTypeOK
    /\ tx_state \in {"IDLE", "START", "DATA", "STOP"}
    /\ rx_state \in {"IDLE", "START", "DATA", "STOP"}
    /\ tx_cycle \in 0 .. Over - 1 /\ rx_cycle \in 0 .. Over - 1
    /\ tx_bit \in 0 .. DataBits - 1 /\ rx_bit \in 0 .. DataBits - 1
    /\ tx_data \in Byte /\ rx_data \in Byte /\ last \in Byte
    /\ skew \in -MaxSkew .. MaxSkew
    /\ flight = <<>> \/ flight \in [1 .. 1 -> Byte]

\* Bits the receiver has of the present byte.
Taken == CASE rx_state = "DATA" -> rx_bit [] rx_state = "STOP" -> DataBits [] OTHER -> 0

\* The newest bits of the receiver are the first bits of the byte in flight:
\* every sample falls into its own bit, whatever the clocks do.
SamplesInOrder ==
    Taken > 0 =>
        /\ flight # <<>>
        /\ SubSeq(rx_data, DataBits - Taken + 1, DataBits) = SubSeq(flight[1], 1, Taken)

Line == INSTANCE ByteLine WITH transit <- flight \o Contents

\* The line delivers every byte it is given, once and in order.
DeliversBytes == Line!Spec
=============================================================================
