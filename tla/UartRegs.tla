------------------------------ MODULE UartRegs ------------------------------
(***************************************************************************)
(* The register file behind the UART, rtl/src/uart_regs.sv.  A command is  *)
(* a byte, the read flag above a register address; a write is followed by  *)
(* the four bytes of the word, a read is answered by them, most            *)
(* significant byte first.  Each action is one rising edge of i_clk in one *)
(* state of the state machine.  Its parameters are what the line does in   *)
(* the same clock: the byte that arrives, as a sequence of 0 or 1 bytes,   *)
(* whether the transmitter takes a byte, and the values on i_regs.         *)
(***************************************************************************)
EXTENDS Naturals, Sequences

CONSTANTS
    Depth,       \* places of each queue, 8 on the board
    WordBytes,   \* bytes of a register, 4
    AddrRange,   \* addresses of a command, 2^7
    NumWrite,    \* registers the host writes
    NumRead,     \* registers the channels write
    ResetWord    \* 32'hDEADC0DE

ASSUME RegsAssumption ==
    /\ Depth \in Nat \ {0} /\ WordBytes \in Nat \ {0} /\ AddrRange \in Nat
    /\ NumWrite \in Nat /\ NumRead \in Nat /\ NumWrite + NumRead \in 1 .. AddrRange

Byte == 0 .. 2 * AddrRange - 1
Word == [1 .. WordBytes -> Byte]
Zero == [b \in 1 .. WordBytes |-> 0]
Reg  == 0 .. NumWrite + NumRead - 1
ReadReg == NumWrite .. NumWrite + NumRead - 1

IsRead(op) == op >= AddrRange
AddrOf(op) == op % AddrRange

VARIABLES
    rxq, txq,    \* the queues (BoundedQueue)
    r_regs,      \* the registers
    r_op,        \* the command
    r_wr_data,   \* word being received
    r_rd_data,   \* word being sent
    r_bcnt,      \* its bytes so far
    r_state      \* IDLE, OP, WR or RD

file == <<rxq, txq, r_regs, r_op, r_wr_data, r_rd_data, r_bcnt, r_state>>

FileTypeOK ==
    /\ rxq \in Seq(Byte) /\ Len(rxq) <= Depth
    /\ txq \in Seq(Byte) /\ Len(txq) <= Depth
    /\ r_regs \in [Reg -> Word]
    /\ r_op \in Byte
    /\ r_wr_data \in Word /\ r_rd_data \in Word
    /\ r_bcnt \in 0 .. WordBytes
    /\ r_state \in {"IDLE", "OP", "WR", "RD"}

FileInit ==
    /\ rxq = <<>> /\ txq = <<>>
    /\ r_regs = [a \in Reg |-> Zero]
    /\ r_op = 0
    /\ r_wr_data = Zero /\ r_rd_data = ResetWord
    /\ r_bcnt = 0 /\ r_state = "IDLE"

-----------------------------------------------------------------------------

Queue == INSTANCE BoundedQueue WITH Item <- Byte, items <- rxq

\* The receive queue, as the line fills it and the state machine empties it.
RxQueue(arriving, deq) == rxq' = Queue!After(rxq, arriving # <<>>, arriving[1], deq)

\* The transmit queue, as the state machine fills it and the line empties it.
TxQueue(enq, taken) == txq' = Queue!After(txq, enq, r_rd_data[1], taken)

\* The status registers follow i_regs in every clock.
Sampled(status) == [a \in Reg |-> IF a \in ReadReg THEN status[a] ELSE r_regs[a]]

LatchOp(arriving, taken, status) ==
    /\ r_state = "IDLE" /\ rxq # <<>>
    /\ r_state' = "OP" /\ r_op' = Head(rxq)
    /\ RxQueue(arriving, TRUE) /\ TxQueue(FALSE, taken)
    /\ r_regs' = Sampled(status)
    /\ UNCHANGED <<r_wr_data, r_rd_data, r_bcnt>>

\* Fault: the byte count of the command before stays.
OpWriteKeepsCount(arriving, taken, status) ==
    /\ r_state = "OP" /\ ~IsRead(r_op)
    /\ r_state' = "WR"
    /\ RxQueue(arriving, FALSE) /\ TxQueue(FALSE, taken)
    /\ r_regs' = Sampled(status)
    /\ UNCHANGED <<r_op, r_wr_data, r_rd_data, r_bcnt>>

OpWrite(arriving, taken, status) ==
    /\ r_state = "OP" /\ ~IsRead(r_op)
    /\ r_state' = "WR" /\ r_bcnt' = 0
    /\ RxQueue(arriving, FALSE) /\ TxQueue(FALSE, taken)
    /\ r_regs' = Sampled(status)
    /\ UNCHANGED <<r_op, r_wr_data, r_rd_data>>

\* An address behind the last register reads as anything.
OpRead(arriving, taken, status) ==
    /\ r_state = "OP" /\ IsRead(r_op)
    /\ r_state' = "RD" /\ r_bcnt' = 0
    /\ r_rd_data' \in IF AddrOf(r_op) \in Reg THEN {r_regs[AddrOf(r_op)]} ELSE Word
    /\ RxQueue(arriving, FALSE) /\ TxQueue(FALSE, taken)
    /\ r_regs' = Sampled(status)
    /\ UNCHANGED <<r_op, r_wr_data>>

ShiftIn(arriving, taken, status) ==
    /\ r_state = "WR" /\ r_bcnt # WordBytes /\ rxq # <<>>
    /\ r_wr_data' = Append(Tail(r_wr_data), Head(rxq))
    /\ r_bcnt' = r_bcnt + 1
    /\ RxQueue(arriving, TRUE) /\ TxQueue(FALSE, taken)
    /\ r_regs' = Sampled(status)
    /\ UNCHANGED <<r_op, r_rd_data, r_state>>

Store(arriving, taken, status) ==
    /\ r_state = "WR" /\ r_bcnt = WordBytes
    /\ r_state' = "IDLE"
    /\ r_regs' = [a \in Reg |-> IF a \notin ReadReg /\ a = AddrOf(r_op)
                                THEN r_wr_data ELSE Sampled(status)[a]]
    /\ RxQueue(arriving, FALSE) /\ TxQueue(FALSE, taken)
    /\ UNCHANGED <<r_op, r_wr_data, r_rd_data, r_bcnt>>

\* Fault: a full transmit queue does not hold the word back.
ShiftOutBlindly(arriving, taken, status) ==
    /\ r_state = "RD" /\ r_bcnt # WordBytes
    /\ r_rd_data' = Append(Tail(r_rd_data), Head(r_rd_data))
    /\ r_bcnt' = r_bcnt + 1
    /\ RxQueue(arriving, FALSE) /\ TxQueue(TRUE, taken)
    /\ r_regs' = Sampled(status)
    /\ UNCHANGED <<r_op, r_wr_data, r_state>>

\* The word rotates, its first byte goes out.
ShiftOut(arriving, taken, status) ==
    /\ r_state = "RD" /\ r_bcnt # WordBytes /\ Len(txq) < Depth
    /\ r_rd_data' = Append(Tail(r_rd_data), Head(r_rd_data))
    /\ r_bcnt' = r_bcnt + 1
    /\ RxQueue(arriving, FALSE) /\ TxQueue(TRUE, taken)
    /\ r_regs' = Sampled(status)
    /\ UNCHANGED <<r_op, r_wr_data, r_state>>

\* Fault: one byte too many is sent.
AnsweredLate(arriving, taken, status) ==
    /\ r_state = "RD" /\ r_bcnt = WordBytes
    /\ r_state' = "IDLE"
    /\ RxQueue(arriving, FALSE) /\ TxQueue(TRUE, taken)
    /\ r_regs' = Sampled(status)
    /\ UNCHANGED <<r_op, r_wr_data, r_rd_data, r_bcnt>>

Answered(arriving, taken, status) ==
    /\ r_state = "RD" /\ r_bcnt = WordBytes
    /\ r_state' = "IDLE"
    /\ RxQueue(arriving, FALSE) /\ TxQueue(FALSE, taken)
    /\ r_regs' = Sampled(status)
    /\ UNCHANGED <<r_op, r_wr_data, r_rd_data, r_bcnt>>

\* Fault: the queue's almost-empty flag is taken for its empty flag.
HoldAlmostEmpty(arriving, taken, status) ==
    /\ \/ r_state \in {"IDLE", "WR"} /\ Len(rxq) <= 1
       \/ r_state = "RD" /\ r_bcnt # WordBytes /\ Len(txq) = Depth
    /\ RxQueue(arriving, FALSE) /\ TxQueue(FALSE, taken)
    /\ r_regs' = Sampled(status)
    /\ UNCHANGED <<r_op, r_wr_data, r_rd_data, r_bcnt, r_state>>

\* The state machine waits for a byte, or for room for one.
Hold(arriving, taken, status) ==
    /\ \/ r_state = "IDLE" /\ rxq = <<>>
       \/ r_state = "WR" /\ r_bcnt # WordBytes /\ rxq = <<>>
       \/ r_state = "RD" /\ r_bcnt # WordBytes /\ Len(txq) = Depth
    /\ RxQueue(arriving, FALSE) /\ TxQueue(FALSE, taken)
    /\ r_regs' = Sampled(status)
    /\ UNCHANGED <<r_op, r_wr_data, r_rd_data, r_bcnt, r_state>>

=============================================================================
