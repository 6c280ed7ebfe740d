---------------------------- MODULE QueueProofs -----------------------------
(***************************************************************************)
(* The ring of ByteQueue is a bounded queue, for every depth of at least   *)
(* two places; and the line of UartLine that it feeds delivers its bytes,   *)
(* for every number of bits and of ticks of a bit and every skew of the    *)
(* clocks below half a bit in a frame.                                     *)
(***************************************************************************)
EXTENDS UartLine, SequenceTheorems, TLAPS

Inv == QueueTypeOK /\ PointersAgree

\* The ring starts empty.
LEMMA InvStarts == QueueInit => Inv
BY DepthAssumption DEF QueueInit, Inv, QueueTypeOK, PointersAgree, Place, Ahead

\* The two invariants are inductive together: a wrap is right only because
\* the pointer was a place, and the count only because the pointers agree.
LEMMA InvStep == Inv /\ [QueueNext]_queue => Inv'
<1> SUFFICES ASSUME Inv, [QueueNext]_queue PROVE Inv'
  OBVIOUS
<1> USE DepthAssumption DEF Inv, QueueTypeOK, PointersAgree, Place, Ahead, Wrap, OFull, OEmpty
<1>1. ASSUME NEW x \in Item, EnqDeq(x) PROVE Inv'
  BY <1>1 DEF EnqDeq
<1>2. ASSUME NEW x \in Item, Enq(x) PROVE Inv'
  BY <1>2 DEF Enq
<1>3. CASE Deq
  BY <1>3 DEF Deq
<1>4. CASE UNCHANGED queue
  BY <1>4 DEF queue
<1> QED BY <1>1, <1>2, <1>3, <1>4 DEF QueueNext

\* Both hold always.
LEMMA InvHolds == QueueSpec => []Inv
BY InvStarts, InvStep, PTL DEF QueueSpec

\* Every register of rtl/lib/fifo.sv holds a value of its type: no pointer
\* leaves the ring, whatever the depth.
THEOREM QueueTypeCorrect == QueueSpec => []QueueTypeOK
BY InvHolds, PTL DEF Inv

\* The count is always the distance of the pointers, so that the flags of
\* rtl/lib/fifo.sv, which compare both, are raised when they should be.
THEOREM PointersAlwaysAgree == QueueSpec => []PointersAgree
BY InvHolds, PTL DEF Inv

-----------------------------------------------------------------------------

\* A function on 1 .. n is a sequence of length n.
LEMMA FunctionIsSeq ==
    ASSUME NEW n \in Nat, NEW f \in [1 .. n -> Item]
    PROVE  f \in Seq(Item) /\ Len(f) = n
<1>1. f \in Seq(Item)
  BY SeqDef
<1>2. DOMAIN f = 1 .. n /\ DOMAIN f = 1 .. Len(f) /\ Len(f) \in Nat
  BY <1>1, LenProperties
<1> QED BY <1>1, <1>2

\* What the ring holds is a sequence of items.
LEMMA ContentsType ==
    ASSUME Inv
    PROVE  Contents \in Seq(Item) /\ Len(Contents) = r_num_data
<1>1. Contents \in [1 .. r_num_data -> Item]
  BY DepthAssumption DEF Inv, QueueTypeOK, Place, Ahead, Contents
<1>2. r_num_data \in Nat
  BY DepthAssumption DEF Inv, QueueTypeOK
<1> QED BY <1>1, <1>2, FunctionIsSeq

\* The flags speak of the contents.
LEMMA FlagsExact ==
    ASSUME Inv
    PROVE  /\ OFull <=> Len(Contents) = Depth
           /\ OEmpty <=> Contents = <<>>
<1>1. Contents \in Seq(Item) /\ Len(Contents) = r_num_data
  BY ContentsType
<1>2. OFull <=> r_num_data = Depth
  BY DepthAssumption DEF Inv, QueueTypeOK, PointersAgree, Place, Ahead, OFull
<1>3. OEmpty <=> r_num_data = 0
  BY DepthAssumption DEF Inv, QueueTypeOK, PointersAgree, Place, Ahead, OEmpty
<1>4. Contents = <<>> <=> Len(Contents) = 0
  BY <1>1, EmptySeq
<1> QED BY <1>1, <1>2, <1>3, <1>4

\* Counting on from a place, round the ring, gives a place.
LEMMA AheadIsPlace ==
    ASSUME NEW ptr \in Place, NEW n \in Place
    PROVE  Ahead(ptr, n) \in Place
BY DepthAssumption DEF Place, Ahead

\* The contents after a step, element by element.
LEMMA ContentsPrimed ==
    ASSUME Inv, Inv'
    PROVE  /\ Contents' \in Seq(Item) /\ Len(Contents') = r_num_data'
           /\ \A n \in 1 .. r_num_data' :
                Contents'[n] = r_data'[Ahead(r_deq_ptr', n - 1)]
<1>1. Contents' = [n \in 1 .. r_num_data' |-> r_data'[Ahead(r_deq_ptr', n - 1)]]
  BY DEF Contents, Ahead
<1>2. Contents' \in [1 .. r_num_data' -> Item]
  <2>1. ASSUME NEW n \in 1 .. r_num_data' PROVE r_data'[Ahead(r_deq_ptr', n - 1)] \in Item
    <3>1. r_deq_ptr' \in 0 .. Depth - 1 /\ r_num_data' \in 0 .. Depth
      BY DEF Inv, QueueTypeOK, Place
    <3>2. n - 1 \in 0 .. Depth - 1
      BY <3>1, DepthAssumption
    <3>3. Ahead(r_deq_ptr', n - 1) \in Place
      BY <3>1, <3>2, AheadIsPlace DEF Place
    <3> QED BY <3>3 DEF Inv, QueueTypeOK
  <2> QED BY <1>1, <2>1
<1>3. r_num_data' \in Nat
  BY DepthAssumption DEF Inv, QueueTypeOK
<1> QED BY <1>1, <1>2, <1>3, FunctionIsSeq

\* An item that goes in becomes the last one.
LEMMA EnqAppends ==
    ASSUME Inv, Inv', NEW x \in Item, Enq(x)
    PROVE  Contents' = Append(Contents, x)
<1>1. Contents \in Seq(Item) /\ Len(Contents) = r_num_data
  BY ContentsType
<1>2. r_num_data' = r_num_data + 1 /\ r_num_data \in 0 .. Depth - 1
  BY DepthAssumption DEF Enq, OFull, Inv, QueueTypeOK, PointersAgree, Place, Ahead
<1>3. \A n \in 1 .. r_num_data :
        r_data'[Ahead(r_deq_ptr', n - 1)] = r_data[Ahead(r_deq_ptr, n - 1)]
  BY <1>2, DepthAssumption DEF Enq, Inv, QueueTypeOK, PointersAgree, Place, Ahead
<1>4. r_data'[Ahead(r_deq_ptr', r_num_data)] = x
  BY <1>2, DepthAssumption DEF Enq, Inv, QueueTypeOK, PointersAgree, Place, Ahead
<1>5. Append(Contents, x) \in Seq(Item) /\ Len(Append(Contents, x)) = r_num_data + 1
      /\ \A n \in 1 .. r_num_data + 1 :
            Append(Contents, x)[n] = IF n = r_num_data + 1 THEN x ELSE Contents[n]
  BY <1>1, AppendProperties
<1>6. \A n \in 1 .. r_num_data + 1 : Contents'[n] = Append(Contents, x)[n]
  <2> SUFFICES ASSUME NEW n \in 1 .. r_num_data + 1
               PROVE  Contents'[n] = Append(Contents, x)[n]
    OBVIOUS
  <2>1. Contents'[n] = r_data'[Ahead(r_deq_ptr', n - 1)]
    BY <1>2, ContentsPrimed
  <2>2. CASE n = r_num_data + 1
    BY <1>2, <1>4, <1>5, <2>1, <2>2
  <2>3. CASE n \in 1 .. r_num_data
    BY <1>2, <1>3, <1>5, <2>1, <2>3 DEF Contents
  <2>4. n = r_num_data + 1 \/ n \in 1 .. r_num_data
    BY <1>2, DepthAssumption
  <2> QED BY <2>2, <2>3, <2>4
<1> QED BY <1>2, <1>5, <1>6, ContentsPrimed, SeqEqual

\* The first item is the one that leaves.
LEMMA DeqTakesHead ==
    ASSUME Inv, Inv', Deq
    PROVE  /\ Contents # <<>> /\ OData = Head(Contents)
           /\ Contents' = Tail(Contents)
<1>1. Contents \in Seq(Item) /\ Len(Contents) = r_num_data
  BY ContentsType
<1>2. r_num_data' = r_num_data - 1 /\ r_num_data \in 1 .. Depth
  BY DepthAssumption DEF Deq, OEmpty, Inv, QueueTypeOK, PointersAgree, Place, Ahead
<1>3. \A n \in 1 .. r_num_data - 1 :
        r_data'[Ahead(r_deq_ptr', n - 1)] = r_data[Ahead(r_deq_ptr, n)]
  BY <1>2, DepthAssumption DEF Deq, Inv, QueueTypeOK, PointersAgree, Place, Ahead, Wrap
<1>4. Contents # <<>>
  BY <1>1, <1>2, EmptySeq
<1>5. Tail(Contents) \in Seq(Item) /\ Len(Tail(Contents)) = r_num_data - 1
      /\ \A n \in 1 .. r_num_data - 1 : Tail(Contents)[n] = Contents[n + 1]
  BY <1>1, <1>4, HeadTailProperties
<1>6. \A n \in 1 .. r_num_data - 1 : Contents'[n] = Tail(Contents)[n]
  <2> SUFFICES ASSUME NEW n \in 1 .. r_num_data - 1
               PROVE  Contents'[n] = Tail(Contents)[n]
    OBVIOUS
  <2>1. Contents'[n] = r_data'[Ahead(r_deq_ptr', n - 1)]
    BY <1>2, ContentsPrimed
  <2>2. Contents[n + 1] = r_data[Ahead(r_deq_ptr, n)]
    BY <1>2 DEF Contents
  <2> QED BY <1>3, <1>5, <2>1, <2>2
<1>7. OData = Contents[1] /\ Head(Contents) = Contents[1]
  BY <1>1, <1>2, <1>4, DepthAssumption DEF OData, Contents, Ahead, Inv, QueueTypeOK, Place
<1> QED BY <1>2, <1>4, <1>5, <1>6, <1>7, ContentsPrimed, SeqEqual

\* Both at once: the first leaves and the new one becomes the last.
LEMMA EnqDeqShifts ==
    ASSUME Inv, Inv', NEW x \in Item, EnqDeq(x)
    PROVE  /\ Contents # <<>> /\ Len(Contents) < Depth
           /\ Contents' = Append(Tail(Contents), x)
<1>1. Contents \in Seq(Item) /\ Len(Contents) = r_num_data
  BY ContentsType
<1>2. r_num_data' = r_num_data /\ r_num_data \in 1 .. Depth - 1
  BY DepthAssumption DEF EnqDeq, OEmpty, OFull, Inv, QueueTypeOK, PointersAgree, Place, Ahead
<1>3. \A n \in 1 .. r_num_data - 1 :
        r_data'[Ahead(r_deq_ptr', n - 1)] = r_data[Ahead(r_deq_ptr, n)]
  BY <1>2, DepthAssumption DEF EnqDeq, Inv, QueueTypeOK, PointersAgree, Place, Ahead, Wrap
<1>4. r_data'[Ahead(r_deq_ptr', r_num_data - 1)] = x
  BY <1>2, DepthAssumption DEF EnqDeq, Inv, QueueTypeOK, PointersAgree, Place, Ahead, Wrap
<1>5. Contents # <<>>
  BY <1>1, <1>2, EmptySeq
<1>6. Tail(Contents) \in Seq(Item) /\ Len(Tail(Contents)) = r_num_data - 1
      /\ \A n \in 1 .. r_num_data - 1 : Tail(Contents)[n] = Contents[n + 1]
  BY <1>1, <1>5, HeadTailProperties
<1>7. Append(Tail(Contents), x) \in Seq(Item)
      /\ Len(Append(Tail(Contents), x)) = r_num_data
      /\ \A n \in 1 .. r_num_data :
            Append(Tail(Contents), x)[n] = IF n = r_num_data THEN x ELSE Contents[n + 1]
  BY <1>2, <1>6, AppendProperties
<1>8. \A n \in 1 .. r_num_data : Contents'[n] = Append(Tail(Contents), x)[n]
  <2> SUFFICES ASSUME NEW n \in 1 .. r_num_data
               PROVE  Contents'[n] = Append(Tail(Contents), x)[n]
    OBVIOUS
  <2>1. Contents'[n] = r_data'[Ahead(r_deq_ptr', n - 1)]
    BY <1>2, ContentsPrimed
  <2>2. CASE n = r_num_data
    BY <1>4, <1>7, <2>1, <2>2
  <2>3. CASE n \in 1 .. r_num_data - 1
    <3>1. Contents[n + 1] = r_data[Ahead(r_deq_ptr, n)]
      BY <1>2, <2>3 DEF Contents
    <3> QED BY <1>3, <1>7, <2>1, <2>3, <3>1
  <2>4. n = r_num_data \/ n \in 1 .. r_num_data - 1
    BY <1>2, DepthAssumption
  <2> QED BY <2>2, <2>3, <2>4
<1>9. Len(Contents) < Depth
  BY <1>1, <1>2, DepthAssumption
<1>10. Contents' = Append(Tail(Contents), x)
  BY <1>2, <1>7, <1>8, ContentsPrimed, SeqEqual
<1> QED BY <1>5, <1>9, <1>10

-----------------------------------------------------------------------------

\* Each step of the ring is a step of the bounded queue.
LEMMA StepIsQueueStep ==
    ASSUME Inv, Inv', QueueNext
    PROVE  Queue!Clock
<1>1. ASSUME NEW x \in Item, EnqDeq(x) PROVE Contents' = Queue!After(Contents, TRUE, x, TRUE)
  BY <1>1, EnqDeqShifts DEF Queue!After
<1>2. ASSUME NEW x \in Item, Enq(x) PROVE Contents' = Queue!After(Contents, TRUE, x, FALSE)
  <2>1. Len(Contents) = r_num_data /\ r_num_data \in 0 .. Depth - 1
    BY <1>2, ContentsType, DepthAssumption
    DEF Enq, OFull, Inv, QueueTypeOK, PointersAgree, Place, Ahead
  <2> QED BY <1>2, <2>1, DepthAssumption, EnqAppends DEF Queue!After
<1>3. ASSUME Deq PROVE \E x \in Item : Contents' = Queue!After(Contents, FALSE, x, TRUE)
  <2>1. PICK x \in Item : x = r_data[0]
    BY DepthAssumption DEF Inv, QueueTypeOK, Place
  <2> QED BY <1>3, <2>1, DeqTakesHead DEF Queue!After
<1> QED BY <1>1, <1>2, <1>3 DEF QueueNext, Queue!Clock

\* The ring of rtl/lib/fifo.sv implements the bounded queue: order is kept,
\* nothing is overwritten, and only an item offered to a full queue is lost.
THEOREM RingIsQueue == QueueSpec => ImplementsQueue
<1>1. QueueInit => Queue!Init
  <2> SUFFICES ASSUME QueueInit PROVE Contents = <<>>
    BY DEF Queue!Init
  <2>1. Inv
    BY DepthAssumption DEF QueueInit, Inv, QueueTypeOK, PointersAgree, Place, Ahead
  <2> QED BY <2>1, ContentsType, EmptySeq DEF QueueInit
<1>2. Inv /\ Inv' /\ [QueueNext]_queue => [Queue!Clock]_Contents
  <2> SUFFICES ASSUME Inv, Inv', [QueueNext]_queue PROVE Queue!Clock \/ UNCHANGED Contents
    OBVIOUS
  <2>1. CASE QueueNext
    BY <2>1, StepIsQueueStep
  <2>2. CASE UNCHANGED queue
    BY <2>2 DEF queue, Contents, Ahead
  <2> QED BY <2>1, <2>2
<1> QED BY <1>1, <1>2, InvHolds, PTL DEF QueueSpec, Queue!Spec, ImplementsQueue

-----------------------------------------------------------------------------
(* The line: the inductive invariant. *)

Half == Over \div 2

\* Bits of the frame the transmitter is done with, the start bit among them.
TxBits == CASE tx_state = "DATA" -> tx_bit + 1
            [] tx_state = "STOP" -> DataBits + 1
            [] OTHER -> 0

\* Ticks of the receiver since the edge, less those of the bits it has taken.
RxTicks == IF rx_state = "START" THEN rx_cycle ELSE Half + rx_cycle

\* The registers of the two ends hold values of their types; the receiver waits
\* for half a bit in the start bit.
EndsOK ==
    /\ tx_state \in {"IDLE", "START", "DATA", "STOP"}
    /\ rx_state \in {"IDLE", "START", "DATA", "STOP"}
    /\ tx_cycle \in 0 .. Over - 1 /\ rx_cycle \in 0 .. Over - 1
    /\ tx_bit \in 0 .. DataBits - 1 /\ rx_bit \in 0 .. DataBits - 1
    /\ tx_data \in Byte /\ rx_data \in Byte /\ last \in Byte
    /\ skew \in -MaxSkew .. MaxSkew
    /\ flight = <<>> \/ flight \in [1 .. 1 -> Byte]
    /\ rx_state = "START" => rx_cycle < Half

\* The ends count the ticks of the same frame, skew apart: the transmitter is
\* in the bit that the receiver takes next, or in the one before.
Aligned ==
    IF rx_state = "IDLE"
    THEN \/ tx_state \in {"IDLE", "STOP"}
         \/ tx_state = "START" /\ tx_cycle = 0
    ELSE /\ tx_state # "IDLE"
         /\ \/ TxBits = Taken /\ tx_cycle - RxTicks = skew
            \/ TxBits = Taken + 1 /\ Over + tx_cycle - RxTicks = skew

\* A byte is in flight from its start bit until it is received.
InFlight == flight # <<>> <=> (rx_state # "IDLE" \/ tx_state = "START")

\* The transmitter's register begins with the bits still to be sent.
Sending ==
    /\ tx_state = "START" => tx_data = flight[1]
    /\ tx_state = "DATA" =>
         \A i \in 1 .. DataBits - tx_bit : tx_data[i] = flight[1][tx_bit + i]

\* The receiver's register ends with the bits taken.
Receiving == \A i \in 1 .. Taken : rx_data[DataBits - Taken + i] = flight[1][i]

LineInv == Inv /\ EndsOK /\ Aligned /\ InFlight /\ Sending /\ Receiving

\* What the assumptions say of the sizes.
LEMMA LineSizes ==
    /\ Half \in Nat \ {0} /\ Over = 2 * Half /\ Over \in Nat \ {0}
    /\ MaxSkew \in Nat /\ MaxSkew < Half
    /\ DataBits \in Nat \ {0} /\ Item = Byte /\ Over % Over = 0
<1>1. Over \in Nat \ {0, 1} /\ Over % 2 = 0 /\ MaxSkew \in 0 .. Over \div 2 - 1
  BY LineAssumption
<1>2. Over = 2 * (Over \div 2) + (Over % 2) /\ Over \div 2 \in Nat
  BY <1>1
<1>3. Over \div 2 # 0
  BY <1>1, <1>2
<1>4. Over % Over = 0
  BY <1>1
<1>5. Item = Byte
  BY LineAssumption DEF Byte, Bit
<1> QED BY <1>1, <1>2, <1>3, <1>4, <1>5, LineAssumption DEF Half

\* Both ends shift their register to its first bit and fill it at its last.
LEMMA ShiftBits ==
    ASSUME NEW d \in Byte, NEW b \in Bit
    PROVE  /\ Append(Tail(d), b) \in Byte
           /\ \A i \in 1 .. DataBits :
                 Append(Tail(d), b)[i] = IF i < DataBits THEN d[i + 1] ELSE b
<1> DEFINE t == Tail(d)
           v == Append(t, b)
<1>1. d \in Seq(Bit) /\ Len(d) = DataBits /\ d # <<>>
  <2>1. d \in Seq(Bit)
    BY LineSizes, SeqDef DEF Byte
  <2>2. DOMAIN d = 1 .. DataBits /\ DOMAIN d = 1 .. Len(d) /\ Len(d) \in Nat
    BY <2>1, LenProperties DEF Byte
  <2>3. Len(d) = DataBits
    BY <2>2, LineSizes
  <2> QED BY <2>1, <2>3, LineSizes, EmptySeq
<1>2. t \in Seq(Bit) /\ Len(t) = DataBits - 1 /\ \A i \in 1 .. DataBits - 1 : t[i] = d[i + 1]
  BY <1>1, HeadTailProperties
<1> HIDE DEF t
<1>3. /\ v \in Seq(Bit) /\ Len(v) = (DataBits - 1) + 1
      /\ \A i \in 1 .. DataBits - 1 : v[i] = t[i]
      /\ v[(DataBits - 1) + 1] = b
  BY <1>2, AppendProperties
<1>4. (DataBits - 1) + 1 = DataBits
  BY LineSizes
<1> HIDE DEF v
<1>5. \A i \in 1 .. DataBits : v[i] = IF i < DataBits THEN d[i + 1] ELSE b
  <2> TAKE i \in 1 .. DataBits
  <2>1. \/ i = DataBits /\ ~(i < DataBits)
        \/ i \in 1 .. DataBits - 1 /\ i < DataBits
    BY LineSizes
  <2> QED BY <1>2, <1>3, <1>4, <2>1
<1>6. v \in Byte
  BY <1>3, <1>4, LenProperties DEF Byte
<1> QED BY <1>5, <1>6 DEF t, v

\* The line is high before the start bit and low in it.
LEMMA IdleIsHigh ==
    ASSUME LineInv, rx_state = "IDLE"
    PROVE  /\ tx_state = "START" <=> OTx = 0
           /\ OTx # 1 <=> tx_state = "START"
           /\ tx_state # "DATA"
<1>1. tx_state \in {"IDLE", "STOP", "START"}
  BY DEF LineInv, Aligned
<1> QED BY <1>1 DEF OTx

-----------------------------------------------------------------------------
(* The ticks of the transmitter. *)

\* A byte is taken while nothing is in flight.
LEMMA TakeByteKeeps ==
    ASSUME LineInv, Inv', TxTick, TakeByte
    PROVE  LineInv' /\ flight = <<>> /\ flight' = <<OData>> /\ OData \in Byte
<1>1. /\ tx_state = "IDLE" /\ tx_state' = "START" /\ tx_cycle' = 0 /\ tx_bit' = 0
      /\ tx_data' = OData /\ flight' = Append(flight, OData)
      /\ skew' = (IF rx_state = "IDLE" THEN 0 ELSE skew + 1)
      /\ UNCHANGED <<rx_state, rx_cycle, rx_bit, rx_data, last>>
  BY DEF TxTick, TakeByte, receiver
<1>2. rx_state = "IDLE" /\ flight = <<>>
  BY <1>1 DEF LineInv, Aligned, InFlight
<1>3. OData \in Byte
  BY LineSizes DEF LineInv, Inv, QueueTypeOK, OData
<1>4. flight' = <<OData>> /\ flight' \in [1 .. 1 -> Byte] /\ flight'[1] = OData
  <2> HIDE DEF Byte
  <2> QED BY <1>1, <1>2, <1>3
<1>5. EndsOK'
  BY <1>1, <1>2, <1>3, <1>4, LineSizes DEF LineInv, EndsOK
<1>6. Aligned' /\ InFlight' /\ Sending' /\ Receiving'
  BY <1>1, <1>2, <1>4 DEF Aligned, InFlight, Sending, Receiving, Taken
<1> QED BY <1>2, <1>3, <1>4, <1>5, <1>6 DEF LineInv

\* The ticks of a bit pass.
LEMMA BitLastsKeeps ==
    ASSUME LineInv, Inv', TxTick, BitLasts
    PROVE  LineInv'
<1>1. /\ tx_state # "IDLE" /\ tx_cycle # Over - 1 /\ tx_cycle' = tx_cycle + 1
      /\ skew < MaxSkew /\ skew' = (IF rx_state = "IDLE" THEN 0 ELSE skew + 1)
      /\ rx_state = "IDLE" => OTx = 1
      /\ UNCHANGED <<tx_state, tx_bit, tx_data, flight, rx_state, rx_cycle, rx_bit, rx_data, last>>
  BY DEF TxTick, BitLasts, BitOver, receiver
<1>2. EndsOK'
  BY <1>1, LineSizes DEF LineInv, EndsOK
<1>3. TxBits' = TxBits /\ RxTicks' = RxTicks /\ Taken' = Taken
  BY <1>1 DEF TxBits, RxTicks, Taken
<1>4. Aligned'
  <2>1. CASE rx_state = "IDLE"
    BY <1>1, <2>1, IdleIsHigh DEF LineInv, Aligned
  <2>2. CASE rx_state # "IDLE"
    <3>1. RxTicks \in Int /\ tx_cycle \in Int /\ skew \in Int /\ Over \in Int
      BY LineSizes DEF LineInv, EndsOK, RxTicks
    <3> QED BY <1>1, <1>3, <2>2, <3>1 DEF LineInv, Aligned
  <2> QED BY <2>1, <2>2
<1>5. InFlight' /\ Sending' /\ Receiving'
  BY <1>1, <1>3 DEF LineInv, InFlight, Sending, Receiving
<1> QED BY <1>2, <1>4, <1>5 DEF LineInv

\* What holds of the ends at the last tick of a bit: the receiver has not taken
\* the next one, and has taken the last one if there is a next.
LEMMA BitEnds ==
    ASSUME LineInv, TxTick, BitOver, rx_state # "IDLE"
    PROVE  /\ TxBits = Taken
           /\ Over - RxTicks = skew + 1
<1>1. /\ RxTicks \in 0 .. Half + Over - 1 /\ tx_cycle = Over - 1 /\ skew \in -MaxSkew .. MaxSkew
      /\ skew < MaxSkew
  BY LineSizes DEF LineInv, EndsOK, RxTicks, BitOver, TxTick
<1>2. ~(Over + tx_cycle - RxTicks = skew)
  BY <1>1, LineSizes
<1>3. TxBits = Taken /\ tx_cycle - RxTicks = skew
  BY <1>2 DEF LineInv, Aligned
<1> QED BY <1>1, <1>3, LineSizes

\* The start bit is sent.
LEMMA StartSentKeeps ==
    ASSUME LineInv, Inv', TxTick, StartSent
    PROVE  LineInv'
<1>1. /\ tx_state = "START" /\ BitOver /\ tx_state' = "DATA" /\ tx_cycle' = 0 /\ tx_bit' = 0
      /\ skew < MaxSkew /\ skew' = (IF rx_state = "IDLE" THEN 0 ELSE skew + 1)
      /\ rx_state = "IDLE" => OTx = 1
      /\ UNCHANGED <<tx_data, flight, rx_state, rx_cycle, rx_bit, rx_data, last>>
  BY DEF TxTick, StartSent, receiver
<1>2. rx_state # "IDLE"
  BY <1>1, IdleIsHigh
<1>3. EndsOK'
  BY <1>1, LineSizes DEF LineInv, EndsOK
<1>4. TxBits = 0 /\ TxBits' = 1 /\ RxTicks' = RxTicks /\ Taken' = Taken
  BY <1>1 DEF TxBits, RxTicks, Taken
<1>5. Aligned'
  <2>1. TxBits = Taken /\ Over - RxTicks = skew + 1 /\ RxTicks \in Int /\ Over \in Int
    BY <1>1, <1>2, BitEnds, LineSizes DEF LineInv, EndsOK, RxTicks
  <2> QED BY <1>1, <1>2, <1>4, <2>1 DEF Aligned
<1>6. InFlight' /\ Receiving'
  BY <1>1, <1>2, <1>4 DEF LineInv, InFlight, Receiving
<1>7. Sending'
  BY <1>1, LineSizes DEF LineInv, Sending
<1> QED BY <1>3, <1>5, <1>6, <1>7 DEF LineInv

\* A bit is sent, and the register shifted.
LEMMA BitSentKeeps ==
    ASSUME LineInv, Inv', TxTick, BitSent
    PROVE  LineInv'
<1>1. /\ tx_state = "DATA" /\ BitOver /\ tx_cycle' = 0 /\ tx_bit # DataBits - 1
      /\ tx_bit' = tx_bit + 1 /\ tx_data' = Append(Tail(tx_data), 0)
      /\ skew < MaxSkew /\ skew' = (IF rx_state = "IDLE" THEN 0 ELSE skew + 1)
      /\ UNCHANGED <<tx_state, flight, rx_state, rx_cycle, rx_bit, rx_data, last>>
  BY DEF TxTick, BitSent, receiver
<1>2. rx_state # "IDLE"
  BY <1>1, IdleIsHigh
<1>3. /\ tx_data' \in Byte
      /\ \A i \in 1 .. DataBits : tx_data'[i] = IF i < DataBits THEN tx_data[i + 1] ELSE 0
  BY <1>1, ShiftBits DEF LineInv, EndsOK, Bit
<1>4. tx_bit \in 0 .. DataBits - 2
  BY <1>1, LineSizes DEF LineInv, EndsOK
<1>5. EndsOK'
  BY <1>1, <1>3, <1>4, LineSizes DEF LineInv, EndsOK
<1>6. TxBits = tx_bit + 1 /\ TxBits' = (tx_bit + 1) + 1 /\ RxTicks' = RxTicks /\ Taken' = Taken
  BY <1>1 DEF TxBits, RxTicks, Taken
<1>7. Aligned'
  <2>1. TxBits = Taken /\ Over - RxTicks = skew + 1 /\ RxTicks \in Int /\ Over \in Int
    BY <1>1, <1>2, BitEnds, LineSizes DEF LineInv, EndsOK, RxTicks
  <2> QED BY <1>1, <1>2, <1>6, <2>1 DEF Aligned
<1>8. InFlight' /\ Receiving'
  BY <1>1, <1>2, <1>6 DEF LineInv, InFlight, Receiving
<1>9. Sending'
  <2>1. ASSUME NEW i \in 1 .. DataBits - (tx_bit + 1)
        PROVE  tx_data'[i] = flight[1][(tx_bit + 1) + i]
    <3>1. /\ i \in 1 .. DataBits /\ i < DataBits /\ i + 1 \in 1 .. DataBits - tx_bit
          /\ tx_bit + (i + 1) = (tx_bit + 1) + i
      BY <1>4, LineSizes
    <3>2. tx_data[i + 1] = flight[1][tx_bit + (i + 1)]
      BY <1>1, <3>1 DEF LineInv, Sending
    <3> QED BY <1>3, <3>1, <3>2
  <2> QED BY <1>1, <2>1 DEF Sending
<1> QED BY <1>5, <1>7, <1>8, <1>9 DEF LineInv

\* The last bit is sent.
LEMMA DataSentKeeps ==
    ASSUME LineInv, Inv', TxTick, DataSent
    PROVE  LineInv'
<1>1. /\ tx_state = "DATA" /\ BitOver /\ tx_bit = DataBits - 1
      /\ tx_state' = "STOP" /\ tx_cycle' = 0 /\ tx_bit' = 0
      /\ skew < MaxSkew /\ skew' = (IF rx_state = "IDLE" THEN 0 ELSE skew + 1)
      /\ UNCHANGED <<tx_data, flight, rx_state, rx_cycle, rx_bit, rx_data, last>>
  BY DEF TxTick, DataSent, receiver
<1>2. rx_state # "IDLE"
  BY <1>1, IdleIsHigh
<1>3. EndsOK'
  BY <1>1, LineSizes DEF LineInv, EndsOK
<1>4. TxBits = DataBits /\ TxBits' = DataBits + 1 /\ RxTicks' = RxTicks /\ Taken' = Taken
  BY <1>1, LineSizes DEF TxBits, RxTicks, Taken
<1>5. Aligned'
  <2>1. TxBits = Taken /\ Over - RxTicks = skew + 1 /\ RxTicks \in Int /\ Over \in Int
    BY <1>1, <1>2, BitEnds, LineSizes DEF LineInv, EndsOK, RxTicks
  <2> QED BY <1>1, <1>2, <1>4, <2>1 DEF Aligned
<1>6. InFlight' /\ Receiving' /\ Sending'
  BY <1>1, <1>2, <1>4 DEF LineInv, InFlight, Receiving, Sending
<1> QED BY <1>3, <1>5, <1>6 DEF LineInv

\* The stop bit is sent, after the receiver is done with it.
LEMMA StopSentKeeps ==
    ASSUME LineInv, Inv', TxTick, StopSent
    PROVE  LineInv'
<1>1. /\ tx_state = "STOP" /\ BitOver
      /\ tx_state' = "IDLE" /\ tx_cycle' = 0 /\ tx_bit' = 0
      /\ skew' = (IF rx_state = "IDLE" THEN 0 ELSE skew + 1)
      /\ UNCHANGED <<tx_data, flight, rx_state, rx_cycle, rx_bit, rx_data, last>>
  BY DEF TxTick, StopSent, receiver
<1>2. rx_state = "IDLE"
  <2> SUFFICES ASSUME rx_state # "IDLE" PROVE FALSE
    OBVIOUS
  <2>1. TxBits = Taken
    BY <1>1, BitEnds
  <2>2. TxBits = DataBits + 1 /\ Taken \in 0 .. DataBits
    BY <1>1, LineSizes, SMTT(30) DEF TxBits, Taken, LineInv, EndsOK
  <2> QED BY <2>1, <2>2, LineSizes
<1>3. EndsOK'
  BY <1>1, <1>2, LineSizes DEF LineInv, EndsOK
<1>4. Taken' = Taken
  BY <1>1 DEF Taken
<1>5. Aligned' /\ InFlight' /\ Receiving' /\ Sending'
  BY <1>1, <1>2, <1>4 DEF LineInv, Aligned, InFlight, Receiving, Sending
<1> QED BY <1>3, <1>5 DEF LineInv

-----------------------------------------------------------------------------
(* The receiver. *)

\* The receiver sees the edge before the transmitter's next tick.
LEMMA DetectKeeps ==
    ASSUME LineInv, Inv', RxEdge
    PROVE  LineInv'
<1>1. /\ rx_state = "IDLE" /\ OTx = 0 /\ rx_state' = "START" /\ rx_cycle' = 0 /\ skew' = 0
      /\ UNCHANGED <<rx_bit, rx_data, flight, last, tx_state, tx_cycle, tx_bit, tx_data>>
  BY DEF RxEdge, Detect, transmitter
<1>2. tx_state = "START" /\ tx_cycle = 0
  BY <1>1, IdleIsHigh DEF LineInv, Aligned
<1>3. EndsOK'
  BY <1>1, LineSizes DEF LineInv, EndsOK
<1>4. TxBits' = 0 /\ RxTicks' = 0 /\ Taken' = 0
  BY <1>1, <1>2 DEF TxBits, RxTicks, Taken
<1>5. Aligned' /\ InFlight' /\ Receiving' /\ Sending'
  BY <1>1, <1>2, <1>4 DEF LineInv, Aligned, InFlight, Receiving, Sending
<1> QED BY <1>3, <1>5 DEF LineInv

\* Half a bit after the edge the receiver starts to count whole ones.
LEMMA StartSeenKeeps ==
    ASSUME LineInv, Inv', RxTick, StartSeen
    PROVE  LineInv'
<1>1. /\ rx_state = "START" /\ skew > -MaxSkew
      /\ IF rx_cycle = Half - 1
         THEN rx_state' = "DATA" /\ rx_cycle' = 0 /\ rx_bit' = 0
         ELSE rx_cycle' = rx_cycle + 1 /\ UNCHANGED <<rx_state, rx_bit>>
      /\ skew' = skew - 1
      /\ UNCHANGED <<rx_data, flight, last, tx_state, tx_cycle, tx_bit, tx_data>>
  BY DEF RxTick, StartSeen, transmitter, Half
<1>2. rx_cycle \in 0 .. Half - 1 /\ skew \in -MaxSkew .. MaxSkew /\ tx_cycle \in 0 .. Over - 1
  BY <1>1, LineSizes DEF LineInv, EndsOK
<1>3. EndsOK'
  BY <1>1, <1>2, LineSizes DEF LineInv, EndsOK
<1>4. /\ TxBits' = TxBits /\ RxTicks = rx_cycle /\ RxTicks' = rx_cycle + 1
      /\ Taken = 0 /\ Taken' = 0
  BY <1>1, <1>2, LineSizes DEF TxBits, RxTicks, Taken
<1>5. Aligned'
  BY <1>1, <1>2, <1>4, LineSizes DEF LineInv, Aligned
<1>6. InFlight' /\ Receiving' /\ Sending'
  BY <1>1, <1>4 DEF LineInv, InFlight, Receiving, Sending
<1> QED BY <1>3, <1>5, <1>6 DEF LineInv

\* The ticks between two samples.
LEMMA SampleLaterKeeps ==
    ASSUME LineInv, Inv', RxTick, SampleLater
    PROVE  LineInv'
<1>1. /\ rx_state \in {"DATA", "STOP"} /\ skew > -MaxSkew /\ rx_cycle # Over - 1
      /\ rx_cycle' = rx_cycle + 1 /\ skew' = skew - 1
      /\ UNCHANGED <<rx_state, rx_bit, rx_data, flight, last, tx_state, tx_cycle, tx_bit, tx_data>>
  BY DEF RxTick, SampleLater, transmitter
<1>2. rx_cycle \in 0 .. Over - 1 /\ skew \in -MaxSkew .. MaxSkew /\ tx_cycle \in 0 .. Over - 1
  BY DEF LineInv, EndsOK
<1>3. EndsOK'
  BY <1>1, <1>2, LineSizes DEF LineInv, EndsOK
<1>4. /\ TxBits' = TxBits /\ RxTicks = Half + rx_cycle /\ RxTicks' = Half + (rx_cycle + 1)
      /\ Taken' = Taken
  BY <1>1 DEF TxBits, RxTicks, Taken
<1>5. Aligned'
  BY <1>1, <1>2, <1>4, LineSizes DEF LineInv, Aligned
<1>6. InFlight' /\ Receiving' /\ Sending'
  BY <1>1, <1>4 DEF LineInv, InFlight, Receiving, Sending
<1> QED BY <1>3, <1>5, <1>6 DEF LineInv

\* At its last tick the receiver is in the bit after those it has taken.
LEMMA BitTaken ==
    ASSUME LineInv, RxTick, rx_state \in {"DATA", "STOP"}, rx_cycle = Over - 1
    PROVE  TxBits = Taken + 1 /\ tx_cycle - Half = skew - 1
<1>1. /\ RxTicks = Half + (Over - 1) /\ skew \in -MaxSkew .. MaxSkew /\ skew > -MaxSkew
      /\ tx_cycle \in 0 .. Over - 1
  BY DEF LineInv, EndsOK, RxTicks, RxTick
<1>2. ~(tx_cycle - RxTicks = skew)
  BY <1>1, LineSizes
<1>3. TxBits = Taken + 1 /\ Over + tx_cycle - RxTicks = skew
  BY <1>2 DEF LineInv, Aligned
<1> QED BY <1>1, <1>3, LineSizes

\* A sample is the bit that comes next, and is put behind those taken.
LEMMA SampleKeeps ==
    ASSUME LineInv, Inv', RxTick, Sample
    PROVE  LineInv'
<1>1. /\ rx_state = "DATA" /\ rx_cycle = Over - 1 /\ skew > -MaxSkew /\ skew' = skew - 1
      /\ rx_data' = Append(Tail(rx_data), OTx) /\ rx_cycle' = (rx_cycle + 1) % Over
      /\ IF rx_bit = DataBits - 1
         THEN rx_state' = "STOP" /\ rx_bit' = 0
         ELSE rx_bit' = rx_bit + 1 /\ UNCHANGED rx_state
      /\ UNCHANGED <<flight, last, tx_state, tx_cycle, tx_bit, tx_data>>
  BY DEF RxTick, Sample, transmitter
<1>2. /\ rx_bit \in 0 .. DataBits - 1 /\ tx_bit \in 0 .. DataBits - 1
      /\ skew \in -MaxSkew .. MaxSkew /\ tx_cycle \in 0 .. Over - 1
      /\ tx_data \in Byte /\ rx_data \in Byte
      /\ tx_state \in {"IDLE", "START", "DATA", "STOP"}
  BY DEF LineInv, EndsOK
<1>3. Taken = rx_bit /\ TxBits = rx_bit + 1 /\ tx_cycle - Half = skew - 1
  BY <1>1, BitTaken DEF Taken
<1>4. tx_state = "DATA" /\ tx_bit = rx_bit
  <2>1. rx_bit + 1 # 0 /\ rx_bit + 1 # DataBits + 1
    BY <1>2, LineSizes
  <2>2. tx_state = "DATA"
    BY <1>2, <1>3, <2>1 DEF TxBits
  <2>3. tx_bit + 1 = rx_bit + 1
    BY <1>3, <2>2 DEF TxBits
  <2> QED BY <1>2, <2>2, <2>3, LineSizes
<1>5. OTx = flight[1][rx_bit + 1] /\ OTx \in Bit
  <2>1. OTx = tx_data[1] /\ tx_data[1] \in Bit
    BY <1>2, <1>4, LineSizes, SMTT(30) DEF OTx, Byte
  <2>2. 1 \in 1 .. DataBits - tx_bit
    BY <1>2, LineSizes
  <2>3. tx_data[1] = flight[1][tx_bit + 1]
    BY <1>4, <2>2 DEF LineInv, Sending
  <2> QED BY <1>4, <2>1, <2>3
<1>6. /\ rx_data' \in Byte
      /\ \A i \in 1 .. DataBits : rx_data'[i] = IF i < DataBits THEN rx_data[i + 1] ELSE OTx
  BY <1>1, <1>2, <1>5, ShiftBits
<1>7. rx_cycle' = 0
  <2>1. rx_cycle + 1 = Over
    BY <1>1, LineSizes
  <2> QED BY <1>1, <2>1, LineSizes
<1>8. /\ Taken' = rx_bit + 1 /\ TxBits' = TxBits /\ RxTicks' = Half
      /\ rx_state' \in {"DATA", "STOP"} /\ rx_bit' \in 0 .. DataBits - 1
  <2>1. TxBits' = TxBits
    BY <1>1 DEF TxBits
  <2>2. rx_state' \in {"DATA", "STOP"} /\ rx_bit' \in 0 .. DataBits - 1
    BY <1>1, <1>2, LineSizes
  <2>3. RxTicks' = Half + 0 /\ Half + 0 = Half
    BY <1>7, <2>2, LineSizes DEF RxTicks
  <2>4. CASE rx_bit = DataBits - 1
    BY <1>1, <2>1, <2>2, <2>3, <2>4, LineSizes DEF Taken
  <2>5. CASE rx_bit # DataBits - 1
    BY <1>1, <2>1, <2>2, <2>3, <2>5 DEF Taken
  <2> QED BY <2>4, <2>5
<1>9. EndsOK'
  BY <1>1, <1>2, <1>6, <1>7, <1>8, LineSizes DEF LineInv, EndsOK
<1>10. Aligned'
  BY <1>1, <1>2, <1>3, <1>4, <1>8, LineSizes DEF Aligned
<1>11. InFlight' /\ Sending'
  BY <1>1, <1>8 DEF LineInv, InFlight, Sending
<1>12. Receiving'
  <2>1. ASSUME NEW i \in 1 .. rx_bit + 1
        PROVE  rx_data'[DataBits - (rx_bit + 1) + i] = flight[1][i]
    <3> DEFINE j == DataBits - (rx_bit + 1) + i
    <3>1. j \in 1 .. DataBits /\ (j < DataBits <=> i \in 1 .. rx_bit)
          /\ j + 1 = DataBits - rx_bit + i /\ (~(j < DataBits) => i = rx_bit + 1)
      BY <1>2, LineSizes
    <3>2. rx_data'[j] = IF j < DataBits THEN rx_data[j + 1] ELSE OTx
      <4> HIDE DEF j
      <4> QED BY <1>6, <3>1
    <3>3. i \in 1 .. rx_bit => rx_data[DataBits - rx_bit + i] = flight[1][i]
      BY <1>3 DEF LineInv, Receiving
    <3> HIDE DEF j
    <3>4. rx_data'[j] = flight[1][i]
      BY <1>5, <3>1, <3>2, <3>3
    <3> QED BY <3>4 DEF j
  <2> QED BY <1>1, <1>8, <2>1 DEF Receiving
<1> QED BY <1>9, <1>10, <1>11, <1>12 DEF LineInv

\* Bytes are equal when their bits are.
LEMMA SameBits ==
    ASSUME NEW f \in Byte, NEW g \in Byte, \A i \in 1 .. DataBits : f[i] = g[i]
    PROVE  f = g
<1>1. f = [i \in 1 .. DataBits |-> f[i]] /\ g = [i \in 1 .. DataBits |-> g[i]]
  BY DEF Byte
<1>2. [i \in 1 .. DataBits |-> f[i]] = [i \in 1 .. DataBits |-> g[i]]
  OBVIOUS
<1> QED BY <1>1, <1>2

\* The byte is received in the middle of its stop bit.
LEMMA ReceivedKeeps ==
    ASSUME LineInv, Inv', RxTick, Received
    PROVE  /\ LineInv' /\ flight \in [1 .. 1 -> Byte] /\ flight' = <<>>
           /\ last' = flight[1]
<1>1. /\ rx_state = "STOP" /\ rx_cycle = Over - 1 /\ rx_state' = "IDLE" /\ rx_cycle' = 0
      /\ last' = rx_data /\ flight' = <<>> /\ skew' = 0
      /\ UNCHANGED <<rx_bit, rx_data, tx_state, tx_cycle, tx_bit, tx_data>>
  BY DEF RxTick, Received, transmitter
<1>2. tx_state = "STOP"
  <2>1. TxBits = DataBits + 1
    BY <1>1, BitTaken DEF Taken
  <2> QED BY <2>1, LineSizes, SMTT(30) DEF TxBits, LineInv, EndsOK
<1>3. EndsOK'
  BY <1>1, LineSizes DEF LineInv, EndsOK
<1>4. Aligned' /\ InFlight' /\ Sending' /\ Receiving'
  BY <1>1, <1>2 DEF Aligned, InFlight, Sending, Receiving, Taken
<1>5. flight \in [1 .. 1 -> Byte]
  BY <1>1 DEF LineInv, EndsOK, InFlight
<1>6. rx_data = flight[1]
  <2>1. rx_data \in Byte /\ flight[1] \in Byte
    BY <1>5 DEF LineInv, EndsOK
  <2>2. \A i \in 1 .. DataBits : rx_data[DataBits - DataBits + i] = flight[1][i]
    BY <1>1 DEF LineInv, Receiving, Taken
  <2>3. \A i \in 1 .. DataBits : DataBits - DataBits + i = i
    BY LineSizes
  <2>4. \A i \in 1 .. DataBits : rx_data[i] = flight[1][i]
    BY <2>2, <2>3
  <2> QED BY <2>1, <2>4, SameBits
<1> QED BY <1>1, <1>3, <1>4, <1>5, <1>6 DEF LineInv

-----------------------------------------------------------------------------
(* Every step of the line. *)

\* A step of the line is a step of the ring, or leaves it alone.
LEMMA LineMovesRing == [Next]_vars => [QueueNext]_queue
<1> SUFFICES ASSUME [Next]_vars PROVE [QueueNext]_queue
  OBVIOUS
<1>1. ASSUME NEW b \in Byte, Offer(b) PROVE QueueNext
  BY <1>1, LineSizes DEF Offer, QueueNext
<1>2. CASE TxTick
  <2>1. CASE TakeByte
    BY <2>1, LineSizes DEF TakeByte, QueueNext
  <2>2. CASE BitLasts \/ StartSent \/ BitSent \/ DataSent \/ StopSent
    BY <2>2 DEF BitLasts, StartSent, BitSent, DataSent, StopSent
  <2> QED BY <1>2, <2>1, <2>2 DEF TxTick
<1>3. CASE RxEdge \/ RxTick
  BY <1>3 DEF RxEdge, RxTick
<1>4. CASE UNCHANGED vars
  BY <1>4 DEF vars
<1> QED BY <1>1, <1>2, <1>3, <1>4 DEF Next

\* Both ends rest at first.
LEMMA LineStarts == Init => LineInv
<1> SUFFICES ASSUME Init PROVE LineInv
  OBVIOUS
<1>1. Inv
  BY InvStarts DEF Init
<1>2. Zero \in Byte
  BY DEF Zero, Byte, Bit
<1>3. EndsOK
  BY <1>2, LineSizes DEF Init, EndsOK
<1>4. Aligned /\ InFlight /\ Sending /\ Receiving
  BY DEF Init, Aligned, InFlight, Sending, Receiving, Taken
<1> QED BY <1>1, <1>3, <1>4 DEF LineInv

\* An offered byte does not disturb the frame.
LEMMA OfferKeeps ==
    ASSUME LineInv, Inv', UNCHANGED <<transmitter, receiver, skew, flight, last>>
    PROVE  LineInv'
<1>1. UNCHANGED <<tx_state, tx_cycle, tx_bit, tx_data, rx_state, rx_cycle, rx_bit, rx_data,
                  skew, flight, last>>
  BY DEF transmitter, receiver
<1> QED BY <1>1 DEF LineInv, EndsOK, Aligned, InFlight, Sending, Receiving, TxBits, RxTicks, Taken

\* Every step keeps the invariant.
LEMMA LineStep == LineInv /\ [Next]_vars => LineInv'
<1> SUFFICES ASSUME LineInv, [Next]_vars PROVE LineInv'
  OBVIOUS
<1>1. Inv'
  BY LineMovesRing, InvStep DEF LineInv
<1>2. CASE TxTick
  BY <1>1, <1>2, TakeByteKeeps, BitLastsKeeps, StartSentKeeps, BitSentKeeps, DataSentKeeps,
     StopSentKeeps DEF TxTick
<1>3. CASE RxEdge
  BY <1>1, <1>3, DetectKeeps
<1>4. CASE RxTick
  BY <1>1, <1>4, StartSeenKeeps, SampleLaterKeeps, SampleKeeps, ReceivedKeeps DEF RxTick
<1>5. ASSUME NEW b \in Byte, Offer(b) PROVE LineInv'
  BY <1>1, <1>5, OfferKeeps DEF Offer
<1>6. CASE UNCHANGED vars
  BY <1>1, <1>6, OfferKeeps DEF vars
<1> QED BY <1>2, <1>3, <1>4, <1>5, <1>6 DEF Next

\* The invariant holds always.
LEMMA LineAlways == Spec => []LineInv
BY LineStarts, LineStep, PTL DEF Spec

\* Every register of rtl/lib/transmitter.sv, rtl/lib/receiver.sv and the queue
\* keeps its type, and the clocks never drift apart by more than MaxSkew ticks.
THEOREM LineTypeCorrect == Spec => []TypeOK
<1>1. LineInv => TypeOK
  BY DEF LineInv, Inv, EndsOK, TypeOK
<1> QED BY <1>1, LineAlways, PTL

\* Every sample of rtl/lib/receiver.sv falls into its own bit: what it has is
\* the beginning of the byte in flight.
THEOREM SamplesAlwaysInOrder == Spec => []SamplesInOrder
<1>1. LineInv => SamplesInOrder
  <2> SUFFICES ASSUME LineInv, Taken > 0
               PROVE  /\ flight # <<>>
                      /\ SubSeq(rx_data, DataBits - Taken + 1, DataBits)
                           = SubSeq(flight[1], 1, Taken)
    BY DEF SamplesInOrder
  <2> DEFINE n == Taken
             f == flight[1]
             k == SubSeq(rx_data, DataBits - n + 1, DataBits)
             l == SubSeq(f, 1, n)
  <2>1. n \in 1 .. DataBits /\ rx_state # "IDLE"
    BY LineSizes, SMTT(30) DEF Taken, LineInv, EndsOK
  <2>2. flight # <<>> /\ f \in Byte /\ rx_data \in Byte
    BY <2>1 DEF LineInv, InFlight, EndsOK
  <2>3. \A i \in 1 .. n : rx_data[DataBits - n + i] = f[i]
    BY DEF LineInv, Receiving
  <2> HIDE DEF n, f
  <2>4. k \in Seq(Bit) /\ Len(k) = n /\ \A i \in 1 .. n : k[i] = rx_data[DataBits - n + i]
    <3> DEFINE m == DataBits - n
    <3>1. m \in 0 .. DataBits - 1 /\ m + n = DataBits /\ DataBits \in Nat /\ m + 1 \in Int
      BY <2>1, LineSizes
    <3> HIDE DEF m
    <3>2. \A i \in m + 1 .. DataBits : rx_data[i] \in Bit
      BY <2>2, <3>1 DEF Byte
    <3>3. /\ SubSeq(rx_data, m + 1, DataBits) \in Seq(Bit)
          /\ Len(SubSeq(rx_data, m + 1, DataBits))
               = IF m + 1 <= DataBits THEN DataBits - (m + 1) + 1 ELSE 0
          /\ \A i \in 1 .. DataBits - (m + 1) + 1 :
                SubSeq(rx_data, m + 1, DataBits)[i] = rx_data[(m + 1) + i - 1]
      BY <3>1, <3>2, SubSeqProperties
    <3>4. /\ (IF m + 1 <= DataBits THEN DataBits - (m + 1) + 1 ELSE 0) = n
          /\ DataBits - (m + 1) + 1 = n
          /\ \A i \in 1 .. n : (m + 1) + i - 1 = m + i
      BY <2>1, <3>1
    <3> QED BY <3>3, <3>4 DEF m
  <2>5. l \in Seq(Bit) /\ Len(l) = n /\ \A i \in 1 .. n : l[i] = f[i]
    <3>1. \A i \in 1 .. n : f[i] \in Bit
      BY <2>1, <2>2, LineSizes DEF Byte
    <3>2. /\ l \in Seq(Bit)
          /\ Len(l) = IF 1 <= n THEN n - 1 + 1 ELSE 0
          /\ \A i \in 1 .. n - 1 + 1 : l[i] = f[1 + i - 1]
      BY <2>1, <3>1, SubSeqProperties
    <3>3. /\ (IF 1 <= n THEN n - 1 + 1 ELSE 0) = n
          /\ n - 1 + 1 = n /\ \A i \in 1 .. n : 1 + i - 1 = i
      BY <2>1
    <3> QED BY <3>2, <3>3
  <2> HIDE DEF k, l
  <2>6. k = l
    BY <2>3, <2>4, <2>5, SeqEqual
  <2> QED BY <2>2, <2>6 DEF k, l, n, f
<1> QED BY <1>1, LineAlways, PTL

\* The queue in the line is a bounded queue: the transmitter takes a byte in a
\* clock that may also bring one.
THEOREM LineKeepsQueue == Spec => ImplementsQueue
<1>1. Init => QueueInit
  BY DEF Init
<1>2. Spec => QueueSpec
  BY <1>1, LineMovesRing, PTL DEF Spec, QueueSpec
<1> QED BY <1>2, RingIsQueue, PTL

-----------------------------------------------------------------------------
(* The line delivers its bytes: what DeliversBytes says of each step. *)

DeliversInOrder == Line!Init /\ [][Line!Next]_(Line!vars)

\* The bytes given to the line that have not arrived.
Transit == flight \o Contents

\* The queue's output is its first item.
LEMMA OutIsHead ==
    ASSUME Inv, ~OEmpty
    PROVE  Contents # <<>> /\ OData = Head(Contents)
<1>1. Contents \in Seq(Item) /\ Len(Contents) = r_num_data
  BY ContentsType
<1>2. Contents # <<>>
  BY FlagsExact
<1>3. r_num_data \in 1 .. Depth
  BY <1>1, <1>2, EmptySeq DEF Inv, QueueTypeOK
<1>4. OData = Contents[1] /\ Head(Contents) = Contents[1]
  BY <1>1, <1>2, <1>3, DepthAssumption DEF OData, Contents, Ahead, Inv, QueueTypeOK, Place
<1> QED BY <1>2, <1>4

\* The byte in flight, a function on 1 .. 1, is a sequence of one byte.
LEMMA OneIsSeq ==
    ASSUME NEW f \in [1 .. 1 -> Byte]
    PROVE  f \in Seq(Byte) /\ Len(f) = 1
<1>1. f \in [1 .. 1 -> Item] /\ 1 \in Nat
  BY LineSizes
<1>2. f \in Seq(Item) /\ Len(f) = 1
  <2> HIDE DEF Byte
  <2> QED BY <1>1, FunctionIsSeq
<1> QED BY <1>2, LineSizes

\* Bytes in the queue and in flight.
LEMMA TransitTypes ==
    ASSUME LineInv
    PROVE  Contents \in Seq(Byte) /\ flight \in Seq(Byte)
<1>1. Contents \in Seq(Byte)
  BY ContentsType, LineSizes DEF LineInv
<1>2. CASE flight = <<>>
  BY <1>1, <1>2
<1>3. CASE flight \in [1 .. 1 -> Byte]
  BY <1>1, <1>3, OneIsSeq
<1> QED BY <1>1, <1>2, <1>3 DEF LineInv, EndsOK

\* A byte at the end of a sequence stays there behind another sequence.
LEMMA AppendBehind ==
    ASSUME NEW s \in Seq(Byte), NEW t \in Seq(Byte), NEW b \in Byte
    PROVE  s \o Append(t, b) = Append(s \o t, b)
<1>1. s \o t \in Seq(Byte) /\ <<b>> \in Seq(Byte)
  <2> HIDE DEF Byte
  <2> QED BY ConcatProperties
<1>2. Append(t, b) = t \o <<b>> /\ Append(s \o t, b) = (s \o t) \o <<b>>
  BY <1>1, AppendIsConcat
<1> QED BY <1>1, <1>2, ConcatAssociative

\* The first byte in front of the others.
LEMMA HeadInFront ==
    ASSUME NEW s \in Seq(Byte), s # <<>>
    PROVE  Head(s) \in Byte /\ Tail(s) \in Seq(Byte) /\ <<Head(s)>> \o Tail(s) = s
<1>1. Head(s) \in Byte /\ Tail(s) \in Seq(Byte)
  BY HeadTailProperties
<1>2. s = <<Head(s)>> \o Tail(s)
  <2> HIDE DEF Byte
  <2> QED OBVIOUS
<1> QED BY <1>1, <1>2

\* A byte that is taken goes from the queue into flight.
LEMMA TakeByteServes ==
    ASSUME LineInv, Inv', TxTick, TakeByte
    PROVE  UNCHANGED <<Transit, last>> \/ \E b \in Byte : Line!Give(b)
<1>1. flight = <<>> /\ flight' = <<OData>> /\ OData \in Byte /\ UNCHANGED last
  BY TakeByteKeeps DEF TxTick
<1>2. Contents \in Seq(Byte) /\ Contents # <<>> /\ OData = Head(Contents)
  BY TransitTypes, OutIsHead DEF LineInv, TakeByte
<1>3. Tail(Contents) \in Seq(Byte) /\ <<Head(Contents)>> \o Tail(Contents) = Contents
  BY <1>2, HeadInFront
<1>4. Transit = Contents
  BY <1>1, <1>2, ConcatProperties DEF Transit
<1>5. CASE Deq
  <2>1. Contents' = Tail(Contents)
    BY <1>5, DeqTakesHead DEF LineInv
  <2>2. Transit' = <<Head(Contents)>> \o Tail(Contents)
    BY <1>1, <1>2, <2>1 DEF Transit
  <2> QED BY <1>1, <1>3, <1>4, <2>2
<1>6. ASSUME NEW b \in Byte, EnqDeq(b) PROVE Line!Give(b)
  <2>1. Contents' = Append(Tail(Contents), b)
    BY <1>6, EnqDeqShifts, LineSizes DEF LineInv
  <2>2. Transit' = <<Head(Contents)>> \o Append(Tail(Contents), b)
    BY <1>1, <1>2, <2>1 DEF Transit
  <2> DEFINE h == Head(Contents)
  <2>3. <<h>> \in Seq(Byte)
    <3>1. h \in Byte
      BY <1>1, <1>2
    <3> HIDE DEF h, Byte
    <3> QED BY <3>1
  <2> HIDE DEF h
  <2>4. <<h>> \o Append(Tail(Contents), b) = Append(<<h>> \o Tail(Contents), b)
    BY <1>3, <2>3, AppendBehind
  <2>5. Transit' = Append(Transit, b)
    BY <1>3, <1>4, <2>2, <2>4 DEF h
  <2> QED BY <1>1, <2>5 DEF Line!Give, Transit
<1> QED BY <1>5, <1>6 DEF TakeByte

\* A byte that is offered is given to the line.
LEMMA OfferServes ==
    ASSUME LineInv, Inv', NEW b \in Byte, Offer(b)
    PROVE  Line!Give(b)
<1>1. Contents' = Append(Contents, b) /\ UNCHANGED <<flight, last>>
  BY EnqAppends, LineSizes DEF LineInv, Offer
<1>2. flight \o Append(Contents, b) = Append(flight \o Contents, b)
  BY TransitTypes, AppendBehind
<1> QED BY <1>1, <1>2 DEF Line!Give

\* The byte received is the first in transit.
LEMMA ReceivedServes ==
    ASSUME LineInv, Inv', RxTick, Received
    PROVE  Line!Arrive
<1>1. flight \in [1 .. 1 -> Byte] /\ flight' = <<>> /\ last' = flight[1]
  BY ReceivedKeeps
<1>2. Contents' = Contents
  BY DEF RxTick, queue, Contents, Ahead
<1>3. Contents \in Seq(Byte)
  BY TransitTypes
<1> DEFINE y == flight[1]
           c == Contents
<1>4. flight = <<y>> /\ y \in Byte
  <2>1. flight \in Seq(Byte) /\ Len(flight) = 1
    BY <1>1, OneIsSeq
  <2> HIDE DEF Byte
  <2> QED BY <2>1
<1>5. c \in Seq(Byte)
  BY <1>3
<1> HIDE DEF y, c
<1>6. <<y>> \o c # <<>> /\ Head(<<y>> \o c) = y /\ Tail(<<y>> \o c) = c
  <2> HIDE DEF Byte
  <2>1. <<y>> \in Seq(Byte) /\ Len(<<y>>) = 1 /\ <<y>> # <<>>
        /\ Head(<<y>>) = y /\ Tail(<<y>>) = <<>>
    BY <1>4
  <2> QED BY <1>5, <2>1
<1>7. <<>> \o c = c
  BY <1>5, ConcatProperties
<1>8. Transit = <<y>> \o c /\ Transit' = c
  BY <1>1, <1>2, <1>4, <1>7 DEF Transit, c
<1> QED BY <1>1, <1>6, <1>8 DEF Line!Arrive, Transit, y

\* The other steps move nothing.
LEMMA StepServes ==
    ASSUME LineInv, Inv', [Next]_vars
    PROVE  [Line!Next]_(Line!vars)
<1>1. ASSUME UNCHANGED <<queue, flight, last>> PROVE UNCHANGED Line!vars
  <2>1. Contents' = Contents
    BY <1>1 DEF queue, Contents, Ahead
  <2> QED BY <1>1, <2>1 DEF Line!vars
<1>2. CASE TxTick
  <2>1. CASE TakeByte
    BY <1>2, <2>1, TakeByteServes DEF Line!Next, Line!vars, Transit
  <2>2. CASE BitLasts \/ StartSent \/ BitSent \/ DataSent \/ StopSent
    BY <1>1, <1>2, <2>2 DEF TxTick, BitLasts, StartSent, BitSent, DataSent, StopSent
  <2> QED BY <1>2, <2>1, <2>2 DEF TxTick
<1>3. CASE RxEdge
  BY <1>1, <1>3 DEF RxEdge, Detect
<1>4. CASE RxTick
  <2>1. CASE Received
    BY <1>4, <2>1, ReceivedServes DEF Line!Next
  <2>2. CASE StartSeen \/ SampleLater \/ Sample
    BY <1>1, <1>4, <2>2 DEF RxTick, StartSeen, SampleLater, Sample
  <2> QED BY <1>4, <2>1, <2>2 DEF RxTick
<1>5. ASSUME NEW b \in Byte, Offer(b) PROVE Line!Next
  BY <1>5, OfferServes DEF Line!Next
<1>6. CASE UNCHANGED vars
  BY <1>1, <1>6 DEF vars
<1> QED BY <1>2, <1>3, <1>4, <1>5, <1>6 DEF Next

\* Every byte given to the line arrives at most once, whole and in order,
\* whatever the clocks of the two ends do within a frame.
THEOREM LineDeliversInOrder == Spec => DeliversInOrder
<1>1. Init => Line!Init
  <2> SUFFICES ASSUME Init PROVE Line!Init
    OBVIOUS
  <2>1. Contents = <<>>
    BY InvStarts, ContentsType, EmptySeq DEF Init, QueueInit
  <2>2. flight = <<>> /\ last \in Byte
    BY LineStarts DEF Init, LineInv, EndsOK
  <2> QED BY <2>1, <2>2 DEF Line!Init
<1>2. LineInv /\ Inv' /\ [Next]_vars => [Line!Next]_(Line!vars)
  BY StepServes
<1>3. LineInv => Inv
  BY DEF LineInv
<1> QED BY <1>1, <1>2, <1>3, LineAlways, PTL DEF Spec, DeliversInOrder

=============================================================================
