----------------------------- MODULE ByteQueue ------------------------------
(***************************************************************************)
(* The queue between the UART line and the register file,                  *)
(* rtl/lib/fifo.sv: a ring of DEPTH places with two pointers and a count.  *)
(* The depth need not be a power of two, so the pointers wrap by           *)
(* comparison.  Nothing resets the places: they hold anything at first.    *)
(***************************************************************************)
EXTENDS Naturals, Sequences

CONSTANTS
    Depth,   \* places, 8 on the board
    Item     \* bytes

ASSUME DepthAssumption == Depth \in Nat \ {0, 1}

VARIABLES
    r_enq_ptr,    \* place of the next item in
    r_deq_ptr,    \* place of the next item out
    r_num_data,   \* items held
    r_data        \* the places

queue == <<r_enq_ptr, r_deq_ptr, r_num_data, r_data>>

Place == 0 .. Depth - 1

QueueInit ==
    /\ r_enq_ptr = 0 /\ r_deq_ptr = 0 /\ r_num_data = 0
    /\ r_data \in [Place -> Item]

OFull  == r_enq_ptr = r_deq_ptr /\ r_num_data = Depth
OEmpty == r_enq_ptr = r_deq_ptr /\ r_num_data = 0
OData  == r_data[r_deq_ptr]

Wrap(ptr) == IF ptr = Depth - 1 THEN 0 ELSE ptr + 1

\* Fault: a full queue accepts an item in the clock that takes one out.
EnqDeqFull(x) ==
    /\ ~OEmpty
    /\ r_enq_ptr' = Wrap(r_enq_ptr) /\ r_deq_ptr' = Wrap(r_deq_ptr)
    /\ r_data' = [r_data EXCEPT ![r_enq_ptr] = x]
    /\ UNCHANGED r_num_data

\* i_enq and i_deq in one clock.
EnqDeq(x) ==
    /\ ~OFull /\ ~OEmpty
    /\ r_enq_ptr' = Wrap(r_enq_ptr) /\ r_deq_ptr' = Wrap(r_deq_ptr)
    /\ r_data' = [r_data EXCEPT ![r_enq_ptr] = x]
    /\ UNCHANGED r_num_data

Enq(x) ==
    /\ ~OFull
    /\ r_enq_ptr' = Wrap(r_enq_ptr)
    /\ r_num_data' = r_num_data + 1
    /\ r_data' = [r_data EXCEPT ![r_enq_ptr] = x]
    /\ UNCHANGED r_deq_ptr

Deq ==
    /\ ~OEmpty
    /\ r_deq_ptr' = Wrap(r_deq_ptr)
    /\ r_num_data' = r_num_data - 1
    /\ UNCHANGED <<r_enq_ptr, r_data>>

QueueNext ==
    \/ \E x \in Item : EnqDeq(x) \/ Enq(x)
    \/ Deq

QueueSpec == QueueInit /\ [][QueueNext]_queue

-----------------------------------------------------------------------------

\* The place n places after ptr.
Ahead(ptr, n) == IF ptr + n < Depth THEN ptr + n ELSE ptr + n - Depth

\* The items held, oldest first.
Contents == [n \in 1 .. r_num_data |-> r_data[Ahead(r_deq_ptr, n - 1)]]

\* Every register of the queue holds a value of its type.
QueueTypeOK ==
    /\ r_enq_ptr \in Place /\ r_deq_ptr \in Place
    /\ r_num_data \in 0 .. Depth
    /\ r_data \in [Place -> Item]

\* The three counters agree: the count is the distance of the pointers.  The
\* flags compare pointers as well as the count, and a queue whose counters
\* drifted apart would never report itself full or empty again.
PointersAgree == r_enq_ptr = Ahead(r_deq_ptr, r_num_data)

\* The ring is a queue (the comparisons of rtl/tb/fifo_tb.sv): order is kept,
\* nothing is overwritten, and only an item offered to a full queue is lost.
Queue == INSTANCE BoundedQueue WITH items <- Contents
ImplementsQueue == Queue!Spec
=============================================================================
