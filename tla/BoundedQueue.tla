---------------------------- MODULE BoundedQueue ----------------------------
(***************************************************************************)
(* What a byte queue promises its two users: items come out in the order   *)
(* they went in, none is lost while there is room, and one that is offered *)
(* to a full queue is dropped, even in a clock that also takes one out.    *)
(* This is the reference queue of rtl/tb/fifo_tb.sv.                       *)
(***************************************************************************)
EXTENDS Naturals, Sequences

CONSTANTS
    Depth,   \* places
    Item     \* what the places hold

VARIABLE items

Init == items = <<>>

\* The queue s after a clock edge.
After(s, offered, x, taken) ==
    LET rest == IF taken /\ s # <<>> THEN Tail(s) ELSE s
    IN  IF offered /\ Len(s) < Depth THEN Append(rest, x) ELSE rest

Clock == \E offered, taken \in BOOLEAN, x \in Item : items' = After(items, offered, x, taken)

Spec == Init /\ [][Clock]_items

=============================================================================
