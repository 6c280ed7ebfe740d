------------------------------ MODULE ByteLine ------------------------------
(***************************************************************************)
(* What a serial line promises: the bytes given to it arrive, each once    *)
(* and in order.                                                           *)
(***************************************************************************)
EXTENDS Sequences

CONSTANT Byte

VARIABLES
    transit,   \* bytes given and not arrived
    last       \* the byte that arrived last

vars == <<transit, last>>

Init == transit = <<>> /\ last \in Byte

Give(b) == transit' = Append(transit, b) /\ UNCHANGED last

Arrive ==
    /\ transit # <<>>
    /\ last' = Head(transit)
    /\ transit' = Tail(transit)

Next == (\E b \in Byte : Give(b)) \/ Arrive

Spec == Init /\ [][Next]_vars /\ WF_vars(Arrive)

=============================================================================
