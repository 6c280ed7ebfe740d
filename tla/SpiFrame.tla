------------------------------ MODULE SpiFrame ------------------------------
(***************************************************************************)
(* What the SPI master promises its user: a word given with start is, when *)
(* the frame is done, the word the slave holds.  The word that the slave   *)
(* sends meanwhile is left out: the core connects it to nothing.           *)
(***************************************************************************)
CONSTANT Word

VARIABLES
    busy,      \* a frame is being shifted
    word,      \* the word given at the last start
    slave      \* the word the slave holds, between frames

vars == <<busy, word, slave>>

Init ==
    /\ busy = FALSE
    /\ word \in Word
    /\ slave \in Word

Start ==
    /\ ~busy
    /\ busy' = TRUE
    /\ word' \in Word
    /\ UNCHANGED slave

Done ==
    /\ busy
    /\ busy' = FALSE
    /\ slave' = word
    /\ UNCHANGED word

Next == Start \/ Done

Spec == Init /\ [][Next]_vars /\ WF_vars(Done)

=============================================================================
