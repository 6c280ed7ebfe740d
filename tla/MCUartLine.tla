----------------------------- MODULE MCUartLine -----------------------------
(* Instance for TLC. *)
EXTENDS UartLine

MCItem == [1 .. DataBits -> {0, 1}]
=============================================================================
