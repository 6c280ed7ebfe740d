--------------------------- MODULE MCRegisterLink ---------------------------
(* Instance for TLC: every byte is also a command, so that lost framing shows. *)
EXTENDS RegisterLink

MCResetWord == <<7, 6, 1>>
MCValue == {<<0, 4, 1>>, <<5, 1, 6>>}
=============================================================================
