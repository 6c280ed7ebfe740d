-------------------------- MODULE StatusRegisters ---------------------------
(***************************************************************************)
(* The empty register as the host reads it: the lines of the channels,     *)
(* their order in the register word (rtl/src/processor.sv) and the         *)
(* register in front of the UART (rtl/src/uart_regs.sv).  A word is the    *)
(* set of its high bits.                                                   *)
(***************************************************************************)
EXTENDS Naturals

CONSTANT NumDcChannel   \* channels, 24

Channels == 0 .. NumDcChannel - 1

VARIABLES
    empty,       \* o_empty of each channel
    empty_reg,   \* the status register
    was_empty    \* the lines one clock ago, for the property

vars == <<empty, empty_reg, was_empty>>

\* o_dc_empty_bus is declared [0:NUM_DC_CHANNEL-1]: its element 0 is the
\* leftmost, which is the highest bit of the word.  (The bus of armed lines is
\* declared the other way round.)
EmptyWord == {NumDcChannel - 1 - c : c \in empty}

Init == empty = Channels /\ empty_reg = {} /\ was_empty = {}

Clock ==
    /\ empty' \in SUBSET Channels
    /\ empty_reg' = EmptyWord
    /\ was_empty' = empty

Spec == Init /\ [][Clock]_vars

\* Bit n of the register is o_empty of channel n ("RO_EMPTY_REG   = 3   #
\* bit[n] = channel n empty", asm/squish.py:81).
EmptyBitIsChannel == empty_reg = was_empty
=============================================================================
