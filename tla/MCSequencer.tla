----------------------------- MODULE MCSequencer -----------------------------
EXTENDS SequencerObserved

\* A word is its version; taking it writes the next version back.
MCInsn == 0 .. 1
MCModify == [w \in MCInsn |-> (w + 1) % 2]
=============================================================================
