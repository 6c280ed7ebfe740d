--------------------------- MODULE MCLaunchedCore ---------------------------
EXTENDS LaunchedCore

StepWord(hold, strb, arm, idle) ==
    [iters |-> 0, spi_din |-> 1, delta |-> 1, strb_ldac |-> strb, hold_cycles |-> hold,
     modify |-> FALSE, arm |-> arm, sticky_arm |-> FALSE, idle |-> idle]

\* An armed strobed step, one that is not armed, and an idle.
MCProgram == {StepWord(0, TRUE, TRUE, FALSE), StepWord(3, FALSE, FALSE, FALSE),
              StepWord(1, FALSE, FALSE, TRUE)}

MCCtrl == {[delay |-> 0, cs_up |-> 1, ldac |-> 0]}
=============================================================================
