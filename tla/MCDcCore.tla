------------------------------ MODULE MCDcCore ------------------------------
EXTENDS DcCoreObserved

Word(iters, hold, strb, arm, idle) ==
    [iters |-> iters, spi_din |-> 1, delta |-> 1, strb_ldac |-> strb, hold_cycles |-> hold,
     modify |-> FALSE, arm |-> arm, sticky_arm |-> FALSE, idle |-> idle]

\* A strobed ramp of two steps, an armed SPI word without hold, two idles.
MCProgram == {Word(1, 2, TRUE, FALSE, FALSE), Word(0, 0, FALSE, TRUE, FALSE),
              Word(1, 1, FALSE, FALSE, TRUE), Word(0, 2, FALSE, TRUE, TRUE)}

MCCtrl == {[delay |-> 1, cs_up |-> 2, ldac |-> 1]}
=============================================================================
