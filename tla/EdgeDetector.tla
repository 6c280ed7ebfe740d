---------------------------- MODULE EdgeDetector ----------------------------
(***************************************************************************)
(* The edge detectors of rtl/lib/edge_detector.sv on one strobe register,  *)
(* one for each bit.  A register of bits is the set of its high bits: ff1  *)
(* and ff2 are the level one and two clocks ago, pulse is o_posedge.       *)
(***************************************************************************)

Detectors(bits) == [ff1 : SUBSET bits, ff2 : SUBSET bits, pulse : SUBSET bits]

DetectorInit == [ff1 |-> {}, ff2 |-> {}, pulse |-> {}]

\* Fault: the falling edges are reported.
SenseFalling(d, level) == [ff1 |-> level, ff2 |-> d.ff1, pulse |-> d.ff2 \ d.ff1]

\* Fault: the level itself is reported.
SenseLevel(d, level) == [ff1 |-> level, ff2 |-> d.ff1, pulse |-> d.ff1]

\* The detectors d after a rising edge of i_clk.
Sense(d, level) == [ff1 |-> level, ff2 |-> d.ff1, pulse |-> d.ff1 \ d.ff2]

=============================================================================
