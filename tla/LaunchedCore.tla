---------------------------- MODULE LaunchedCore ----------------------------
(***************************************************************************)
(* The launcher wired to the core of one channel, as processor.sv wires    *)
(* them: the core's o_armed register is the launcher's armed line, and the *)
(* launcher's registered start line is the core's i_start.  The trigger     *)
(* input rests.                                                            *)
(***************************************************************************)
EXTENDS DcCore, Launch

CONSTANTS
    Self,      \* the channel
    HostGap    \* clocks between two pulses of the host, at least

ASSUME SelfAssumption == Channel = {Self}
ASSUME GapAssumption == HostGap \in Nat \ {0}

VARIABLES
    trigger,     \* the trigger input
    quiet,       \* clocks since the last pulse of the host, up to HostGap
    programmed,  \* launches asked for with the last control word
    launched     \* launches decided since

wired == <<vars, launcher, trigger, quiet, programmed, launched>>

WiredInit ==
    /\ Init /\ LaunchInit
    /\ trigger = FALSE
    /\ quiet = HostGap
    /\ programmed = 0 /\ launched = 0

ArmedLines == IF armed THEN {Self} ELSE {}

\* The core in the same clock; its start line is the launcher's register.
Core ==
    /\ \E done \in BOOLEAN : Clock(done)
    /\ start' = (Self \in dc_start')
    /\ UNCHANGED trigger

ClockEdge ==
    /\ Tick(ArmedLines, trigger)
    /\ quiet' = IF quiet < HostGap THEN quiet + 1 ELSE quiet
    /\ launched' = IF AllReady(trigger) THEN launched + 1 ELSE launched
    /\ UNCHANGED programmed
    /\ Core

HostLaunch ==
    /\ quiet = HostGap /\ quiet' = 0
    /\ \E mask \in SUBSET Channel, trig \in BOOLEAN, n \in 0 .. MaxIters :
          NewCtrl(ArmedLines, trigger, mask, trig, n) /\ programmed' = n
    /\ launched' = 0
    /\ Core

HostClear ==
    /\ quiet = HostGap /\ quiet' = 0
    /\ Clear(ArmedLines, trigger)
    /\ programmed' = 0 /\ launched' = 0
    /\ Core

WiredNext == ClockEdge \/ HostLaunch \/ HostClear

WiredSpec == WiredInit /\ [][WiredNext]_wired

-----------------------------------------------------------------------------

\* The channel waits with an armed SPI step, shifted and ready.
Waits == sbuf.valid /\ sbuf.arm /\ sbuf.done

View == INSTANCE LaunchedChannels WITH
    waiting <- IF Waits THEN {Self} ELSE {},
    armed <- ArmedLines

\* With programs that arm SPI steps only, the core is the channel that the
\* launcher's properties assume: o_armed follows an armed step by one clock,
\* and the step leaves only with a start pulse.
CoreIsChannel == View!Init /\ [][View!Next]_(View!vars)

\* A channel that reports itself armed executes its armed step on the start
\* pulse, as dc_tb.sv:304-311 waits for w_armed, pulses w_start for one clock
\* and then expects the first step.
ArmedStartExecutes == [][start => S2H]_wired
=============================================================================
