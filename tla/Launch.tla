------------------------------- MODULE Launch -------------------------------
(***************************************************************************)
(* The launcher, rtl/src/launch.sv: it gives the channels of its mask a    *)
(* common start pulse once exactly they are armed, as many times as the    *)
(* host asked for.  A bus of one bit per channel is the set of channels    *)
(* whose bit is 1.  One step of the module is one clock edge.              *)
(***************************************************************************)
EXTENDS Naturals

CONSTANTS
    Channel,    \* the channels
    MaxIters    \* largest launch count the host writes

ASSUME MaxItersAssumption == MaxIters \in Nat

VARIABLES
    dc_active_mask,  \* channels to launch together
    use_trigger,     \* wait for the trigger input as well
    iters,           \* launches left
    dc_armed,        \* the channels' armed lines, registered
    state,           \* IDLE, ARM, LAUNCH, DELAY1, DELAY2
    dc_start         \* the registered start lines

launcher == <<dc_active_mask, use_trigger, iters, dc_armed, state, dc_start>>

LaunchTypeOK ==
    /\ dc_active_mask \subseteq Channel
    /\ use_trigger \in BOOLEAN
    /\ iters \in 0 .. MaxIters
    /\ dc_armed \subseteq Channel
    /\ state \in {"IDLE", "ARM", "LAUNCH", "DELAY1", "DELAY2"}
    /\ dc_start \subseteq Channel

LaunchInit ==
    /\ dc_active_mask = {} /\ use_trigger = FALSE /\ iters = 0
    /\ dc_armed = {}
    /\ state = "IDLE"
    /\ dc_start = {}

DcReadyAnd == dc_active_mask \intersect dc_armed = {}   \* fault: and for xor
DcReady == dc_active_mask = dc_armed

AllReady(trigger) == state = "ARM" /\ DcReady /\ (use_trigger => trigger)

\* Fault: no delay for the armed lines to follow.
NextStateUndelayed(trigger) ==
    CASE state = "IDLE" -> IF iters > 0 THEN "ARM" ELSE "IDLE"
      [] state = "ARM"  -> IF AllReady(trigger) THEN "LAUNCH" ELSE "ARM"
      [] OTHER          -> "IDLE"

NextState(trigger) ==
    CASE state = "IDLE"   -> IF iters > 0 THEN "ARM" ELSE "IDLE"
      [] state = "ARM"    -> IF AllReady(trigger) THEN "LAUNCH" ELSE "ARM"
      [] state = "LAUNCH" -> "DELAY1"
      [] state = "DELAY1" -> "DELAY2"
      [] state = "DELAY2" -> "IDLE"

\* Registers that no host pulse touches: the start lines and the armed lines.
Lines(armed, trigger) ==
    /\ dc_start' = IF AllReady(trigger) THEN dc_active_mask ELSE {}
    /\ dc_armed' = armed

LaunchesLeftUnbounded(trigger) ==         \* fault: counts below zero
    IF AllReady(trigger) THEN iters - 1 ELSE iters

LaunchesLeftWaiting(trigger) ==           \* fault: waiting for the trigger counts
    IF state = "ARM" /\ DcReady /\ iters > 0 THEN iters - 1 ELSE iters

LaunchesLeft(trigger) ==
    IF AllReady(trigger) /\ iters > 0 THEN iters - 1 ELSE iters

Tick(armed, trigger) ==
    /\ iters' = LaunchesLeft(trigger)
    /\ state' = NextState(trigger)
    /\ Lines(armed, trigger)
    /\ UNCHANGED <<dc_active_mask, use_trigger>>

\* The host's new control word; it does not disturb the state machine.
NewCtrl(armed, trigger, mask, trig, n) ==
    /\ dc_active_mask' = mask /\ use_trigger' = trig /\ iters' = n
    /\ state' = NextState(trigger)
    /\ Lines(armed, trigger)

\* The host's clear; a start pulse decided in the same clock still goes out.
Clear(armed, trigger) ==
    /\ dc_active_mask' = {} /\ use_trigger' = FALSE /\ iters' = 0
    /\ state' = "IDLE"
    /\ Lines(armed, trigger)
=============================================================================
