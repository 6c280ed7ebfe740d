-------------------------- MODULE LaunchedChannels --------------------------
(***************************************************************************)
(* The launcher with its channels and its host.  A channel is what the     *)
(* launcher sees of dc_core.sv: it waits with an armed step in its SPI     *)
(* buffer until a start pulse takes the step, it needs some clocks to load *)
(* the next, and o_armed is a register that follows the wait by a clock.   *)
(* A start pulse that comes while the step before is held is lost.         *)
(* The host writes one register at a time over the UART, so its pulses are *)
(* at least HostGap clocks apart.                                          *)
(***************************************************************************)
EXTENDS Launch

CONSTANT HostGap   \* clocks between two pulses of the host, at least

ASSUME HostGapAssumption == HostGap \in Nat \ {0}

VARIABLES
    waiting,     \* channels with an armed step ready
    armed,       \* their o_armed registers
    trigger,     \* the synchronised trigger input
    quiet,       \* clocks since the last pulse of the host, up to HostGap
    programmed,  \* launches asked for with the last control word
    launched     \* launches decided since

vars == <<launcher, waiting, armed, trigger, quiet, programmed, launched>>

Init ==
    /\ LaunchInit
    /\ waiting = {} /\ armed = {}
    /\ trigger \in BOOLEAN
    /\ quiet = HostGap
    /\ programmed = 0 /\ launched = 0

\* A start pulse takes the armed step or is lost; other channels get ready.
Channels(started, loaded) ==
    /\ waiting' = (waiting \ started) \union loaded
    /\ armed' = waiting

Surroundings ==
    /\ \E started \in SUBSET dc_start, loaded \in SUBSET (Channel \ waiting) :
          Channels(started, loaded)
    /\ trigger' \in BOOLEAN

Clock ==
    /\ Tick(armed, trigger) /\ Surroundings
    /\ quiet' = IF quiet < HostGap THEN quiet + 1 ELSE quiet
    /\ launched' = IF AllReady(trigger) THEN launched + 1 ELSE launched
    /\ UNCHANGED programmed

HostLaunch ==
    /\ quiet = HostGap /\ quiet' = 0
    /\ \E mask \in SUBSET Channel, trig \in BOOLEAN, n \in 0 .. MaxIters :
          NewCtrl(armed, trigger, mask, trig, n) /\ programmed' = n
    /\ Surroundings
    /\ launched' = 0

HostClear ==
    /\ quiet = HostGap /\ quiet' = 0
    /\ Clear(armed, trigger) /\ Surroundings
    /\ programmed' = 0 /\ launched' = 0

Next == Clock \/ HostLaunch \/ HostClear

\* The clock runs on, and a channel in use loads its next armed step.
Loads(c) == c \notin waiting /\ Clock /\ c \in waiting'

Spec == Init /\ [][Next]_vars /\ WF_vars(Clock) /\ \A c \in Channel : WF_vars(Loads(c))

-----------------------------------------------------------------------------

\* Every register of the launcher and its surroundings holds its type.
TypeOK ==
    /\ LaunchTypeOK
    /\ waiting \subseteq Channel /\ armed \subseteq Channel
    /\ trigger \in BOOLEAN
    /\ quiet \in 0 .. HostGap
    /\ programmed \in 0 .. MaxIters /\ launched \in 0 .. MaxIters + 1

\* A start pulse finds an armed step in every channel it goes to: launch.sv
\* never acts on an armed line that is left over from the launch before.
StartFindsStep == dc_start \subseteq waiting

\* The launches decided and the launches left add up to those asked for.
LaunchesAddUp == programmed > 0 => launched + iters = programmed

\* With every channel in the mask and no trigger, every launch asked for
\* happens once the host leaves the launcher alone.
HostPulse == quiet' = 0
LaunchesComplete ==
    <>[][~HostPulse]_vars /\ <>[](dc_active_mask = Channel /\ ~use_trigger) =>
        <>[](iters = 0)

-----------------------------------------------------------------------------
(* Inductive invariant. *)

\* A start pulse leaves stale armed lines behind for two clocks; the states
\* after ARM, or a clear and the pace of the host, keep ARM away for longer.
Settling == dc_start = {} /\ armed \subseteq waiting
Settled == Settling /\ dc_armed \subseteq waiting

SettleInv ==
    /\ StartFindsStep
    /\ state = "ARM" => Settled
    /\ state = "DELAY1" => dc_start = {}
    /\ state = "DELAY2" => Settling
    /\ state = "IDLE" => Settling \/ (iters = 0 /\ (dc_start = {} \/ quiet = 0))

\* A control word that asks for no launch may find the launcher in ARM, and
\* then launches once.
CountInv ==
    /\ programmed > 0 => launched + iters = programmed /\ (state = "ARM" => iters > 0)
    /\ programmed = 0 => iters = 0 /\ launched <= 1 /\ (state = "ARM" => launched = 0)

LaunchInv == TypeOK /\ SettleInv /\ CountInv
=============================================================================
