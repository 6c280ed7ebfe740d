---------------------------- MODULE LaunchProofs ----------------------------
(***************************************************************************)
(* The launcher's safety for any set of channels, any number of launches   *)
(* and any pace of the host of one clock or more between its pulses.       *)
(***************************************************************************)
EXTENDS LaunchedChannels, TLAPS

\* Every launcher starts in a state of the invariant.
LEMMA LaunchInit_Inv == Init => LaunchInv
<1>. SUFFICES ASSUME Init
              PROVE  LaunchInv
  OBVIOUS
<1>1. LaunchTypeOK
  <2>1. 0 \in 0 .. MaxIters
    BY MaxItersAssumption
  <2>. QED
    BY <2>1, Zenon DEF Init, LaunchInit, LaunchTypeOK
<1>2. TypeOK
  BY <1>1, MaxItersAssumption, HostGapAssumption DEF Init, TypeOK
<1>3. SettleInv
  BY DEF Init, LaunchInit, SettleInv, StartFindsStep, Settling, Settled
<1>4. CountInv
  BY DEF Init, LaunchInit, CountInv
<1>. QED
  BY <1>2, <1>3, <1>4 DEF LaunchInv

\* What a clock edge does to the channels: a wait ends only with a start
\* pulse, and the armed lines follow the waits by a clock.
LEMMA ChannelsFollow ==
    ASSUME TypeOK, Surroundings
    PROVE  /\ waiting' \subseteq Channel /\ armed' = waiting
           /\ waiting \ dc_start \subseteq waiting'
           /\ trigger' \in BOOLEAN
BY DEF TypeOK, LaunchTypeOK, Surroundings, Channels

\* The state machine moves among its five states.
LEMMA NextStateType ==
    ASSUME TypeOK
    PROVE  NextState(trigger) \in {"IDLE", "ARM", "LAUNCH", "DELAY1", "DELAY2"}
BY DEF TypeOK, LaunchTypeOK, NextState

\* The lines settle whatever the host does, as long as the state machine moves
\* on and its pulse falls outside the two clocks that follow a clear.
LEMMA SettleStep ==
    ASSUME LaunchInv, Surroundings, Lines(armed, trigger), state' = NextState(trigger),
           state = "IDLE" /\ quiet = 0 => iters' = iters
    PROVE  SettleInv'
<1>. USE DEF LaunchInv, SettleInv
<1>1. /\ armed' = waiting /\ waiting \ dc_start \subseteq waiting'
      /\ dc_armed' = armed
      /\ dc_start' = IF AllReady(trigger) THEN dc_active_mask ELSE {}
  BY ChannelsFollow DEF Lines
<1>2. CASE state = "IDLE"
  <2>1. dc_start' = {}
    BY <1>1, <1>2 DEF AllReady
  <2>2. Settling => Settled'
    BY <1>1, <2>1 DEF Settling, Settled
  <2>3. dc_start = {} => Settling'
    BY <1>1, <2>1 DEF Settling
  <2>4. iters > 0 => Settling
    BY <1>2 DEF TypeOK, LaunchTypeOK
  <2>5. state' = IF iters > 0 THEN "ARM" ELSE "IDLE"
    BY <1>2 DEF NextState
  <2>6. CASE iters > 0
    BY <2>1, <2>2, <2>4, <2>5, <2>6 DEF StartFindsStep
  <2>7. CASE ~(iters > 0)
    <3>1. Settling' \/ (iters' = 0 /\ dc_start' = {})
      BY <1>2, <2>1, <2>2, <2>3, <2>7 DEF Settled, Settling
    <3>. QED
      BY <2>1, <2>5, <2>7, <3>1 DEF StartFindsStep
  <2>. QED
    BY <2>6, <2>7
<1>3. CASE state = "ARM"
  <2>1. dc_start = {} /\ armed \subseteq waiting /\ dc_armed \subseteq waiting
    BY <1>3 DEF Settled, Settling
  <2>2. CASE AllReady(trigger)
    <3>1. state' = "LAUNCH" /\ dc_start' = dc_armed
      BY <1>1, <1>3, <2>2 DEF NextState, AllReady, DcReady
    <3>. QED
      BY <1>1, <2>1, <3>1 DEF StartFindsStep
  <2>3. CASE ~AllReady(trigger)
    <3>1. state' = "ARM" /\ dc_start' = {}
      BY <1>1, <1>3, <2>3 DEF NextState
    <3>. QED
      BY <1>1, <2>1, <3>1 DEF StartFindsStep, Settled, Settling
  <2>. QED
    BY <2>2, <2>3
<1>4. CASE state = "LAUNCH"
  <2>1. state' = "DELAY1" /\ dc_start' = {}
    BY <1>1, <1>4 DEF NextState, AllReady
  <2>. QED
    BY <2>1 DEF StartFindsStep
<1>5. CASE state = "DELAY1"
  <2>1. state' = "DELAY2" /\ dc_start' = {} /\ dc_start = {}
    BY <1>1, <1>5 DEF NextState, AllReady
  <2>. QED
    BY <1>1, <2>1 DEF StartFindsStep, Settling
<1>6. CASE state = "DELAY2"
  <2>1. state' = "IDLE" /\ dc_start' = {} /\ dc_start = {}
    BY <1>1, <1>6 DEF NextState, AllReady, Settling
  <2>. QED
    BY <1>1, <2>1 DEF StartFindsStep, Settling
<1>. QED
  BY <1>2, <1>3, <1>4, <1>5, <1>6 DEF TypeOK, LaunchTypeOK

\* A clock edge without a pulse of the host keeps the invariant.
LEMMA ClockKeepsInv == LaunchInv /\ Clock => LaunchInv'
<1>. SUFFICES ASSUME LaunchInv, Clock
              PROVE  LaunchInv'
  OBVIOUS
<1>1. /\ iters' = (IF AllReady(trigger) /\ iters > 0 THEN iters - 1 ELSE iters)
      /\ state' = NextState(trigger)
      /\ dc_start' = (IF AllReady(trigger) THEN dc_active_mask ELSE {})
      /\ dc_armed' = armed
      /\ dc_active_mask' = dc_active_mask /\ use_trigger' = use_trigger
      /\ programmed' = programmed
      /\ launched' = (IF AllReady(trigger) THEN launched + 1 ELSE launched)
  BY DEF Clock, Tick, Lines, LaunchesLeft
<1>2. CountInv'
  <2>1. CASE AllReady(trigger)
    <3>1. state = "ARM" /\ state' = "LAUNCH"
      BY <1>1, <2>1 DEF AllReady, NextState
    <3>. QED
      BY <1>1, <2>1, <3>1, MaxItersAssumption
      DEF LaunchInv, CountInv, TypeOK, LaunchTypeOK
  <2>2. CASE ~AllReady(trigger)
    <3>1. state' = "ARM" => state = "ARM" \/ (state = "IDLE" /\ iters > 0)
      BY <1>1 DEF NextState, LaunchInv, TypeOK, LaunchTypeOK
    <3>. QED
      BY <1>1, <2>2, <3>1, MaxItersAssumption
      DEF LaunchInv, CountInv, TypeOK, LaunchTypeOK
  <2>. QED
    BY <2>1, <2>2
<1>3. TypeOK'
  <2>1. LaunchTypeOK'
    BY <1>1, NextStateType, MaxItersAssumption DEF LaunchInv, TypeOK, LaunchTypeOK
  <2>2. launched' \in 0 .. MaxIters + 1 /\ programmed' \in 0 .. MaxIters
    BY <1>1, <1>2, <2>1, MaxItersAssumption
    DEF LaunchInv, CountInv, TypeOK, LaunchTypeOK
  <2>3. quiet' \in 0 .. HostGap
    BY HostGapAssumption DEF LaunchInv, TypeOK, Clock
  <2>. QED
    BY <2>1, <2>2, <2>3, ChannelsFollow DEF Clock, LaunchInv, TypeOK
<1>4. SettleInv'
  <2>1. state = "IDLE" => iters' = iters
    BY <1>1 DEF AllReady
  <2>. QED
    BY <1>1, <2>1, SettleStep DEF Clock, Tick
<1>. QED
  BY <1>2, <1>3, <1>4 DEF LaunchInv

\* A new control word keeps the invariant, in whatever state it comes.
LEMMA HostLaunchKeepsInv == LaunchInv /\ HostLaunch => LaunchInv'
<1>. SUFFICES ASSUME LaunchInv, HostLaunch
              PROVE  LaunchInv'
  OBVIOUS
<1>1. PICK mask \in SUBSET Channel, trig \in BOOLEAN, n \in 0 .. MaxIters :
          NewCtrl(armed, trigger, mask, trig, n) /\ programmed' = n
  BY DEF HostLaunch
<1>2. /\ iters' = n /\ dc_active_mask' = mask /\ use_trigger' = trig
      /\ programmed' = n /\ launched' = 0
      /\ state' = NextState(trigger)
      /\ dc_start' = (IF AllReady(trigger) THEN dc_active_mask ELSE {})
      /\ dc_armed' = armed
      /\ quiet = HostGap /\ quiet' = 0
  BY <1>1 DEF HostLaunch, NewCtrl, Lines
<1>3. CountInv'
  BY <1>2, MaxItersAssumption DEF CountInv
<1>4. TypeOK'
  <2>1. LaunchTypeOK'
    BY <1>2, NextStateType DEF LaunchInv, TypeOK, LaunchTypeOK
  <2>. QED
    BY <1>2, <2>1, ChannelsFollow, MaxItersAssumption, HostGapAssumption
    DEF HostLaunch, LaunchInv, TypeOK
<1>5. SettleInv'
  <2>1. quiet # 0
    BY <1>2, HostGapAssumption
  <2>. QED
    BY <1>1, <1>2, <2>1, SettleStep DEF HostLaunch, NewCtrl
<1>. QED
  BY <1>3, <1>4, <1>5 DEF LaunchInv

\* A clear keeps the invariant, also when it meets the decision to launch.
LEMMA HostClearKeepsInv == LaunchInv /\ HostClear => LaunchInv'
<1>. SUFFICES ASSUME LaunchInv, HostClear
              PROVE  LaunchInv'
  OBVIOUS
<1>1. /\ iters' = 0 /\ dc_active_mask' = {} /\ use_trigger' = FALSE
      /\ programmed' = 0 /\ launched' = 0
      /\ state' = "IDLE"
      /\ dc_start' = (IF AllReady(trigger) THEN dc_active_mask ELSE {})
      /\ dc_armed' = armed
      /\ quiet' = 0
  BY DEF HostClear, Clear, Lines
<1>2. CountInv'
  BY <1>1 DEF CountInv
<1>3. TypeOK'
  <2>1. LaunchTypeOK'
    <3>1. 0 \in 0 .. MaxIters
      BY MaxItersAssumption
    <3>. QED
      BY <1>1, <3>1, Zenon DEF LaunchInv, TypeOK, LaunchTypeOK
  <2>. QED
    BY <1>1, <2>1, ChannelsFollow, MaxItersAssumption, HostGapAssumption
    DEF HostClear, LaunchInv, TypeOK
<1>4. StartFindsStep'
  <2>1. waiting \ dc_start \subseteq waiting'
    BY ChannelsFollow DEF HostClear, LaunchInv
  <2>2. state = "ARM" => dc_start = {} /\ dc_armed \subseteq waiting
    BY DEF LaunchInv, SettleInv, Settled, Settling
  <2>3. AllReady(trigger) => state = "ARM" /\ dc_active_mask = dc_armed
    BY DEF AllReady, DcReady
  <2>. QED
    BY <1>1, <2>1, <2>2, <2>3 DEF StartFindsStep
<1>5. SettleInv'
  BY <1>1, <1>4 DEF SettleInv
<1>. QED
  BY <1>2, <1>3, <1>5 DEF LaunchInv

\* Every step keeps the invariant.
LEMMA LaunchNext_Inv == LaunchInv /\ [Next]_vars => LaunchInv'
<1>. SUFFICES ASSUME LaunchInv, [Next]_vars
              PROVE  LaunchInv'
  OBVIOUS
<1>1. CASE Clock
  BY <1>1, ClockKeepsInv
<1>2. CASE HostLaunch
  BY <1>2, HostLaunchKeepsInv
<1>3. CASE HostClear
  BY <1>3, HostClearKeepsInv
<1>4. CASE UNCHANGED vars
  BY <1>4 DEF vars, launcher, LaunchInv, TypeOK, LaunchTypeOK, SettleInv, CountInv,
              StartFindsStep, Settled, Settling
<1>. QED
  BY <1>1, <1>2, <1>3, <1>4 DEF Next

\* LaunchInv is an invariant of the launcher with its channels and its host.
LEMMA LaunchInvariant == Spec => []LaunchInv
BY LaunchInit_Inv, LaunchNext_Inv, PTL DEF Spec

\* Type correctness: no register of launch.sv leaves its range, and no more
\* launches are decided than one over those asked for.
THEOREM LaunchTypeCorrect == Spec => []TypeOK
<1>1. LaunchInv => TypeOK
  BY DEF LaunchInv
<1>. QED
  BY <1>1, LaunchInvariant, PTL

\* A start pulse goes only to channels that wait with an armed step, for any
\* number of channels: the two delay states of launch.sv outlast the armed
\* lines of the launch before.
THEOREM StartFindsStepAlways == Spec => []StartFindsStep
<1>1. LaunchInv => StartFindsStep
  BY DEF LaunchInv, SettleInv
<1>. QED
  BY <1>1, LaunchInvariant, PTL

\* Launches decided and launches left add up to the launches asked for, over
\* every interleaving of host pulses with the state machine.
THEOREM LaunchesAlwaysAddUp == Spec => []LaunchesAddUp
<1>1. LaunchInv => LaunchesAddUp
  BY DEF LaunchInv, CountInv, LaunchesAddUp
<1>. QED
  BY <1>1, LaunchInvariant, PTL
=============================================================================
