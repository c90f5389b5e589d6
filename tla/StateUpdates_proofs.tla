--------------------------- MODULE StateUpdates_proofs ---------------------------
(***************************************************************************)
(* Proofs about StateUpdates, for any joints, messages and stamps, any     *)
(* number of requests and commands and every timing: no position is        *)
(* forgotten on its way to the scene, the scene is never older than its    *)
(* time, and a request that is told the scene is up to date is told so     *)
(* while the update is made at the latest.                                 *)
(***************************************************************************)
EXTENDS StateUpdates, TLAPS

-----------------------------------------------------------------------------
(* The inductive invariant.                                                *)

\* The types the argument needs; the times of the joints do not matter to it.
Types ==
  /\ messages \in Nat
  /\ robot_state_ \in [Joints -> Nat] /\ scene \in [Joints -> Nat]
  /\ known \in [Joints -> Nat] /\ stamped \in [Joints -> Nat]
  /\ pc \in [Threads -> Locations]
  /\ callbacks \in Nat
  /\ update_callbacks_ \in Nat \ {0}

\* Positions are numbers of messages, so a later one is larger.
Past ==
  /\ \A j \in Joints : robot_state_[j] <= messages
  /\ AtLeast(robot_state_, known)
  /\ AtLeast(robot_state_, stamped)

IInv == Types /\ Past /\ NoReadingIsForgotten /\ SceneCoversItsTime

-----------------------------------------------------------------------------
\* A step of one thread leaves it where the step says and the others alone.
LEMMA GotoLemma ==
  ASSUME pc \in [Threads -> Locations], NEW t \in Threads, NEW from, NEW to \in Locations,
         Goto(t, from, to)
  PROVE  /\ pc' \in [Threads -> Locations]
         /\ pc[t] = from /\ pc'[t] = to
         /\ \A u \in Threads : u # t => pc'[u] = pc[u]
  BY DEF Goto

\* The positions after a message: those of the joints it moves are new.
LEMMA ReceiveLemma ==
  ASSUME Types, Past, NEW list, NEW stamp, NEW moved, Receive(list, stamp, moved)
  PROVE  /\ messages' \in Nat /\ robot_state_' \in [Joints -> Nat]
         /\ \A j \in Joints : robot_state_'[j] <= messages'
         /\ AtLeast(robot_state_', robot_state_)
         /\ moved = {} => robot_state_' = robot_state_
  BY DEF Types, Past, Receive, AtLeast

\* The initial states satisfy the invariant.
LEMMA InitLemma == Init => IInv
  BY DEF Init, MonitorInit, IInv, Types, Past, NoReadingIsForgotten, SceneCoversItsTime,
         AtLeast, Never, Threads, Locations, SceneLocked

\* A step that changes nothing keeps the invariant.
LEMMA StutterLemma ==
  ASSUME IInv, UNCHANGED vars
  PROVE  IInv'
  BY DEF IInv, vars, monitorVars, sceneVars, throttleVars, requestVars, ownerVars, Types, Past,
         NoReadingIsForgotten, SceneCoversItsTime, AtLeast, InFlight, SceneLocked

-----------------------------------------------------------------------------
(* updateSceneWithCurrentState()                                           *)

\* Reading the time takes the scene's lock and notes the state it belongs to.
LEMMA ReadTimeLemma ==
  ASSUME IInv, NEW t \in Threads, ReadTime(t)
  PROVE  IInv'
<1>1. pc[t] = "update" /\ pc'[t] = "copy" /\ pc' \in [Threads -> Locations]
  BY GotoLemma DEF ReadTime, IInv, Types, Locations
<1>2. InFlight' /\ SceneLocked'
  BY <1>1 DEF InFlight, SceneLocked
<1>3. Types' /\ Past'
  BY <1>1 DEF ReadTime, IInv, Types, Past, AtLeast, monitorVars, requestVars
<1> QED
  BY <1>2, <1>3 DEF IInv, NoReadingIsForgotten, SceneCoversItsTime

\* The copy makes the scene as new as the robot, hence as new as its time.
LEMMA CopyStateLemma ==
  ASSUME IInv, NEW t \in Threads, CopyState(t)
  PROVE  IInv'
<1>1. After(t) \in Locations
  BY DEF After, Threads, Locations
<1>2. pc' \in [Threads -> Locations]
  BY <1>1, GotoLemma DEF CopyState, IInv, Types
<1>3. Types' /\ Past'
  BY <1>2 DEF CopyState, IInv, Types, Past, AtLeast, monitorVars
<1>4. AtLeast(scene', robot_state_') /\ AtLeast(scene', stamped')
  BY DEF CopyState, IInv, Types, Past, AtLeast, monitorVars
<1> QED
  BY <1>3, <1>4 DEF IInv, NoReadingIsForgotten, SceneCoversItsTime, AtLeast

-----------------------------------------------------------------------------
(* The joint state subscription.                                           *)

\* A message that moves a joint leaves a callback to be called.
LEMMA JointStateLemma ==
  ASSUME IInv, NEW list, NEW stamp, NEW moved, JointState(list, stamp, moved)
  PROVE  IInv'
<1>1. pc' \in [Threads -> Locations]
  BY DEF JointState, IInv, Types, Threads, Locations
<1>2. /\ messages' \in Nat /\ robot_state_' \in [Joints -> Nat]
      /\ \A j \in Joints : robot_state_'[j] <= messages'
      /\ AtLeast(robot_state_', robot_state_)
      /\ moved = {} => robot_state_' = robot_state_
  BY ReceiveLemma DEF JointState, IInv
<1>3. Types'
  BY <1>1, <1>2 DEF JointState, IInv, Types, sceneVars, requestVars
<1>4. Past'
  BY <1>2 DEF JointState, IInv, Types, Past, AtLeast, sceneVars, requestVars
<1>5. SceneCoversItsTime'
  BY DEF JointState, IInv, Types, SceneCoversItsTime, SceneLocked, AtLeast, sceneVars, Threads
<1>6. NoReadingIsForgotten'
  <2>1. CASE moved = {}
    <3>1. /\ robot_state_' = robot_state_ /\ scene' = scene
          /\ state_update_pending_' = state_update_pending_ /\ dropped' = dropped
      BY <1>2, <2>1 DEF JointState, sceneVars, throttleVars, ownerVars
    <3>2. InFlight => InFlight'
      BY <2>1 DEF JointState, IInv, Types, InFlight, Threads
    <3> QED
      BY <3>1, <3>2 DEF IInv, NoReadingIsForgotten, AtLeast
  <2>2. CASE moved # {}
    <3>1. pc'["joints"] = "call" /\ callbacks' > 0
      BY <2>2 DEF JointState, IInv, Types, Threads
    <3> QED
      BY <3>1 DEF NoReadingIsForgotten, InFlight
  <2> QED
    BY <2>1, <2>2
<1> QED
  BY <1>3, <1>4, <1>5, <1>6 DEF IInv

\* What a step leaves of the invariant when it touches neither the positions
\* nor the scene: the types, and the time the scene covers.
LEMMA ControlLemma ==
  ASSUME IInv, NEW t \in Threads, NEW from, NEW to \in Locations, Goto(t, from, to),
         from # "copy", UNCHANGED <<messages, robot_state_, sceneVars, known>>,
         callbacks' \in Nat, update_callbacks_' \in Nat \ {0},
         NoReadingIsForgotten'
  PROVE  IInv'
<1>1. /\ pc' \in [Threads -> Locations]
      /\ pc[t] = from
      /\ \A u \in Threads : u # t => pc'[u] = pc[u]
  BY GotoLemma DEF IInv, Types
<1>2. Types' /\ Past'
  BY <1>1 DEF IInv, Types, Past, AtLeast, sceneVars
<1>3. SceneCoversItsTime'
  BY <1>1 DEF IInv, SceneCoversItsTime, SceneLocked, AtLeast, sceneVars
<1> QED
  BY <1>2, <1>3 DEF IInv

\* The callback of the joint states, from the message to onStateUpdate().
LEMMA SubscriptionLemma ==
  ASSUME IInv, EndJointState \/ BeginStateUpdate \/ onStateUpdate
  PROVE  IInv'
<1>1. CASE EndJointState
  <2>1. NoReadingIsForgotten'
    BY <1>1, GotoLemma DEF EndJointState, IInv, Types, NoReadingIsForgotten, AtLeast, InFlight,
       Threads, Locations, monitorVars, throttleVars, sceneVars, ownerVars
  <2> QED
    BY <1>1, <2>1, ControlLemma DEF EndJointState, IInv, Types, Threads, Locations, monitorVars,
       requestVars
<1>2. CASE BeginStateUpdate
  <2>1. pc'["joints"] = "decide"
    BY <1>2, GotoLemma DEF BeginStateUpdate, IInv, Types, Threads, Locations
  <2>2. NoReadingIsForgotten'
    BY <2>1 DEF NoReadingIsForgotten, InFlight
  <2>3. callbacks' \in Nat
    BY <1>2 DEF BeginStateUpdate, IInv, Types
  <2> QED
    BY <1>2, <2>2, <2>3, ControlLemma DEF BeginStateUpdate, IInv, Types, Threads, Locations,
       monitorVars, requestVars
<1>3. CASE onStateUpdate
  <2> DEFINE now == due["joints"] \/ ~dt_state_update_
             to == IF now THEN "update" ELSE "call"
  <2>1. Goto("joints", "decide", to) /\ state_update_pending_' = ~now /\ to \in Locations
    BY <1>3 DEF onStateUpdate, Locations
  <2>2. NoReadingIsForgotten'
    <3>1. CASE now
      BY <2>1, <3>1, GotoLemma DEF IInv, Types, NoReadingIsForgotten, InFlight, Threads
    <3>2. CASE ~now
      BY <2>1, <3>2 DEF NoReadingIsForgotten
    <3> QED
      BY <3>1, <3>2
  <2> HIDE DEF to
  <2> QED
    BY <1>3, <2>1, <2>2, ControlLemma DEF onStateUpdate, IInv, Types, Threads, monitorVars,
       requestVars
<1> QED
  BY <1>1, <1>2, <1>3

-----------------------------------------------------------------------------
(* The timer and the request.                                              *)

\* The timer, and the update it performs.
LEMMA TimerLemma ==
  ASSUME IInv, (\E late \in BOOLEAN : TimerFires(late)) \/ PerformPendingStateUpdate
  PROVE  IInv'
<1>1. CASE \E late \in BOOLEAN : TimerFires(late)
  <2>1. PICK late \in BOOLEAN : TimerFires(late)
    BY <1>1
  <2>2. NoReadingIsForgotten'
    BY <2>1, GotoLemma DEF TimerFires, NoReadingIsForgotten, throttleVars
  <2> QED
    BY <2>1, <2>2, ControlLemma DEF TimerFires, IInv, Types, Threads, Locations, monitorVars,
       requestVars
<1>2. CASE PerformPendingStateUpdate
  <2> DEFINE now == state_update_pending_ /\ (due["timer"] \/ ~dt_state_update_)
             to == IF now THEN "update" ELSE "idle"
  <2>1. /\ Goto("timer", "decide", to) /\ to \in Locations
        /\ state_update_pending_' = (state_update_pending_ /\ ~now)
        /\ UNCHANGED <<monitorVars, sceneVars, callbacks, requestVars, ownerVars>>
    BY <1>2 DEF PerformPendingStateUpdate, Locations
  <2>2. NoReadingIsForgotten'
    <3>1. CASE now
      BY <2>1, <3>1, GotoLemma DEF IInv, Types, NoReadingIsForgotten, InFlight, Threads
    <3>2. CASE ~now
      <4>1. pc'["joints"] = pc["joints"] /\ pc[("timer")] = "decide"
            /\ \A u \in Threads : u # "timer" => pc'[u] = pc[u]
        BY <2>1, GotoLemma DEF IInv, Types, Threads
      <4>2. InFlight => InFlight'
        BY <2>1, <4>1 DEF InFlight
      <4>3. state_update_pending_ => state_update_pending_'
        BY <2>1, <3>2
      <4> QED
        BY <2>1, <4>2, <4>3 DEF IInv, NoReadingIsForgotten, AtLeast, monitorVars, sceneVars,
           ownerVars
    <3> QED
      BY <3>1, <3>2
  <2> HIDE DEF to
  <2> QED
    BY <2>1, <2>2, ControlLemma DEF IInv, Types, Threads, monitorVars, requestVars
<1> QED
  BY <1>1, <1>2

\* A step of a thread that is not the subscription's, away from the scene,
\* leaves every update that is in flight in flight.
LEMMA FlightLemma ==
  ASSUME IInv, NEW t \in Threads, NEW from, NEW to \in Locations, Goto(t, from, to),
         t # "joints", from \notin {"update", "copy"},
         UNCHANGED <<robot_state_, scene, callbacks, dropped>>
  PROVE  /\ InFlight => InFlight'
         /\ state_update_pending_' = state_update_pending_ => NoReadingIsForgotten'
<1>1. /\ pc'["joints"] = pc["joints"] /\ pc[t] = from
      /\ \A u \in Threads : u # t => pc'[u] = pc[u]
  BY GotoLemma DEF IInv, Types, Threads
<1>2. InFlight => InFlight'
  BY <1>1 DEF InFlight
<1> QED
  BY <1>2 DEF IInv, NoReadingIsForgotten, AtLeast

\* Two ways to keep the clause: to take the update on oneself, and to leave
\* the flag as it was.
LEMMA TakeLemma ==
  ASSUME IInv, NEW t \in Threads, NEW from, Goto(t, from, "update")
  PROVE  NoReadingIsForgotten'
<1>1. pc'[t] = "update"
  BY GotoLemma DEF IInv, Types, Locations
<1> QED
  BY <1>1 DEF NoReadingIsForgotten, InFlight

\* waitForCurrentRobotState().
LEMMA RequestLemma ==
  ASSUME IInv, (\E t \in Stamps : BeginWait(t)) \/ TestState \/ EndWait \/ Sync
  PROVE  IInv'
<1>1. CASE \E t \in Stamps : BeginWait(t)
  <2>1. PICK t \in Stamps : BeginWait(t)
    BY <1>1
  <2>2. NoReadingIsForgotten'
    BY <2>1, FlightLemma DEF BeginWait, Threads, Locations, monitorVars, throttleVars, sceneVars,
       ownerVars
  <2> QED
    BY <2>1, <2>2, ControlLemma DEF BeginWait, IInv, Types, Threads, Locations, monitorVars,
       requestVars
<1>2. CASE TestState
  <2> DEFINE to == IF HasStateSince(since) THEN "sync" ELSE "wait"
  <2>1. /\ Goto("request", "test", to) /\ to \in Locations
        /\ known' = IF HasStateSince(since) THEN robot_state_ ELSE known
        /\ UNCHANGED <<monitorVars, throttleVars, sceneVars, callbacks, ownerVars>>
    BY <1>2 DEF TestState, Locations
  <2> HIDE DEF to
  <2>2. NoReadingIsForgotten'
    BY <2>1, FlightLemma DEF Threads, monitorVars, throttleVars, sceneVars, ownerVars
  <2>3. /\ pc' \in [Threads -> Locations] /\ pc["request"] = "test"
        /\ \A u \in Threads : u # "request" => pc'[u] = pc[u]
    BY <2>1, GotoLemma DEF IInv, Types, Threads
  <2>4. known' \in [Joints -> Nat] /\ AtLeast(robot_state_, known')
    BY <2>1 DEF IInv, Types, Past, AtLeast
  <2>5. Types' /\ Past'
    BY <2>1, <2>3, <2>4 DEF IInv, Types, Past, AtLeast, monitorVars, sceneVars
  <2>6. SceneCoversItsTime'
    BY <2>1, <2>3 DEF IInv, SceneCoversItsTime, SceneLocked, AtLeast, sceneVars
  <2> QED
    BY <2>2, <2>5, <2>6 DEF IInv
<1>3. CASE EndWait
  <2>1. PICK to \in {"test", "idle"} : Goto("request", "wait", to)
    BY <1>3 DEF EndWait
  <2>2. NoReadingIsForgotten'
    BY <1>3, <2>1, FlightLemma DEF EndWait, Threads, Locations, monitorVars, throttleVars,
       sceneVars, ownerVars
  <2> QED
    BY <1>3, <2>1, <2>2, ControlLemma DEF EndWait, IInv, Types, Threads, Locations, monitorVars,
       requestVars
<1>4. CASE Sync
  <2> DEFINE to == IF state_update_pending_ THEN "update" ELSE "idle"
  <2>1. /\ Goto("request", "sync", to) /\ to \in Locations
        /\ state_update_pending_' = FALSE
        /\ UNCHANGED <<monitorVars, sceneVars, callbacks, known, ownerVars>>
    BY <1>4 DEF Sync, Locations
  <2>2. NoReadingIsForgotten'
    <3>1. CASE state_update_pending_
      BY <2>1, <3>1, TakeLemma DEF Threads
    <3>2. CASE ~state_update_pending_
      <4>1. InFlight => InFlight'
        BY <2>1, FlightLemma DEF Threads, monitorVars, sceneVars, ownerVars
      <4> QED
        BY <2>1, <3>2, <4>1 DEF IInv, NoReadingIsForgotten, AtLeast, monitorVars, sceneVars,
           ownerVars
    <3> QED
      BY <3>1, <3>2
  <2> HIDE DEF to
  <2> QED
    BY <2>1, <2>2, ControlLemma DEF IInv, Types, Threads, monitorVars
<1> QED
  BY <1>1, <1>2, <1>3, <1>4

-----------------------------------------------------------------------------
(* The owner.                                                              *)

\* startStateMonitor() and stopStateMonitor().
LEMMA StopLemma ==
  ASSUME IInv, BeginStop \/ StopUpdates \/ DropPending \/ startStateMonitor
  PROVE  IInv'
<1>1. CASE BeginStop
  <2>1. NoReadingIsForgotten'
    BY <1>1, FlightLemma DEF BeginStop, Threads, Locations, throttleVars, sceneVars
  <2> QED
    BY <1>1, <2>1, ControlLemma DEF BeginStop, IInv, Types, Threads, Locations, requestVars
<1>2. CASE StopUpdates
  <2>1. NoReadingIsForgotten'
    BY <1>2, FlightLemma DEF StopUpdates, StopTimer, Threads, Locations, monitorVars, sceneVars,
       ownerVars
  <2> QED
    BY <1>2, <2>1, ControlLemma DEF StopUpdates, StopTimer, IInv, Types, Threads, Locations,
       monitorVars, requestVars
<1>3. CASE DropPending
  <2>1. PICK to \in {"idle", "restart"} : Goto("owner", "drop", to)
    BY <1>3 DEF DropPending
  <2>2. /\ pc'["joints"] = pc["joints"] /\ pc["owner"] = "drop"
        /\ \A u \in Threads : u # "owner" => pc'[u] = pc[u]
    BY <2>1, GotoLemma DEF IInv, Types, Threads, Locations
  <2>3. InFlight => InFlight'
    BY <1>3, <2>2 DEF DropPending, InFlight
  <2>4. NoReadingIsForgotten'
    BY <1>3, <2>3 DEF DropPending, IInv, NoReadingIsForgotten, AtLeast, monitorVars, sceneVars
  <2> QED
    BY <1>3, <2>1, <2>4, ControlLemma DEF DropPending, IInv, Types, Threads, Locations,
       monitorVars, requestVars
<1>4. CASE startStateMonitor
  <2>1. NoReadingIsForgotten'
    BY <1>4, FlightLemma DEF startStateMonitor, Threads, Locations, sceneVars, ownerVars
  <2>2. update_callbacks_' \in Nat \ {0}
    BY <1>4 DEF startStateMonitor, IInv, Types
  <2> QED
    BY <1>4, <2>1, <2>2, ControlLemma DEF startStateMonitor, IInv, Types, Threads, Locations,
       requestVars
<1> QED
  BY <1>1, <1>2, <1>3, <1>4

\* setStateUpdateFrequency().
LEMMA FrequencyLemma ==
  ASSUME IInv, SetFrequency \/ SetNoFrequency \/ UpdateAtOnce
  PROVE  IInv'
<1>1. CASE SetFrequency
  <2>1. NoReadingIsForgotten'
    BY <1>1, FlightLemma DEF SetFrequency, Threads, Locations, monitorVars, sceneVars
  <2> QED
    BY <1>1, <2>1, ControlLemma DEF SetFrequency, IInv, Types, Threads, Locations, monitorVars,
       requestVars
<1>2. CASE SetNoFrequency
  <2>1. NoReadingIsForgotten'
    BY <1>2, FlightLemma DEF SetNoFrequency, StopTimer, Threads, Locations, monitorVars,
       sceneVars
  <2> QED
    BY <1>2, <2>1, ControlLemma DEF SetNoFrequency, StopTimer, IInv, Types, Threads, Locations,
       monitorVars, requestVars
<1>3. CASE UpdateAtOnce
  <2> DEFINE to == IF state_update_pending_ THEN "update" ELSE "idle"
  <2>1. /\ Goto("owner", "zero", to) /\ to \in Locations
        /\ UNCHANGED <<monitorVars, state_update_pending_, sceneVars, callbacks, requestVars,
                       ownerVars>>
    BY <1>3 DEF UpdateAtOnce, Locations
  <2> HIDE DEF to
  <2>2. NoReadingIsForgotten'
    BY <2>1, FlightLemma DEF Threads, monitorVars, sceneVars, ownerVars
  <2> QED
    BY <2>1, <2>2, ControlLemma DEF IInv, Types, Threads, monitorVars, requestVars
<1> QED
  BY <1>1, <1>2, <1>3

-----------------------------------------------------------------------------
\* Every step keeps the invariant.
LEMMA StepLemma == IInv /\ [Next]_vars => IInv'
<1> SUFFICES ASSUME IInv, [Next]_vars PROVE IInv'
  OBVIOUS
<1>1. CASE \E list \in Messages, stamp \in Stamps :
             \E moved \in SUBSET ToSet(list) : JointState(list, stamp, moved)
  BY <1>1, JointStateLemma
<1>2. CASE UpdateScene
  BY <1>2, ReadTimeLemma, CopyStateLemma DEF UpdateScene
<1>3. CASE UNCHANGED vars
  BY <1>3, StutterLemma
<1> QED
  BY <1>1, <1>2, <1>3, SubscriptionLemma, TimerLemma, RequestLemma, StopLemma, FrequencyLemma
  DEF Next, Subscription, Timer, Request, Owner

\* The invariant holds.
LEMMA InvLemma == Spec => []IInv
  BY InitLemma, StepLemma, PTL DEF Spec

\* No position the robot reported is forgotten on its way to the scene:
\* onStateUpdate(), the timer, waitForCurrentRobotState() and
\* setStateUpdateFrequency() hand one flag around and lose none.
THEOREM ReadingsTheorem == Spec => []NoReadingIsForgotten
  BY InvLemma, PTL DEF IInv

\* The scene is at least as new as the time that is published with it.
THEOREM SceneTimeTheorem == Spec => []SceneCoversItsTime
  BY InvLemma, PTL DEF IInv

\* waitForCurrentRobotState() returns true when the scene is up to date, about
\* to be, or no longer kept.
THEOREM SyncTheorem == Spec => SyncIsFreshOrInFlight
<1>1. ASSUME IInv, Next
      PROVE  ~synced /\ synced' => AtLeast(scene', known) \/ dropped \/ InFlight
  <2>1. \/ Sync \/ \E t \in Threads : CopyState(t)
        \/ synced' = synced \/ synced' = FALSE
    BY <1>1 DEF Next, Subscription, Timer, Request, Owner, UpdateScene, JointState, EndJointState,
       BeginStateUpdate, onStateUpdate, TimerFires, PerformPendingStateUpdate, BeginWait,
       TestState, EndWait, BeginStop, StopUpdates, DropPending, startStateMonitor, SetFrequency,
       SetNoFrequency, UpdateAtOnce, ReadTime, requestVars
  <2>2. CASE Sync
    <3>1. scene' = scene /\ (synced' => ~state_update_pending_)
      BY <2>2 DEF Sync, sceneVars
    <3>2. ~state_update_pending_ => AtLeast(scene, robot_state_) \/ dropped \/ InFlight
      BY <1>1 DEF IInv, NoReadingIsForgotten
    <3>3. AtLeast(scene, robot_state_) => AtLeast(scene', known)
      BY <1>1, <3>1 DEF IInv, Types, Past, AtLeast
    <3> QED
      BY <3>1, <3>2, <3>3
  <2>3. CASE \E t \in Threads : CopyState(t)
    BY <1>1, <2>3 DEF CopyState, IInv, Past, Types, AtLeast
  <2> QED
    BY <2>1, <2>2, <2>3
<1>2. ASSUME UNCHANGED vars
      PROVE  UNCHANGED synced
  BY <1>2 DEF vars, requestVars
<1>3. IInv /\ [Next]_vars
        => [~synced /\ synced' => AtLeast(scene', known) \/ dropped \/ InFlight]_vars
  BY <1>1
<1> QED
  BY <1>3, InvLemma, PTL DEF Spec, SyncIsFreshOrInFlight
===============================================================================
