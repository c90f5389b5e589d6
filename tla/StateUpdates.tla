------------------------------ MODULE StateUpdates ------------------------------
(***************************************************************************)
(* How PlanningSceneMonitor (planning_scene_monitor.cpp) passes the robot  *)
(* state that CurrentStateMonitor reads to its scene: at once when the     *)
(* last update is long enough ago, later from a timer when it is not, and  *)
(* at the latest when a planning request asks for a state newer than now.  *)
(* Threads: the callback of the joint state subscription, the timer, one   *)
(* request in waitForCurrentRobotState(), and the owner who starts, stops  *)
(* and configures the monitor.  Whether dt_state_update_ has passed since  *)
(* the last update is a choice made where the code reads the clock.        *)
(***************************************************************************)
EXTENDS CurrentStateMonitor

CONSTANTS
  MaxRequests,  \* bound: calls of waitForCurrentRobotState()
  MaxCommands   \* bound: calls of the owner

ASSUME StateUpdatesAssumption == MaxRequests \in Nat /\ MaxCommands \in Nat

VARIABLES
  dt_state_update_,       \* updates are throttled (it is not zero)
  state_update_timer_,    \* the timer runs
  state_update_pending_,
  scene,                  \* the robot state of scene_
  last_robot_motion_time_,
  pc,
  due,                    \* dt >= dt_state_update_, as the thread computed it
  callbacks,              \* callbacks jointStateCallback() still has to call
  since,                  \* the time t of the request
  requests, commands,     \* calls that may still be made
  synced,                 \* the last request returned true
  known,                  \* history: the state that satisfied that request
  stamped,                \* history: the state when the scene's time was read
  dropped                 \* history: the monitor was stopped and updates with it

sceneVars == <<scene, last_robot_motion_time_, stamped>>
throttleVars == <<dt_state_update_, state_update_timer_, state_update_pending_>>
requestVars == <<since, requests, synced, known>>
ownerVars == <<commands, dropped>>
vars == <<monitorVars, throttleVars, sceneVars, pc, due, callbacks, requestVars, ownerVars>>

Threads == {"joints", "timer", "request", "owner"}
Locations ==
  {"idle", "call", "decide", "update", "copy", "test", "wait", "sync",
   "stop_timer", "drop", "restart", "zero"}

\* After the first startStateMonitor().
Init ==
  /\ MonitorInit
  /\ dt_state_update_ = TRUE /\ state_update_timer_ = TRUE
  /\ state_update_pending_ = FALSE
  /\ scene = Never /\ last_robot_motion_time_ = 0 /\ stamped = Never
  /\ pc = [t \in Threads |-> "idle"]
  /\ due = [t \in Threads |-> FALSE]
  /\ callbacks = 0
  /\ since = 0 /\ requests = MaxRequests /\ synced = FALSE /\ known = Never
  /\ commands = MaxCommands /\ dropped = FALSE

Goto(t, from, to) ==
  /\ pc[t] = from
  /\ pc' = [pc EXCEPT ![t] = to]

\* How far each joint of a is at least as new as in b.
AtLeast(a, b) == \A j \in Joints : a[j] >= b[j]

-----------------------------------------------------------------------------
(* updateSceneWithCurrentState(), in any of the threads.                   *)

\* scene_update_mutex_ is held from the reading of the time to the copy.
SceneLocked == \E t \in Threads : pc[t] = "copy"

\* Lines 1299-1300: the lock and the time.
ReadTime(t) ==
  /\ Goto(t, "update", "copy")
  /\ ~SceneLocked
  /\ last_robot_motion_time_' = CurrentStateTime
  /\ stamped' = robot_state_
  /\ UNCHANGED <<monitorVars, throttleVars, scene, due, callbacks, requestVars, ownerVars>>

\* Where the caller goes on after the update.
After(t) ==
  CASE t = "joints"  -> "call"
    [] t = "timer"   -> "idle"
    [] t = "request" -> "idle"
    [] t = "owner"   -> "idle"

\* A faulty variant: the state is read before its time.
CopyState_BeforeTime(t) ==
  /\ Goto(t, "copy", After(t))
  /\ scene' = stamped
  /\ last_robot_motion_time_' = CurrentStateTime
  /\ stamped' = robot_state_
  /\ dropped' = FALSE
  /\ synced' = (synced \/ t = "request")
  /\ UNCHANGED <<monitorVars, throttleVars, due, callbacks, since, requests, known, commands>>

\* Lines 1302-1303: setToCurrentState() takes state_update_lock_ a second time.
CopyState(t) ==
  /\ Goto(t, "copy", After(t))
  /\ scene' = robot_state_
  /\ dropped' = FALSE
  /\ synced' = (synced \/ t = "request")
  /\ UNCHANGED <<monitorVars, throttleVars, last_robot_motion_time_, stamped, due, callbacks,
                 since, requests, known, commands>>

UpdateScene == \E t \in Threads : ReadTime(t) \/ CopyState(t)

-----------------------------------------------------------------------------
(* The joint state subscription: jointStateCallback() and onStateUpdate(). *)

\* Its callbacks are called for a message that moves a joint.
JointState(list, stamp, moved) ==
  /\ pc["joints"] = "idle"
  /\ state_monitor_started_
  /\ Receive(list, stamp, moved)
  /\ callbacks' = IF moved = {} THEN 0 ELSE update_callbacks_
  /\ pc' = [pc EXCEPT !["joints"] = IF moved = {} THEN "idle" ELSE "call"]
  /\ UNCHANGED <<throttleVars, sceneVars, due, requestVars, ownerVars,
                 state_monitor_started_, update_callbacks_>>

\* The last callback has returned; waitForCurrentState() is notified.
EndJointState ==
  /\ Goto("joints", "call", "idle")
  /\ callbacks = 0
  /\ UNCHANGED <<monitorVars, throttleVars, sceneVars, due, callbacks, requestVars, ownerVars>>

\* onStateUpdate(), lines 1182-1183: the clock is read before the lock.
BeginStateUpdate ==
  /\ Goto("joints", "call", "decide")
  /\ callbacks > 0
  /\ callbacks' = callbacks - 1
  /\ \E late \in BOOLEAN : due' = [due EXCEPT !["joints"] = late]
  /\ UNCHANGED <<monitorVars, throttleVars, sceneVars, requestVars, ownerVars>>

\* Lines 1186-1202: no time is less than a dt_state_update_ of zero.
onStateUpdate ==
  /\ LET now == due["joints"] \/ ~dt_state_update_
     IN /\ Goto("joints", "decide", IF now THEN "update" ELSE "call")
        /\ state_update_pending_' = ~now
  /\ due' = [due EXCEPT !["joints"] = FALSE]
  /\ UNCHANGED <<monitorVars, dt_state_update_, state_update_timer_, sceneVars, callbacks,
                 requestVars, ownerVars>>

-----------------------------------------------------------------------------
(* stateUpdateTimerCallback()                                              *)

\* Lines 1207-1212: a test without the lock, and the clock.
TimerFires(late) ==
  /\ state_update_timer_
  /\ state_update_pending_
  /\ Goto("timer", "idle", "decide")
  /\ due' = [due EXCEPT !["timer"] = late]
  /\ UNCHANGED <<monitorVars, throttleVars, sceneVars, callbacks, requestVars, ownerVars>>

\* A faulty variant: the flag is cleared although the update is not due.
PerformPendingStateUpdate_Clears ==
  /\ LET now == state_update_pending_ /\ (due["timer"] \/ ~dt_state_update_)
     IN Goto("timer", "decide", IF now THEN "update" ELSE "idle")
  /\ state_update_pending_' = FALSE
  /\ due' = [due EXCEPT !["timer"] = FALSE]
  /\ UNCHANGED <<monitorVars, dt_state_update_, state_update_timer_, sceneVars, callbacks,
                 requestVars, ownerVars>>

\* Lines 1214-1230
PerformPendingStateUpdate ==
  /\ LET now == state_update_pending_ /\ (due["timer"] \/ ~dt_state_update_)
     IN /\ Goto("timer", "decide", IF now THEN "update" ELSE "idle")
        /\ state_update_pending_' = (state_update_pending_ /\ ~now)
  /\ due' = [due EXCEPT !["timer"] = FALSE]
  /\ UNCHANGED <<monitorVars, dt_state_update_, state_update_timer_, sceneVars, callbacks,
                 requestVars, ownerVars>>

-----------------------------------------------------------------------------
(* waitForCurrentRobotState() with a state monitor.                        *)

BeginWait(t) ==
  /\ Goto("request", "idle", "test")
  /\ requests > 0 /\ requests' = requests - 1
  /\ since' = t
  /\ synced' = FALSE
  /\ UNCHANGED <<monitorVars, throttleVars, sceneVars, due, callbacks, known, ownerVars>>

\* waitForCurrentState(), the test of the loop.
TestState ==
  /\ Goto("request", "test", IF HasStateSince(since) THEN "sync" ELSE "wait")
  /\ known' = IF HasStateSince(since) THEN robot_state_ ELSE known
  /\ UNCHANGED <<monitorVars, throttleVars, sceneVars, due, callbacks, since, requests, synced,
                 ownerVars>>

\* The wait ends for a notification, for none, or for the timeout, which is
\* the caller's failure.
EndWait ==
  /\ \/ Goto("request", "wait", "test")
     \/ Goto("request", "wait", "idle")
  /\ UNCHANGED <<monitorVars, throttleVars, sceneVars, due, callbacks, requestVars, ownerVars>>

\* A faulty variant: the pending update is left to the timer.
Sync_LeavesPending ==
  /\ Goto("request", "sync", "idle")
  /\ synced' = TRUE
  /\ UNCHANGED <<monitorVars, throttleVars, sceneVars, due, callbacks, since, requests, known,
                 ownerVars>>

\* Lines 928-937: an update that is still pending is made here.
Sync ==
  /\ Goto("request", "sync", IF state_update_pending_ THEN "update" ELSE "idle")
  /\ state_update_pending_' = FALSE
  /\ synced' = ~state_update_pending_
  /\ UNCHANGED <<monitorVars, dt_state_update_, state_update_timer_, sceneVars, due, callbacks,
                 since, requests, known, ownerVars>>

-----------------------------------------------------------------------------
(* The owner: startStateMonitor(), stopStateMonitor() and                  *)
(* setStateUpdateFrequency().  Stopping a subscription or a timer waits    *)
(* for the callback that runs.                                             *)

Command == commands > 0 /\ commands' = commands - 1

\* Lines 1167-1168; startStateMonitor() begins with this as well.
BeginStop ==
  /\ Goto("owner", "idle", "stop_timer")
  /\ Command
  /\ pc["joints"] = "idle"
  /\ StopMonitor
  /\ UNCHANGED <<joint_time_, robot_state_, messages, update_callbacks_, throttleVars,
                 sceneVars, due, callbacks, requestVars, dropped>>

StopTimer(from, to) ==
  /\ Goto("owner", from, to)
  /\ pc["timer"] = "idle"
  /\ state_update_timer_' = FALSE

\* Line 1173
StopUpdates ==
  /\ StopTimer("stop_timer", "drop")
  /\ UNCHANGED <<monitorVars, dt_state_update_, state_update_pending_, sceneVars, due, callbacks,
                 requestVars, ownerVars>>

\* Lines 1174-1177
DropPending ==
  /\ \/ Goto("owner", "drop", "idle")
     \/ Goto("owner", "drop", "restart")
  /\ state_update_pending_' = FALSE
  /\ dropped' = (dropped \/ state_update_pending_)
  /\ UNCHANGED <<monitorVars, dt_state_update_, state_update_timer_, sceneVars, due, callbacks,
                 requestVars, commands>>

\* Lines 1140-1150: every start registers onStateUpdate() once more.
startStateMonitor ==
  /\ Goto("owner", "restart", "idle")
  /\ update_callbacks_' = update_callbacks_ + 1
  /\ StartMonitor
  /\ state_update_timer_' = (state_update_timer_ \/ dt_state_update_)
  /\ UNCHANGED <<robot_state_, messages, dt_state_update_, state_update_pending_, sceneVars, due,
                 callbacks, requestVars, ownerVars>>

\* setStateUpdateFrequency() with a frequency, lines 1265-1268
SetFrequency ==
  /\ Goto("owner", "idle", "idle")
  /\ Command
  /\ dt_state_update_' = TRUE
  /\ state_update_timer_' = TRUE
  /\ UNCHANGED <<monitorVars, state_update_pending_, sceneVars, due, callbacks, requestVars,
                 dropped>>

\* ... and with zero: lines 1273 and 1274-1282.
SetNoFrequency ==
  /\ StopTimer("idle", "zero")
  /\ Command
  /\ UNCHANGED <<monitorVars, dt_state_update_, state_update_pending_, sceneVars, due, callbacks,
                 requestVars, dropped>>

\* A faulty variant: nobody makes the update that is pending.
UpdateAtOnce_Not ==
  /\ Goto("owner", "zero", "idle")
  /\ dt_state_update_' = FALSE
  /\ UNCHANGED <<monitorVars, state_update_timer_, state_update_pending_, sceneVars, due,
                 callbacks, requestVars, ownerVars>>

UpdateAtOnce ==
  /\ Goto("owner", "zero", IF state_update_pending_ THEN "update" ELSE "idle")
  /\ dt_state_update_' = FALSE
  /\ UNCHANGED <<monitorVars, state_update_timer_, state_update_pending_, sceneVars, due,
                 callbacks, requestVars, ownerVars>>

-----------------------------------------------------------------------------
Subscription ==
  \/ \E list \in Messages, stamp \in Stamps :
       \E moved \in SUBSET ToSet(list) : JointState(list, stamp, moved)
  \/ EndJointState \/ BeginStateUpdate \/ onStateUpdate

Timer == (\E late \in BOOLEAN : TimerFires(late)) \/ PerformPendingStateUpdate

Request == (\E t \in Stamps : BeginWait(t)) \/ TestState \/ EndWait \/ Sync

Owner ==
  \/ BeginStop \/ StopUpdates \/ DropPending \/ startStateMonitor
  \/ SetFrequency \/ SetNoFrequency \/ UpdateAtOnce

Next == Subscription \/ Timer \/ Request \/ Owner \/ UpdateScene

Spec == Init /\ [][Next]_vars

\* Every thread that is inside a call goes on, mutexes are passed on, and a
\* timer whose period is dt_state_update_ finds that this time has passed
\* again and again.
FairSpec ==
  /\ Spec
  /\ WF_vars(UpdateScene)
  /\ WF_vars(EndJointState \/ BeginStateUpdate \/ onStateUpdate)
  /\ SF_vars(TimerFires(TRUE)) /\ WF_vars(PerformPendingStateUpdate)
  /\ WF_vars(StopUpdates \/ DropPending \/ startStateMonitor \/ UpdateAtOnce)

-----------------------------------------------------------------------------
TypeOK ==
  /\ MonitorTypeOK
  /\ dt_state_update_ \in BOOLEAN /\ state_update_timer_ \in BOOLEAN
  /\ state_update_pending_ \in BOOLEAN
  /\ scene \in [Joints -> 0 .. MaxMessages] /\ stamped \in [Joints -> 0 .. MaxMessages]
  /\ last_robot_motion_time_ \in 0 .. MaxStamp
  /\ pc \in [Threads -> Locations]
  /\ due \in [Threads -> BOOLEAN]
  /\ callbacks \in 0 .. update_callbacks_
  /\ since \in 0 .. MaxStamp /\ requests \in 0 .. MaxRequests /\ synced \in BOOLEAN
  /\ known \in [Joints -> 0 .. MaxMessages]
  /\ commands \in 0 .. MaxCommands /\ dropped \in BOOLEAN

\* An update that a thread has taken on itself and not made yet.
InFlight ==
  \/ pc["joints"] = "call" /\ callbacks > 0
  \/ pc["joints"] = "decide"
  \/ \E t \in Threads : pc[t] \in {"update", "copy"}

\* No position the robot reported is forgotten: while the scene shows an older
\* one, somebody is about to update it, an update is pending, or the monitor
\* was stopped with one pending.  (onStateUpdate(), the timer, the request and
\* setStateUpdateFrequency() hand one flag around.)
NoReadingIsForgotten ==
  AtLeast(scene, robot_state_) \/ InFlight \/ state_update_pending_ \/ dropped

\* The scene is never older than the time it carries, which is what another
\* process waits for: updateSceneWithCurrentState() reads the time first.
SceneCoversItsTime ==
  SceneLocked \/ AtLeast(scene, stamped)

\* waitForCurrentRobotState() returns true only when the scene shows the state
\* it waited for, another thread is about to show it, or the monitor was stopped.
SyncIsFreshOrInFlight ==
  [][~synced /\ synced' => AtLeast(scene', known) \/ dropped \/ InFlight]_vars

\* The scene catches up with the robot again and again, unless the monitor was
\* stopped with an update pending (the flag and the timer lose none).
SceneCatchesUp == []<>(AtLeast(scene, robot_state_) \/ dropped)
=============================================================================
