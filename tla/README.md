# MoveIt: moving the robot and knowing the world, in TLA+

Models of the parts of MoveIt that decide *whether and when the robot moves* and *what scene
it is planned and watched in*: the MoveGroup action with its loop of planning, executing and
monitoring; the execution manager with its threads and stop requests, the controllers it
drives and how they are chosen and switched; the state monitor, the maintained planning
scene, its differences and their publication; the pipeline that evaluates grasps; and the job
queue of the user interfaces. The modules are checked with TLC on small instances and, where
section 5 says so, proved with TLAPS for every value of their constants.

Paths are relative to the repository. In this file
`TEM` stands for `moveit_ros/planning/trajectory_execution_manager/src/trajectory_execution_manager.cpp`,
`PE` for `moveit_ros/planning/plan_execution/src/plan_execution.cpp`,
`MA` for `moveit_ros/move_group/src/default_capabilities/move_action_capability.cpp`,
`PSM` and `CSM` for `planning_scene_monitor.cpp` and `current_state_monitor.cpp` in
`moveit_ros/planning/planning_scene_monitor/src`,
`PS` for `moveit_core/planning_scene/src/planning_scene.cpp`,
`MP` for `moveit_ros/manipulation/pick_place/src/manipulation_pipeline.cpp`,
`PLUGIN` for `moveit_plugins/moveit_ros_control_interface/src/controller_manager_plugin.cpp` and
`BP` for `moveit_core/background_processing/src/background_processing.cpp`.

Run a check with `tlc -config X.cfg M` and the proofs with `tlapm M_proofs.tla`.

Contents: 1 inventory, 2 modules, 3 runs, 4 bounds and fairness, 5 proofs, 6 what the code
does not do as documented, 7 what is not modelled, 8 plan.

## 1. Inventory

MoveIt is a library and one node, `move_group`. Requests arrive as actions and services; a
planning pipeline turns a request into a trajectory against a planning scene; plan
execution hands the trajectory to the trajectory execution manager, which splits it among
controllers and waits for them; monitors keep the scene and the robot's state current all
the while. Most of the 1300 files are geometry, kinematics, planners and user interface.
The control that is hard to test sits in a dozen classes.

### Modelled

**Background processing** (`moveit_core/background_processing`). State: a queue of jobs,
the flags `processing_` and `run_processing_thread_`, one mutex, one condition variable,
one worker. Operations: `addJob`, `clear`, `getJobCount`, the worker's loop, the
destructor. Used by the Rviz plugins and by robot interaction. Hard: jobs run with the
mutex released, events are posted with it released, and the destructor changes the run
flag and notifies without it. Correct when a count of zero means that nothing runs or
waits, each job has one fate and one report, jobs run in order one at a time, and the
object can be destroyed.

**Trajectory execution manager** (`TEM`). State: the pushed trajectories, the flag
`execution_complete_`, the last status, the handles in use, the index of the current
trajectory and its time index, the execution thread; two mutexes and one condition
variable. Operations: `push`, `execute`, `waitForExecution`, `stopExecution`, `clear`, and
the thread's `executeThread` and `executePart`. Called by the move_group actions (clear,
push, execute, wait), by a preempt callback and by the "stop" event (`stopExecution`).
Hard: the flag is read and written both with and without the mutex that guards it, stops
arrive at every statement of the execution thread, results arrive while status is being
read, and every failure of a controller leaves others running. Correct when nothing is
sent after a stop, every running goal can be reached by a stop, success is only reported
for what was executed, no goal outlives the part it belongs to, one execution at a time
drives the robot, and waiting ends.

**Action based controller handles** (`moveit_plugins/moveit_simple_controller_manager`).
State: `done_` and `last_exec_` of each controller, written by the sender, by whoever
cancels and by actionlib's callback thread without a lock. Operations: `sendTrajectory`,
`cancelExecution`, `waitForExecution`, `finishControllerExecution`. Hard: a result can
arrive before the sender has said that a goal is running, and `waitForResult()` can return
before the callback has run (actionlib issue 155, quoted in the header).

**Execute trajectory action** (`moveit_ros/move_group`). `executePath` is the client of the
execution manager (clear, push, execute, wait), its preempt callback a stopper.

**Selection of controllers** (`TEM`, same class, other half). State: `known_controllers_`
with a cached state and time for each, `manage_controllers_`. Operations: reload,
`updateControllerState`, `findControllers`, `selectControllers`, `configure`,
`ensureActiveControllers`, `ensureActiveControllersForJoints`. Hard: a cache of one second
on top of the plugin's own cache of one second; a greedy choice of controllers by size,
rank and activity; a switch that must keep every joint actuated. Correct when what is
selected can move the joints, what is held to be current is current, what was promised to
be active is active, and no joint loses its controller.

**ros_control interface** (`PLUGIN`). State: the managed and the active controllers as last
listed, and when. Operations: `discover`, `getControllersList`, `getControllerState`,
`getControllerJoints`, `switchControllers`. Hard: it decides from a listing which running
controllers must be stopped for others to start, while anyone else may load, unload,
start and stop controllers, and the listing may fail.

**Plan execution** (`PE`). State: the preempt request and the flags `new_scene_update_`,
`execution_complete_` and `path_became_invalid_`, shared without a lock by the calling
thread, the execution thread's callbacks and the scene's callback. Operations:
`planAndExecute` with its attempts, `executeAndMonitor`, `isRemainingPathValid`, the
callbacks for a finished part, the end of the execution and an update of the scene, `stop`.
Hard: flags are reset after the event they stand for may have come, and a request is
consumed by the thread that looks at it. Correct when nothing is executed that nobody
watches, an obstacle or a request stops the robot, success means that everything was
executed, and the loop ends.

**MoveGroup action** (`MA`). State: the goal of the action server, the goal that waits,
`preempt_requested_`. Operations: goal, cancel, preempt callback, planning only, planning
and executing, the result. Hard: the preempt callback is two statements that may fall
between any two of the goal's, and the goal it means may just have been replaced. Correct
when every goal is answered, and none with the preemption of another.

**Current state monitor** (`CSM`). State: the time of every joint, the state, the registered
callbacks. Operations: joint state messages, start, stop, waiting for a state newer than a
time. Hard: completeness and time are judged joint by joint, from messages of several
drivers in any order of stamps.

**Planning scene monitor** (`PSM`), two halves. *State updates*: the flag
`state_update_pending_`, handed around by the joint state callback, a timer, a planning
request and the owner who starts, stops and configures the monitor; correct when no reading
is forgotten, the scene is not older than its time, a request that returns true is served
and the scene catches up. *Publication*: callbacks change the maintained scene and announce
it; one thread publishes the scene or its differences, with the announcement, the stop and
the test of the thread under different mutexes or none; correct when what is maintained is
what the messages say, a subscriber ends with the same scene, announcements are taken up
and stopping ends.

**Planning scene, world and world diff** (`PS`, `moveit_core/collision_detection`). State: a
scene with a parent keeps a world of its own with a record of its changes and, of
everything else, what differs from the parent. Operations: collision objects, attached
objects, robot states, colours, collision matrix, `clearDiffs`, `pushDiffs`,
`decoupleParent`, diff messages out and in. Hard: long sequences of legal operations on one
object between two publications. Correct when the record covers every change, publishing
changes nothing that is shown, and the receiver of the differences has the same scene.

**Manipulation pipeline** (`MP`, with `PickPlan::plan` and `PlacePlan::plan`). State: the
queue of candidates, those that succeeded and failed, the flag `stop_processing_`, the
number of threads without work, the planning's `done_` and `pushed_all_poses_`. Operations:
start, push, the processing threads, stop, reprocessing the last failure, waiting. Hard:
idle threads are counted to recognise the end, candidates are pushed while others are
evaluated, the result of a stage and the code of its plan are tested apart, and the stop does
not take the mutex. Correct when no candidate is lost or evaluated by two threads, a failure means that all were tried, and waiting and stopping end.

### Left out

Each of these is listed in `PROJECT.json` with its reason: planning with sensing (a
sequential loop around the planner), the trajectory monitor (the same race as that of the
publishing thread), the collision matrix (one value in the models of the scene), the fake
controllers (for demonstrations), the other move_group capabilities (stateless services),
the occupancy map monitor, servo, robot interaction (candidates for small models), the
planning pipeline and its adapters (a sequential chain), MoveItCpp and the move group
interface (facades), the planners (OMPL, CHOMP, SBPL, TrajOpt, Pilz), collision detection,
robot model, robot state, trajectory processing, kinematics, constraints and samplers
(numerics over the reals), perception (OpenGL and sensor data), the Rviz plugins and the
setup assistant (user interface), warehouse, commander and benchmarks. The gripper command
handle and the simple controller manager differ from what is modelled in the goal they build
and the table they read.

### How the modelled components interact

```
 clients --goal/cancel--> MoveGroup action --planAndExecute/stop--> PlanExecution
                                                  |  ^ part and execution callbacks
                            push, execute, stop   v  |            scene updates
 execute_trajectory ---------------> TrajectoryExecutionManager         ^
   action, "stop" event                | executeThread                  |
                                       |  ensureActiveControllers --> plugin --> ros_control node
                                       v                                |
                                     handle --goal/cancel--> controller |
                                       ^------done callback-----'       |
                                                                        |
 joint states --> CurrentStateMonitor --onStateUpdate--> PlanningSceneMonitor --> maintained
 scene messages -----------------------------------------^    |                PlanningScene
                                              publishing thread --diffs--> other processes
```

`TrajectoryExecution` composes the manager with the handles and the goals behind them;
there, the choice of controllers is an external decision that may fail
(`configure`, `validate`, `activate`, `handle` in `Faults`). `ControllerSelection` composes
that decision with the plugin and the node; there, a call is one step. The two halves share
no state but `known_controllers_`, which the first never touches. `ExecutionManager` is what
the manager promises its users; `TrajectoryExecution` is shown to implement it and
`PlanExecution` is built on it. `MoveAction` composes plan execution with the action and its
server. `PlanningScene` holds the operations on scenes that `SceneDiff` (any sequence of
operations, publication as one step) and `ScenePublishing` (the threads) share.

## 2. Modules

| Module | Models | Extends |
|---|---|---|
| `JobQueue` | what the job queue promises: an abstract FIFO server with fairness | |
| `BackgroundProcessing` | the class, statement by statement where threads interleave | |
| `ControllerHandle` | a handle and the goal behind it, as operators on a record | |
| `TrajectoryExecution` | the manager with its callers, threads, handles and goals | `ControllerHandle` |
| `ExecutionManager` | what the manager promises the users of its callbacks | |
| `PlanExecution` | plan, execute, watch, plan again; on the abstract manager | |
| `MoveAction` | the MoveGroup action and its server around plan execution | `PlanExecution` |
| `RosControlInterface` | the plugin and the node it calls | |
| `ControllerSelection` | the choice and activation of controllers | `RosControlInterface` |
| `CurrentStateMonitor` | times and positions of joints, as operators and actions | |
| `StateUpdates` | from the joint states to the maintained scene | `CurrentStateMonitor` |
| `PlanningScene` | scenes, diff scenes and diff messages as values | |
| `SceneDiff` | a maintained scene, its parent and a replica | `PlanningScene` |
| `ScenePublishing` | the callbacks, the publishing thread and who starts and stops it | `PlanningScene` |
| `ManipulationPipeline` | the processing threads and the planning that feeds them | |
| `X_proofs` | theorems about module `X` | `X` |
| `MC...` | the finite sets the configurations use | the module after `MC` |

Variables have the names of the members they stand for (with their trailing `_`); the
program counters `pc`, `xpc`, `wpc`, `dpc`, `apc` say at which statement a thread is. An
operator `X_Something` next to a definition `X` is a deliberately wrong variant of it: replaced
for `X`, it makes TLC report the property named in `PROJECT.json` under `mutants`, which shows
that the property depends on that piece of code. `TypeOK` of a module says what its variables
range over.

**BackgroundProcessing.** Only the worker holds `action_lock_` for more than one statement
(`LockedSteps`); the critical sections of `addJob`, `clear` and `getJobCount` are single
steps enabled while the worker does not hold it. `TestRun`, `TestWait` and `Wait` are the
loops of BP:63-66; `Wait` releases the mutex, `SpuriousWakeup` is what a condition variable
may do; `TakeJob`, `JobReturns`, `StopProcessing`, `PostComplete` are BP:69-93.
`PostEvent` is the part of a call after its critical section, where a client reports ADD or
REMOVE. The destructor is three steps (`ClearRunFlag`, `NotifyWorker`, `Join`) because its
statements hold no lock. One callback is registered before the first job and never
replaced. `BackgroundProcessing` implements `JobQueue` under the mapping
`current <- IF wpc = "run" THEN fn ELSE NoJob`, the other variables by name.

**ControllerHandle.** A handle is a record of `done_`, `last_exec_`, the state of its goal
and the outcome that its callback has yet to deliver. `SendGoal` and `MarkSent` are the two
halves of `sendTrajectory`, because a result may come in between. actionlib calls its
callbacks under the lock that `sendGoal()` and `cancelGoal()` take, so those wait for a
pending callback; this and the life of a goal are external and modelled from their use.

**TrajectoryExecution.** A caller's `pc` runs through `push`, `execute` and
`waitForExecution` for a client and through `stopExecution(true)` for a stopper; a client's
`execute` begins with `stopExecution(false)`, which is the same actions with another
return address (`back`). `xpc` runs through `executeThread` and `executePart`. A trajectory
is the sequence of controllers that execute its parts, empty for a trajectory without
motion. Decisions worth knowing:

- The members that threads share without a lock (`execution_complete_`,
  `last_execution_status_`) are read and written in single steps that are sequentially
  consistent; every read that another thread could separate from the write it leads to is a
  step of its own. Torn values are not modelled.
- Mutexes have no variables: `StateMutexFree` and `ThreadMutexFree` are derived from where
  the threads are. A critical section that contains no call of another component is one
  step (`PublishHandles` is TEM:1123-1153, up to the first send).
- `context` in `x` is the reference of TEM:1112, kept as a value: `trajectories_` only
  changes underneath it by the late `clear()` of section 6 (4), which the model does not
  follow into freed memory.
- Actions outside the program: `GoalEnds`, `DoneCallback` and what `Faults` and `Races`
  allow. `Races` names three timings: `fast`, a result arrives before `sendTrajectory`
  has returned; `lag`, a result is seen before its callback ran; `tie`, a wait
  times out while the clock stands exactly at the limit (TEM:1270), as simulated
  time does.
- `auto_clear` is TRUE, the default all callers use. Waiting for the robot to stop
  (TEM:1089-1090) is one step that always ends.

It implements `ExecutionManager` under the mapping at its end: an execution begins when the
client is about to create the thread and lasts as long as the thread; the part that controllers
execute is `current_context_`; a part has begun once the thread is past its tests.

**PlanExecution.** `pc` runs through `planAndExecute`, its helper and `executeAndMonitor`, one
step for each test of a flag; the manager and its callbacks are the actions of `ExecutionManager`
with the side effects of `successfulTrajectorySegmentExecution` and
`doneWithTrajectoryExecution`. `bad` is the set of components that collide in the monitored
scene; `ChangeScene` sets it, `planningSceneUpdatedCallback` announces it later. When the goal
has a scene diff, plans are made and checked against a copy (`snapshot`), in which later
obstacles do not appear (PE:128). `Foreigners` are the other users of the manager: somebody
stops its execution, or clears it between `push` and `execute`. `must_stop`, `dropped`,
`foreign` and `broken` are history variables: `dropped` records the three places of section 6
where the code loses an update, a verdict or a request, so that a property can say that no
other place does.

**MoveAction.** The action server is external: it queues one goal, calls the preempt callback
with its lock held for a goal that is canceled or replaced, and takes the same lock to set a
result. `BeginPreempt` and `EndPreempt` are the two statements of the callback (MA:241, 242).

**RosControlInterface** and **ControllerSelection.** Controllers are numbers in the order of
their names; `claimed_resources` maps them to joints. A public call is one step during
which the clock stands still; `Tick` lets the caches grow old. `discover` reads the node at
most once a second unless forced; `known_controllers_` trusts what it read for a second, so
after a change nobody told the manager about, up to `Settled == 2 * ValidityAge - 1` ticks
pass before a reading must be right: `quiet` counts the ticks since such a change,
`overruled` those since the plugin stopped a requested controller by itself. `ensured` is
what the last call promised. Choices the code
leaves to the order of a sort with equal ranks are nondeterministic (`Best`). The node is
external: it switches as requested with strictness STRICT, all or nothing, and answers
`list_controllers` truthfully or, when the service call fails, with an empty response. Others
load, unload, start and stop its controllers. `Unloaded` are those that the manager still
knows and the node no longer has: it lists controllers again only when it finds none for a
trajectory or does not know a requested one (TEM:878, 893), and the plugin leaves an unloaded
one out of the request it sends (PLUGIN:338-339).

**CurrentStateMonitor** and **StateUpdates.** A message is a sequence of joints with one stamp;
the number of the message is the position it gives. `Stamp` is CSM:355-365: a stamp that is
not newer than the joint's forgets all times. Threads are the subscription, the timer, one
request and the owner; `due` is what a thread computed from the clock before it took the
lock. `ReadTime` and `CopyState` are the two halves of `updateSceneWithCurrentState()`, which
hold the scene's mutex and take the monitor's lock once each. `stamped` is the state when the
scene's time was read, `known` the state that satisfied the request, `dropped` that a stop
threw a pending update away.

**PlanningScene.** A complete scene is a record of joints, attached objects, world, colours
and collision matrix; what an object looks like is a number. A diff scene (`DiffScenes`) has
its own world with `changes`, the action `WorldDiff` keeps for each object: CHANGE stands for
CREATE and its combinations, DESTROY overrides and is overridden. The operators have the order
of statements of the code where it shows: `setPlanningSceneDiffMsg` attaches, detaches and
only then changes the world; `pushDiffs` pushes the colours of attached objects before it
applies the removals. `SetState` is `setCurrentState` with joint values: a message that is not
a diff drops what was attached (`moveit_core/robot_state/src/conversions.cpp:367-370`), and
the objects it lists are attached, with their own geometry or with that of the world.

**SceneDiff.** One maintained scene with its parent and one replica in another process. Every
operation puts a new number into the scene; `Publish` is PSM:378-393 together with the
application of the message by its receiver; `Recouple` is a stop and a start of monitoring.
`dropped` are the objects that a robot state took off the robot and no message has told of.

**ScenePublishing.** The publisher's steps between the test and the reset of
`new_scene_update_` hold `scene_update_mutex_` (`Locked`), waiting does not;
`triggerSceneUpdateEvent` is a read and a write of `new_scene_update_` under another mutex.
`expected` is one plain scene to which every message is applied, for comparison. Three
history variables record such behaviour of the code: `diverged` (the subscriber was left behind,
by a race or because a robot state dropped an object that the parent had attached),
`missed` (a notification between test and wait), `ghost` (an edit of a scene that shows the
old world). `subscriber` applies each message when it is sent.

**ManipulationPipeline.** A worker holds the mutex from its test of the queue to its wait
(`"tested"`); `SignalStop` does not take it, which `missed` records. A stage is any outcome:
the plan goes on, fails, or the stage throws. MP:176 looks at the result of the stage and
MP:186 at the code of the plan, which the last stage can leave at SUCCESS although it failed:
the plan is then recorded as failed (`EndStage`) and as a success (`SucceedFailed`), and as
`contradicted` in the model. `early` records that the empty queue was
reported before all candidates were said to be pushed.

## 3. Runs

Sizes are distinct states; times are for two workers.

| Run | States, time | Question | Properties |
|---|---|---|---|
| `bp_queue` | 9 000, 2 s | Does the worker lose, repeat or reorder jobs when two callers add and clear and the object is destroyed at any moment? | `ZeroMeansIdle`, `OneFate`, `ImplementsJobQueue`, `EveryJobIsReported` |
| `te_stops` | 1 850 000, 43 s | What can two stops, at any two moments of an execution of up to two trajectories with every failure, leave behind? | `NoGoalAfterStop`, `RunningIsCancellable`, `NothingRunsAfterPart`, `ImplementsExecutionManager` |
| `te_rounds` | 1 680 000, 37 s | What can a stop do when it straddles two executions? | `OneExecution`, `StopIsNotForgotten` |
| `te_nostop` | 541 000, 59 s | Without stops, is the outcome of an execution reported truthfully and always? | `SuccessMeansExecuted`, `WaitEnds` |
| `te_live` | 158 000, 41 s | Do stops and waits end although controllers need not answer? | `StopEnds`, `StartedWaiterWakes` |
| `cs_select` | 416 000, 120 s | Are controllers chosen, read and switched correctly while others load, unload and switch controllers and calls fail? | `ReadingsAgree`, `EnsuredIsActive`, `ConfigureFindsActive`, `JointsStayActuated` |
| `ma_goals` | 1 630 000, 167 s | Two goals, cancels, a changing scene, failures and another user of the manager: who is stopped, answered, and with what? | `NothingRunsUnwatched`, `ObstacleIsNoticed`, `SuccessIsWhole`, `OwnPreemptionOnly`, `RequestIsFinal`, `GoalIsAnswered`, `CanceledGoalIsAnswered` |
| `st_sync` | 2 200 000, 89 s | Does every position the robot reports reach the scene, whatever throttles, asks, stops and configures? | `NoReadingIsForgotten`, `SceneCoversItsTime`, `SyncIsFreshOrInFlight`, `SceneCatchesUp` |
| `sd_replica` | 2 363 000, 75 s | Does a scene that is sent as differences arrive as it is? | `ChangesAreRecorded`, `ReplicaFollows`, `PublishingKeepsScene` |
| `psm_race` | 1 675 000, 197 s | ... and when callbacks, full messages, publisher, start and stop interleave? | `MaintainedIsExpected`, `SubscriberFollows`, `AnnouncedIsTakenUp`, `StopReturns` |
| `mp_plan` | 312 000, 40 s | Is no grasp lost, or given up halfway when planning fails, and does the planning end? | `PlanIsInOnePlace`, `FailureMeansAllTried`, `WaitEnds`, `StopReturns` |
| `sd_colors` | finds a violation | Does an attached object keep its colour? | `AttachedKeepsColor` |

What the properties say, beyond their names:

- `ZeroMeansIdle`: `processing_` is set under the mutex and cleared without it, so the count
  read under the mutex can err in one direction only, and it is the safe one.
- `NoGoalAfterStop` is an action property over the flag and the goals: a goal starts only in
  a step in which `execution_complete_` is FALSE. It depends on the second test of the
  flag (TEM:1124), under the mutex, and on that mutex being held while all parts are sent.
- `RunningIsCancellable` relates the goals of the action servers to `active_handles_` at
  every state, including those inside `sendTrajectory` and after the failure of part *i* when
  parts 1 to *i-1* run.
- `NothingRunsAfterPart` counts a goal that was asked to stop as not running on its own
  account: how long a controller takes to obey is its own business.
- `ImplementsExecutionManager`: parts one after the other, each reported once and before the
  next begins, none begun after a stop, the end reported when nothing goes on. This is what
  `PlanExecution` relies on.
- `StopIsNotForgotten`: between the stop and the end of `executePart` no step turns the
  status into SUCCEEDED. A failure may still overwrite PREEMPTED (see the hazards).
- `StartedWaiterWakes` is what remains of `WaitEnds` in the presence of stops: the wakeup is
  only lost when the stop comes before TEM:1061.
- `ReadingsAgree` and `EnsuredIsActive` hold `Settled` ticks after the last change nobody told
  the manager about; the manager's own switches are visible at once, which depends on
  resetting the cached state of everything it deactivates and activates (TEM:1514-1521). What is promised but unloaded (`Unloaded`) is
  excepted, for as long as the manager knows it: the property says that a true answer is wrong
  in no other way. `ReadingsAgree` has no such exception.
- `ConfigureFindsActive`: a manager without the right to switch finds a selection of active
  controllers whenever one exists, although `findControllers` looks at one size at a time.
- `JointsStayActuated`: a switch replaces what it deactivates by controllers that cover the
  joints it took away, unless the plugin overruled the manager or the replacement had been
  unloaded (section 6).
- `NothingRunsUnwatched`: whatever made the loop of PE:389 end, the execution has come to its
  end before planning begins again or the goal is answered; it depends on the three
  conditions of PE:411.
- `ObstacleIsNoticed` follows an announced obstacle in the current component until a flag
  that stops the execution is up, through the consumption of the update, the check and the
  callback of the part before. Its exceptions are those in `dropped`, and goals with a diff.
- `RequestIsFinal`: after a request was consumed no new execution begins, over all
  attempts; `OwnPreemptionOnly`: the two places that hold a request, `preempt_requested_` and
  `preempt_`, are reset at times when they can only hold one of the goal that is over.
- `SuccessIsWhole` relates the code of the answer to the components that were reported and
  to side effects that failed.
- `NoReadingIsForgotten` is the invariant behind `state_update_pending_`: who clears the flag
  updates the scene, and who finds it cleared may rely on that.
- `SyncIsFreshOrInFlight` is what `waitForCurrentRobotState()` (planning_scene_monitor.h:389)
  can promise, see section 6.
- `ReplicaFollows` is about pairs of operations that a message must not confuse: attached and
  removed, removed and added again, attached and detached between two publications. It
  excuses `clash`, one id for an attached object and one of the world, and what is attached to
  the replica on top because a robot state dropped it (`dropped`); everything else is equal.
- `MaintainedIsExpected`: starting, publishing and stopping never change what the maintained
  scene shows, and what it shows is what the messages make of one plain scene.
- `FailureMeansAllTried`: when planning reports a failure in time, every candidate is in
  `failed_` or its stage threw; a plan that is in `success_` as well makes the answer a success.
  It depends on counting idle threads exactly, and on
  `pushed_all_poses_` being set after the last push.
- `PlanIsInOnePlace` has one exception, the plan of a failed last stage with the code SUCCESS:
  besides its place, which is `failed_` or wherever the second round takes it, it is a success.
- The leads-to properties name the history variable of the race that is their only exception.

`sd_colors` checks what a comment of the code and a test say (section 6).

## 4. Bounds and fairness

**Bounds.** *Execution.* `MaxPushed` trajectories per execution, `MaxExec` executions,
`MaxStops` calls by each stopper; `MaxDisturbances` controllers started, stopped or unloaded by others or calls that fail
(loading one is not counted);
everything else is finite by itself. Two controllers are the least for which a part can fail, be
stopped or time out *between* others; two trajectories are the least for which the loop of
`executeThread` goes round; two executions are the least for which a stop, a join or a clear
can fall into the wrong one, and a third adds nothing a property distinguishes because an
execution leaves only `execution_thread_`, the flag, the status and the handles to the next
one. Two stops are the least for which one finds the other's work half done. The product
of all of these is too large, so `te_stops` takes two trajectories and one execution,
`te_rounds` one trajectory and two executions, each with all the interleavings of its kind.
`te_live` has a single controller because its properties are about each loop ending,
whatever its length. Three jobs are the least for which the order of two queued ones
matters while a third runs. Four managed controllers over three joints are the least for
which combinations of different sizes compete, a switch leaves a joint uncovered and the
replacement conflicts with a controller that stays; the fifth is not managed. There are
two layouts of joints, one of which overlaps through every kind of pair. One disturbance is
enough for a known controller to be unloaded before a call that counts on it. `ValidityAge = 2`
lets a change fall inside and outside a cache period, for each of the two caches in turn.

*Plan execution.* Two components are the least for which there is a next one to be checked
and a moment between two; two attempts let a request or an obstacle fall into either; two
goals and one cancel let a request belong to the wrong goal, and the second goal itself
preempts the first. One change of the scene per goal can be any set of blocked components, at
any moment, and be announced at any later one.

*Scenes.* `st_sync`: two joints, messages for one or both with stamps 1 and 2 in any order, so
that stamps repeat and go back; two commands of the owner, so that a stop can follow a change of
the frequency; one request. `sd_replica`: two objects, because pushing and sending treat
objects one by one but a world message and `RemoveAll` do not; five operations, because a
publication between an object's creation and its attaching, detaching and removal needs four
(the publication itself is not counted).
`psm_race`: one object, two callbacks, two changes and two starts, publishing everything or
only geometry; the robot states (`MCRobotStates`) are joint values alone and a state that
drops what is attached, while `sd_replica` has all of them; two changes are the least for which one can be announced while the other is
published. `mp_plan`: three workers, so that one can be idle and one be counted again while the third
finds a solution; two candidates, so that one fails, throws or waits while the other succeeds,
and the last failure is not the only candidate; two stages, so that a stop falls between them
and only the last can leave the code SUCCESS.

All runs of `TrajectoryExecution` have one client. With two clients (the two action servers of
move_group) the unsynchronised `clear`, `push` and `execute` overwrite each other; `MoveAction`
has the second one as `Foreigners`.

**Timings.** `te_stops` allows `fast` and `lag`, `te_live` all three. `te_rounds` and
`te_nostop` leave out `lag`, because TEM:1295 and TEM:1299 read the status of a handle twice
and a callback in between turns a failure into success, against `StopIsNotForgotten` and
`SuccessMeansExecuted`; `tie`, with which a goal can outlive a wait that timed out
(`NothingRunsAfterPart`), is in `te_live` only. Both are listed as hazards at those lines.

**Fairness.** Weak fairness of each thread, as the operating system's scheduler provides:
for the worker, for a call that has begun (`PostEvent`, `execute`, `stopExecution`), for
each execution thread, for the thread that delivers callbacks, for the MoveGroup action and
its preempt callback, for the callbacks that announce a scene and the publisher, for the
processing threads and the planning that waits for them. Nobody has to begin a call, to
change or publish a scene, to destroy an object or to wake up spuriously. A job returns, a
stage of the pipeline ends; that is part of their contract. A controller has to end its goals
only where durations are not monitored (`Monitoring = FALSE`); where they are, a controller
may never answer and `WaitTimesOut` is a fair step of the thread, as
`waitForExecution(duration)` returns by the clock. `PlanExecution` takes from the manager that
an execution ends, which `te_live` shows. `ManipulationPipeline` assumes no time-out: its
waits must end by the work of the threads. The one strong fairness is that of `TimerFires(TRUE)`
in `StateUpdates`: a timer whose period is `dt_state_update_` finds, again and again, that this
time has passed since the last update; messages may postpone the update but not for ever.
Locks are not assumed fair beyond this: nothing in the checked runs needs a thread to get a
mutex that is again and again taken away from it.

**Deadlock.** The runs but those of `SceneDiff` say `CHECK_DEADLOCK FALSE`: with the
executions, goals, messages and jobs of the bounds used up, the system rests. That nobody rests
inside a call is what the leads-to properties say. Two systems can also rest in the middle of a
call, because a notification is lost: `stop()` of the manipulation pipeline and
`stopPublishingPlanningScene()`, see section 6.

## 5. Proofs

Checked by `tlapm` with SMT, Zenon and LS4, with nothing omitted. The theorems hold for
every value of the constants that the named assumptions allow: any jobs and callers, any
controllers and trajectories, any number of clients, stoppers, workers, candidates, joints,
objects, goals and messages, every failure and every timing.

| Module | Theorem | States |
|---|---|---|
| `BackgroundProcessing_proofs` | `TypeCorrect` | `Spec => []TypeOK` |
| | `ZeroMeansIdleAlways` | `Spec => []ZeroMeansIdle` |
| | `OneFateAlways` | `Spec => []OneFate` |
| | `Refinement` | initial states and steps of the class are those of `JobQueue` or stutter |
| `TrajectoryExecution_proofs` | `TypeCorrect` | `Spec => []TypeOK` |
| | `NoGoalAfterStopAlways` | `Spec => NoGoalAfterStop` |
| | `OneExecutionAlways` | `OneClient` implies `Spec => []OneExecution` |
| | `RunningIsCancellableAlways` | `OneClient`, no "tie": `Spec => []RunningIsCancellable` |
| | `NothingRunsAfterPartAlways` | `OneClient`, no "tie": `Spec => []NothingRunsAfterPart` |
| | `StopIsNotForgottenAlways` | `OneClient`, no "tie" and no "lag": `Spec => StopIsNotForgotten` |
| | `Implementation` | `OneClient` implies `Spec => ImplementsExecutionManager` |
| | `SuccessMeansExecutedAlways` | `OneClient`, no stopper, no "tie" and no "lag": `Spec => []SuccessMeansExecuted` |
| `ControllerSelection_proofs` | `TypeCorrect` | `Spec => []TypeOK` |
| | `ReadingsAgreeAlways` | `Spec => []ReadingsAgree` |
| | `EnsuredIsActiveAlways` | `Spec => []EnsuredIsActive` |
| | `JointsStayActuatedAlways` | `Spec => JointsStayActuated` |
| | `ConfigureFindsActiveAlways` | `Spec => ConfigureFindsActive` |
| `MoveAction_proofs` | `TypeCorrect` | `Spec => []TypeOK` |
| | `NothingRunsUnwatchedAlways` | `Spec => []NothingRunsUnwatched` |
| | `ObstacleIsNoticedAlways` | `Spec => []ObstacleIsNoticed` |
| | `SuccessIsWholeAlways` | `Spec => []SuccessIsWhole` |
| | `OwnPreemptionOnlyAlways` | `Spec => []OwnPreemptionOnly` |
| | `RequestIsFinalAlways` | `Spec => RequestIsFinal` |
| `StateUpdates_proofs` | `ReadingsTheorem` | `Spec => []NoReadingIsForgotten` |
| | `SceneTimeTheorem` | `Spec => []SceneCoversItsTime` |
| | `SyncTheorem` | `Spec => SyncIsFreshOrInFlight` |
| `SceneDiff_proofs` | `ChangesTheorem` | `Spec => []ChangesAreRecorded` |
| | `ReplicaTheorem` | `Spec => []ReplicaFollows` |
| | `PublishingTheorem` | `Spec => PublishingKeepsScene` |
| `ScenePublishing_proofs` | `TypeCorrect` | `Spec => []TypeOK` |
| | `MaintainedIsExpectedAlways` | `Spec => []MaintainedIsExpected` |
| | `SubscriberFollowsAlways` | `GeometryIsPublished` implies `Spec => []SubscriberFollows` |
| `ManipulationPipeline_proofs` | `TypeCorrect` | `Spec => []TypeOK` |
| | `OnePlaceTheorem` | `Spec => []PlanIsInOnePlace` |
| | `AllTriedTheorem` | `Spec => []FailureMeansAllTried` |

The assumptions are the `ASSUME`s of the modules, which TLC evaluates in every run.

**BackgroundProcessing** (275 obligations). Neither `ZeroMeansIdle` nor `OneFate` is
inductive. `IInv` adds `ProcessingInv` (the flag is up exactly from taking a job to its
return), `TakenInv` (the worker holds a job exactly at the steps that use it, and that job
is nowhere else), `EventsInv` (what was or will be reported agrees with what happened,
including the reports a caller has still to post after releasing the mutex) and `QueueInv`
(no job is queued twice or queued and known elsewhere). `ZeroMeansIdle` follows from
`ProcessingInv` and the length of an empty sequence; `OneFate` from the other three.
`Refinement` needs the invariant where the worker takes a job: the abstract server must be
idle then. That the class also implements the *fairness* of `JobQueue` is checked by TLC
only.

**TrajectoryExecution** (3735 obligations). `IInv` is `TypeOK`, `LoopInv` (the loops that look
at a handle are within the copied handles: without it the type of a handle could not be
derived) and `SendInv`: at a step inside the sending loop, `execution_complete_` is FALSE.
`SendInv` is the reason why a stop is final. It is inductive because the flag is only set
under `execution_state_mutex_`, which the sending thread holds at just these steps: by a stop
(`StopMark`), at the end of a thread (`MarkComplete`), both enabled only while the mutex is
free. `GoalStep` then shows that only `SendPart` can make a goal active, and `Invariance`
lifts it to the action property. `TypeCorrect` and `NoGoalAfterStopAlways` need no hypothesis.

The other theorems are about a manager used by one client and any number of stoppers
(`OneClient` is a hypothesis of the theorem, not an assumption of the module; of two clients
that push at once, as two action servers on one manager may do, nothing is claimed). `OneExecution` rests on `ThreadInv`:
`ClientInv` says that outside the span from creating the thread to the end of the wait the
client finds `execution_complete_` set, so that the test of TEM:954 sends it to the join of
TEM:985-993, and that between this join and the creation of a thread there is none; `LiveInv`,
that a thread that lives is the one `execution_thread_` knows; `StopperInv` keeps the positions
of stoppers apart from those of clients.

`RunningIsCancellable` and `NothingRunsAfterPart` follow from `CancelInv`. `GoalInv` is the
link from what runs to who looks after it: an active goal belongs to a handle of a thread
that has published it in `active_handles_` and has not come past it in its waits (`WaitsAt`
says for each position which handles these are). `StoppedInv`: when the execution is complete,
an active goal is about to be canceled by somebody at TEM:963, and `MutexInv`: not while goals
are sent. `HandleInv`: an active goal has a handle that is not done, without which
`cancelExecution()` would not cancel it. The timing "tie" is excluded: a wait that times out
at the very limit gives the part up while its goal runs (6.7), and both properties are false.

`StopIsNotForgotten` needs `ForgetInv`: what was sent in a part and is canceled was canceled
by a stop (`CancelingInv`), and a handle found to have failed stays so (`FailedInv`), which is
false when the callback may come after the return of `waitForResult()` ("lag"), TEM:1299.
`Implementation` shows initial states, every step and, with the fairness left to TLC, the
whole safety of `ExecutionManager`; `ManagerInv` relates the abstract part index, thread and
reports to the positions of the client and the thread. `SuccessMeansExecuted` follows the
result of a part through the waits (`JudgedInv`), the parts through the loop of TEM:1075-1095
(`ProgressInv`) and the end of the thread to the client that waits (`EndedInv`); with a stopper
it is false (6.3).

**ControllerSelection** (1112 obligations), and with it `RosControlInterface`. No theorem has a
hypothesis. A controller is read through two caches, each of which is trusted for `ValidityAge`
ticks: that of the plugin (`PluginOK`) and that of the manager (`KnownOK`). The invariant says
how old a wrong entry may be: the plugin's reading is right if it was made after the last
disturbance, and an entry of `known_controllers_` whose age is a, read from a plugin that may
have been a period behind, is right once the disturbance is a period and a ticks ago. Both
together are `ReadingOK` of a record of the two, because a call of the manager reads and
switches several times and each lemma says what one of its steps makes of the record:
`updateControllerState` and `selectControllers` keep it whatever the order in which
controllers are looked at, and a switch that succeeds makes the manager and the node agree on
all managed controllers it touched, unloaded ones included: the plugin reports what it does not
list as not active. Loading and unloading disturb no reading, for only what does not run can be
unloaded. `EnsuredIsActive`, which excepts `Unloaded`, is part of the invariant; `JointsStayActuated`
follows from what `ensureActiveControllers` adds to a switch (`Uncovered`).
`ConfigureFindsActive` adds `NodeInv`: the node runs no two controllers that claim one joint, so
that the active controllers that can move the joints are themselves a combination; and a manager
that may not switch was never overruled. `ActiveLemma` then follows `selectControllers` through
the sizes: if there is an active combination, either one of the least size is chosen or the
least size above it that has one is reached (`LeastLemma`, `BestLemma`). These need finitely many
managed controllers and joints, which the module assumes: they are the entries of vectors.

**MoveAction** (1331 obligations), and with it `PlanExecution`. Each conjunct of `IInv` has a
lemma of its own with a case for each action that disturbs it. `ManagerInv` ties the index of
the manager to the parts that were reported, `WatchInv` strengthens `NothingRunsUnwatched`:
while an execution goes on its end has not been noted, so that PE:411 cannot take it for over.
`NoticeInv` follows an obstacle from the plan on, before any part has begun, for the part that
may begin without another look (`Current`); `ObstacleIsNoticed` is the case of a part that is
executed. `RequestInv` says where a request is from the moment it must stop the plan:
pending, taken by the local `preempt_requested`, turned into the code PREEMPTED, or dropped;
at the one step that begins an execution only two of these are possible, which is
`RequestIsFinal`. `WholeInv` carries the number of reported parts from the manager over the
status and the flag to the code of the answer, `BrokenInv` makes a failed side effect a
request. `ActionInv` ties the server's goal to the position of the action, and `OwnInv` says
that what the plan knows of a preemption is of this goal.

**StateUpdates** (345 obligations). `NoReadingIsForgotten` and `SceneCoversItsTime` are
inductive together with `Types` (the few types the
argument needs) and `Past` (a position is the number of the message that brought it, so what is
known elsewhere is not newer than the state). The lemmas go by who acts: the callback of the
joint states, the timer, a request, the owner's calls. The whole `TypeOK` is out of
reach: a message is taken up joint by joint by a fold, and what a fold computes cannot be
proved here.

**SceneDiff** (631 obligations). The invariant is `Recorded` (the
record of an object agrees with its presence in the two worlds), `Tracked` (while no id is used
twice, a record says what became of an object that is attached in the parent, unless a robot
state dropped it) and
`ReplicaFollows` itself: the replica is the parent after each publication. The argument goes
object by object: an operation on one object of the world leaves the others alone (`Touched`)
and keeps `Recorded` and `Tracked` (`Keeps`), a robot state up to the objects it drops;
publishing such a scene makes the parent equal to what is shown, and the replica too but for
the objects in `dropped`.

**ScenePublishing** (2507 obligations). The diff scene, its parent and the scene of the subscriber
change at different times, so the invariant says what each may lack. `Maintained`: the scene
shows what is expected, unless it is stale, and then the parent is what is expected, there are no
diffs, and a message that replaces all is announced or about to be. `Followed` has the rest:
`Recorded` and `Tracked` as in `SceneDiff`; a difference from the parent (`Clean`) has an
announcement on its way, although the bits are reset without regard to what was announced since
the test; and what the subscriber lacks of the parent has a record, so that the next message
tells of it (`Lag`). It speaks of `Replica`, the subscriber after the message that is composed,
because `pushDiffs()` and `publish()` are steps with callbacks in between. `Composed` says that
a scene is not changed from the message to the reset. Two facts carry the proof: the effect of a
change depends only on what a scene shows (`Effect`), so that a change of the diff scene and the
same change of the expected scene agree (`CommutesLemma`), and a change that detaches an object
leaves a record of it (`Told`) unless it is a robot state, which raises `diverged`; and the message does to a scene that
lags behind what `pushDiffs()` does to the parent (`PublishLemma`). `GeometryIsPublished`, every
choice of clients contains the geometry, is a hypothesis of the last theorem: a client that does
not ask for objects is not told of them, and the property is false then.

**ManipulationPipeline** (1252 obligations). `WorkersInv`: a worker is counted in
`empty_queue_threads_` from its test to the next plan it finds, and one that has found a
solution is not followed by a failure. `ClientInv`: `pushed_all_poses_` means that nothing is
left to push. `RoundInv`: in the first round no candidate was dropped until a stop, and
`done_` means success or that all were tried. The core is `EmptyLemma`: when the last worker
is counted, every candidate is in `failed_` or its stage threw. `PlanIsInOnePlace` is
inductive with the types; `MoveLemma` is the one fact about moving a candidate from one place
to another. A contradicted success is left out of the places, so that it moves nothing.

**Only model-checked.** All liveness, and with it every property about what is answered, ends
or is taken up. The type invariants of `StateUpdates` and `SceneDiff` are stated in the modules;
TLC finds them true on the instances of section 3 when they are added to the configurations as
`INVARIANT`.

## 6. What the code does not do as documented

`sd_colors` reports a disagreement between the code and what is said of it:
`getPlanningSceneDiffMsg()` and `pushDiffs()` are to carry the colours of attached objects
(PS:416, `moveit_core/planning_scene/test/test_collision_objects.cpp:152`), but the colours are
pushed before the removals of the world's diff, and an object that has just been attached is
such a removal, which takes its colour away again (PS:443). A scene that gets its differences
that way shows the object without its colour.

The other models *contain* the behaviours below, and their properties are stated around them:
the condition, or the history variable, that a property excuses is the behaviour.

*Background processing and execution.*

1. **A destructor that hangs.** `~BackgroundProcessing` clears the run flag and notifies
   without the mutex (BP:54-55). A worker that has evaluated the condition of BP:65 and not
   yet begun to wait misses the notification; `join()` waits for ever.
2. **A lost wakeup.** `stopExecution` sets `execution_complete_` without notifying, and a
   thread that finds the flag set on its first test (TEM:1061-1067) returns without
   notifying. A client that was already asleep in `waitForExecution` stays asleep.
3. **Success for nothing.** A stop between that first test and TEM:1071 sets PREEMPTED, which
   TEM:1071 overwrites by SUCCEEDED; `executePart` returns without setting a status, and the
   client and the callback are told SUCCEEDED.
4. **Clearing the next execution.** `stopExecution(true)` clears after it has joined and
   forgotten the thread (TEM:975-980). A client may be past its test for empty trajectories
   (TEM:1007) by then and not yet have reset the flag (TEM:1026), so that its trajectories
   are deleted; the thread then reads `trajectories_[i - 1]` with `i = 0` (TEM:1090), which
   TEM:1005-1006 means to prevent.
5. **A promise undone.** The controllers added to keep joints actuated (TEM:1488-1510) are
   compared with those to be activated, not with requested ones that are active already.
   The plugin stops the latter (PLUGIN:346-350), the switch succeeds and
   `ensureActiveControllers` returns true.
6. **Conflicts overlooked.** `resources_bimap` (PLUGIN:306) maps a controller to one
   resource, so that of an active controller with several joints only the first is found. A
   conflicting controller that MoveIt does not manage is then left running and the whole
   switch is refused. Conversely, a controller that others unload stays in `known_controllers_`
   until the list is read again, which only a trajectory without controllers or an unknown
   request causes: the plugin drops it from the controllers to start without a word (PLUGIN:338-339), stops what conflicts
   and returns true, so that `ensureActiveControllers` promises a controller that is gone and
   joints may lose theirs.
7. **Smaller ones.** The double read of a handle's status (TEM:1295, 1299), the goal that
   outlives a tie of the clock (TEM:1270), the part reported as complete although it was
   skipped (TEM:1118-1124), PREEMPTED overwritten by a later failure (TEM:1319), `std::includes`
   on an unsorted range (TEM:1541), and a failed listing after which
   `ensureActiveControllers` returns true (PLUGIN:119).

*Planning and executing.*

8. A request that arrives between the action's test and PE:137 is cleared; one that is consumed
   when the path is invalid as well is forgotten in its favour (PE:440), and the canceled goal
   is planned and executed again, against plan_execution.h:165.
9. A verdict of the part callback may come before PE:386 resets it, and an update of the scene
   that is consumed while no part is current counts as valid without a look (PE:393, 396).
10. For a goal with a scene difference the plan is made and watched in a copy (PE:128): what
    changes in the maintained scene is not seen.
11. When another client empties the manager between `push` and `execute`, `execute` returns
    without calling the callback the loop of PE:389 waits for.
12. A side effect that fails after the last part still leaves SUCCESS (PE:488-495).

*Knowing the state and the scene.*

13. `waitForCurrentRobotState()` can return true with an older state in the scene, when the
    callback has released the lock of the state and not yet raised the flag (PSM:930, against
    planning_scene_monitor.h:389).
14. Stopping the state monitor drops a pending update (PSM:1176), and every start registers the
    callback once more (PSM:1142).
15. A joint state that is not newer than the last forgets the times of all joints (CSM:360), and
    a joint that was never read does not count for the current time (CSM:100).
16. An announcement between the publisher's test and PSM:416 is swallowed; a publication that
    has become a mere state update (PSM:379) pushes and clears attached objects that it did not
    send; the first full message is sent without the lock and without a push (PSM:351).
17. The publisher misses a notification sent between its test and its wait (PSM:477), so that
    `stopPublishingPlanningScene()` joins a thread that sleeps; and it may end at once because
    it tests a pointer that is set after it was created (PSM:336).
18. The differences are cleared before the parent has the full message (PSM:587): until then
    the maintained scene shows the old world.
19. One id for an object of the world and an attached one is not kept apart in a diff message
    (PS:1662). A robot state that is not a diff drops the attached objects, of which no world has
    a record: the next diff message carries no removal for them (PS:718 covers only those that
    show up in the world) and its receivers keep them on the robot. Without joint values such a
    state drops nothing at all (`conversions.cpp:356-360`), though geometry is announced (PSM:634).

*Pick and place.*

20. A worker between test and wait misses `signalStop()` (MP:125), so that `stop()` joins a
    sleeping thread. An empty queue that is noticed while candidates are still to be pushed is
    reported to nobody (MP:153), and planning waits until its time is over.
21. A plan whose last stage fails with the code SUCCESS, as planning does when an adapter fails
    after the planner (plan_stage.cpp:115, add_time_optimal_parameterization.cpp:72-77), is in
    `failed_` and in `success_` (MP:179, 191): pickup reports SUCCESS with a plan that lacks its
    pre-approach trajectory (plan_stage.cpp:108). A second round that succeeds leaves the code
    PLANNING_FAILED; an exception in a stage drops the candidate. The preempt callbacks of
    the pickup and place actions are empty (pick_place_action_capability.cpp:405-411).

## 7. What is not modelled, inside the modelled components

- The computation of time stamps, durations, start state tolerances and the splitting of a
  trajectory among controllers (`distributeTrajectory`, `validate`): their outcome is a
  failure or none.
- Replacing the event callback of `BackgroundProcessing` while jobs run, and jobs that
  throw (they end like others).
- `pushAndExecute` is named in comments of the header only; this version has no such function.
- Gripper handles, `MoveItMultiControllerManager` (it forwards to one plugin instance for each
  namespace) and the allocation of handles in the plugin.
- A controller that is unloaded and loaded again with other claims: `claimed_resources` is fixed.
- Calls of the selection side take no time: a node that changes between two service calls
  of one `ensureActiveControllers` is covered only as a change before or after it.
- Two clients of the manager that push at the same time: `MoveAction` has another client that
  stops or clears, not one whose parts are mixed with those of the plan.
- Planning with a look around (`PlanWithSensing`), the before- and after-callbacks of
  `PlanExecution::Options` and the clearing of trailing goal constraints.
- Robot states without joint values, and multi-DOF joints: the state of a full scene message is
  taken to be complete and not a diff. Objects that a robot state detaches are one `Detach` each,
  after it.
- The octomap (PSM:540-561 clears it, PSM:1236-1258 updates it), frames and transforms with the
  callback of the tf buffer; the collision matrix is one value.
- The stages of pick and place and their action servers: a stage ends, fails, fails with the code SUCCESS, or throws.
- Unsynchronised accesses are sequentially consistent; the C++ memory model allows more.

Beyond the components: most of the repository's lines are geometry, numerics over the reals,
planners and user interface. They are sequential functions of their inputs, without the
state and the interleavings that a model of this kind explores; section 1 lists them.

## 8. Plan

Done: the modules of section 2 and the theorems of section 5. What is left, in this order:

1. Proofs: the type invariant of `SceneDiff`, as for `ScenePublishing`.
2. Two action servers on one manager, in `TrajectoryExecution`: which of the properties survive
   a second client that pushes.
3. Small models: the trajectory monitor (the race of the publisher once more), the fake
   controllers against the promise of a handle (`moveit_fake_controllers.cpp:142`), planning
   with sensing, the pausing of servo, the pending queue of robot interaction.
