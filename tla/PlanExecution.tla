----------------------------- MODULE PlanExecution -----------------------------
(***************************************************************************)
(* PlanExecution (plan_execution.cpp): plan, execute, watch the execution, *)
(* plan again when the scene has made the path invalid.  Three threads     *)
(* meet here: the one that calls planAndExecute(), the execution thread    *)
(* that runs the callbacks, and those that update the scene or request a   *)
(* preemption.  The members they share are plain Booleans without a lock;  *)
(* only the preemption request is atomic.  The manager is the abstract one *)
(* of ExecutionManager.                                                    *)
(***************************************************************************)
EXTENDS Integers, FiniteSets

CONSTANTS
  MaxParts,     \* bound: components of a plan
  MaxAttempts,  \* the attempts a goal asks for
  MaxChanges,   \* bound: changes of the scene for one goal
  Monitored,    \* whether components have trajectory_monitoring_ set
  Failures,     \* what may go wrong, see FailureKinds
  Foreigners    \* what other users of the manager do: "stop", "clear"

\* Failures: of the planner, in push(), of the validation in execute(), of a
\* part, of a side effect.
FailureKinds == {"plan", "push", "start", "part", "effect"}

ASSUME PlanExecutionAssumption ==
  /\ MaxParts \in Nat \ {0}
  /\ MaxAttempts \in Nat \ {0}
  /\ MaxChanges \in Nat
  /\ Monitored \in BOOLEAN
  /\ Failures \subseteq FailureKinds
  /\ Foreigners \subseteq {"stop", "clear"}

VARIABLES
  executing, complete, index, begun, part, finished,  \* the manager
  status,                \* its last_execution_status_
  preempt_,              \* preemption_requested
  new_scene_update_,
  execution_complete_,
  path_became_invalid_,
  pc,                    \* where planAndExecute() is
  replan_attempts,
  preempt_requested,     \* the local of that name
  error_code,            \* of the plan
  parts,                 \* how many components the plan has
  snapshot,              \* plan.planning_scene_ is a diff, copied from the scene
  bad,                   \* the components that collide in the monitored scene
  unannounced,           \* a change whose callback has still to run
  changes,               \* changes left
  must_stop,             \* history: a request came after the last one was discarded
  dropped,               \* history: an unchecked "update", a "verdict" or a "request"
                         \* without effect
  foreign,               \* history: what others did with the manager
  broken,                \* history: a side effect failed
  reported               \* history: components reported in the last execution

managerVars == <<executing, complete, index, begun, part, finished, status>>
flagVars == <<preempt_, new_scene_update_, execution_complete_, path_became_invalid_>>
helperVars == <<pc, replan_attempts, preempt_requested, error_code, parts, snapshot>>
sceneVars == <<bad, unannounced, changes>>
historyVars == <<must_stop, dropped, foreign, broken, reported>>
planVars == <<managerVars, flagVars, helperVars, sceneVars, historyVars>>

Manager == INSTANCE ExecutionManager

Codes ==
  {"UNSET", "SUCCESS", "FAILURE", "PLANNING_FAILED", "CONTROL_FAILED", "TIMED_OUT",
   "PREEMPTED", "MOTION_PLAN_INVALIDATED"}

Fails(kind) == IF kind \in Failures THEN BOOLEAN ELSE {FALSE}

PlanInit ==
  /\ Manager!Init
  /\ status = "SUCCEEDED"
  /\ preempt_ = FALSE
  /\ new_scene_update_ = FALSE
  /\ execution_complete_ = TRUE
  /\ path_became_invalid_ = FALSE
  /\ pc = "idle"
  /\ replan_attempts = 0
  /\ preempt_requested = FALSE
  /\ error_code = "UNSET"
  /\ parts = 0
  /\ snapshot = FALSE
  /\ bad = {}
  /\ unannounced = FALSE
  /\ changes = 0
  /\ must_stop = FALSE
  /\ dropped = {}
  /\ foreign = {}
  /\ broken = FALSE
  /\ reported = {}

Goto(from, to) == pc = from /\ pc' = to

-----------------------------------------------------------------------------
(* planAndExecute() and planAndExecuteHelper(), lines 103-243.             *)

\* Lines 103-132: the scene to plan in, a copy of it when the goal has a diff.
planAndExecute(diff) ==
  /\ Goto("idle", "entered")
  /\ snapshot' = diff
  /\ changes' = MaxChanges
  /\ foreign' = {}
  /\ broken' = FALSE
  /\ UNCHANGED <<managerVars, flagVars, replan_attempts, preempt_requested, error_code, parts,
                 bad, unannounced, must_stop, dropped, reported>>

\* Line 137: "clear any previous preempt_ request".
DiscardOldRequest ==
  /\ Goto("entered", "attempt")
  /\ preempt_' = FALSE
  /\ must_stop' = FALSE
  /\ UNCHANGED <<managerVars, new_scene_update_, execution_complete_, path_became_invalid_,
                 replan_attempts, preempt_requested, error_code, parts, snapshot,
                 sceneVars, dropped, foreign, broken, reported>>

\* Lines 149-158.
BeginAttempt ==
  /\ Goto("attempt", "plan")
  /\ replan_attempts' = replan_attempts + 1
  /\ new_scene_update_' = FALSE
  /\ UNCHANGED <<managerVars, preempt_, execution_complete_, path_became_invalid_,
                 preempt_requested, error_code, parts, snapshot, sceneVars, historyVars>>

\* Lines 162-165: the plan callback.  A plan is valid in plan.planning_scene_ of
\* that moment; in a copy the planner does not see what has changed since.
Plan ==
  /\ Goto("plan", "planned")
  /\ \/ /\ error_code' = "SUCCESS"
        /\ \E n \in 1 .. MaxParts : parts' = n
        /\ IF snapshot THEN bad' \in SUBSET (bad \cap 1 .. parts') ELSE bad' = {}
     \/ /\ "plan" \in Failures
        /\ error_code' \in {"PLANNING_FAILED", "FAILURE"}
        /\ UNCHANGED <<parts, bad>>
  /\ UNCHANGED <<managerVars, flagVars, replan_attempts, preempt_requested, snapshot,
                 unannounced, changes, historyVars>>

\* checkAndClear() at this step: preempt_requested takes the request.
TakeRequest ==
  /\ preempt_requested' = preempt_
  /\ preempt_' = FALSE

\* The loop condition, line 227.
Again == IF replan_attempts < MaxAttempts THEN "attempt" ELSE "done"

\* Lines 167-194: stop on request; plan again when that may help (the codes of
\* lines 173-175 are one here); give up when there is no plan.
JudgePlan ==
  /\ TakeRequest
  /\ Goto("planned", IF preempt_ THEN "done"
                     ELSE IF error_code = "PLANNING_FAILED" THEN Again
                     ELSE IF error_code = "SUCCESS" THEN "before_execution" ELSE "done")
  /\ UNCHANGED <<managerVars, new_scene_update_, execution_complete_, path_became_invalid_,
                 replan_attempts, error_code, parts, snapshot, sceneVars, historyVars>>

\* Faulty variant: the request is taken and not obeyed.
BeforeExecution_Forgets ==
  /\ TakeRequest
  /\ Goto("before_execution", "push")
  /\ UNCHANGED <<managerVars, new_scene_update_, execution_complete_, path_became_invalid_,
                 replan_attempts, error_code, parts, snapshot, sceneVars, historyVars>>

\* Lines 196-198.
BeforeExecution ==
  /\ TakeRequest
  /\ Goto("before_execution", IF preempt_ THEN "done" ELSE "push")
  /\ UNCHANGED <<managerVars, new_scene_update_, execution_complete_, path_became_invalid_,
                 replan_attempts, error_code, parts, snapshot, sceneVars, historyVars>>

\* Lines 204-226: only an invalidated plan is worth another attempt.
JudgeExecution ==
  /\ pc = "executed"
  /\ IF error_code = "MOTION_PLAN_INVALIDATED"
     THEN TakeRequest /\ pc' = IF preempt_ THEN "done" ELSE Again
     ELSE /\ preempt_requested' = (error_code = "PREEMPTED")
          /\ pc' = "done"
          /\ UNCHANGED preempt_
  /\ UNCHANGED <<managerVars, new_scene_update_, execution_complete_, path_became_invalid_,
                 replan_attempts, error_code, parts, snapshot, sceneVars, historyVars>>

\* Lines 229-243: the outcome.
Conclude ==
  /\ Goto("done", "result")
  /\ error_code' = IF preempt_requested THEN "PREEMPTED" ELSE error_code
  /\ UNCHANGED <<managerVars, flagVars, replan_attempts, preempt_requested, parts, snapshot,
                 sceneVars, historyVars>>

\* The return: the locals are gone.
Return ==
  /\ Goto("result", "idle")
  /\ replan_attempts' = 0 /\ preempt_requested' = FALSE
  /\ error_code' = "UNSET" /\ parts' = 0 /\ snapshot' = FALSE
  /\ bad' = {} /\ changes' = 0
  /\ must_stop' = FALSE /\ dropped' = {} /\ reported' = {}
  /\ UNCHANGED <<managerVars, flagVars, unannounced, foreign, broken>>

-----------------------------------------------------------------------------
(* executeAndMonitor(), lines 287-461.                                     *)

\* Lines 300-365: hand the components to the manager, in a step of their own as
\* long as nobody else uses it.
Push ==
  /\ \E refused \in Fails("push") :
       /\ Goto("push", IF refused THEN "executed" ELSE "execute")
       /\ execution_complete_' = refused
       /\ error_code' = IF refused THEN "CONTROL_FAILED" ELSE error_code
  /\ foreign' = {}
  /\ reported' = {}
  /\ UNCHANGED <<managerVars, preempt_, new_scene_update_, path_became_invalid_,
                 replan_attempts, preempt_requested, parts, snapshot, sceneVars, must_stop,
                 dropped, broken>>

\* Lines 381-383: execute() starts the execution, or reports at once that the
\* robot is not where the trajectory starts, or finds nothing to execute.
Execute ==
  /\ Goto("execute", "started")
  /\ \/ /\ "clear" \notin foreign
        /\ Manager!Execute
        /\ status' = "SUCCEEDED"
        /\ UNCHANGED execution_complete_
     \/ /\ "clear" \notin foreign
        /\ ~executing
        /\ "start" \in Failures
        /\ status' = "ABORTED"
        /\ execution_complete_' = TRUE
        /\ UNCHANGED <<executing, complete, index, begun, part, finished>>
     \/ /\ "clear" \in foreign
        /\ UNCHANGED <<managerVars, execution_complete_>>
  /\ UNCHANGED <<preempt_, new_scene_update_, path_became_invalid_, replan_attempts,
                 preempt_requested, error_code, parts, snapshot, sceneVars, historyVars>>

\* Lines 386-387; a verdict of the part callback may be there already.
BeginMonitoring ==
  /\ Goto("started", "loop")
  /\ path_became_invalid_' = FALSE
  /\ preempt_requested' = FALSE
  /\ dropped' = IF path_became_invalid_ THEN dropped \cup {"verdict"} ELSE dropped
  /\ UNCHANGED <<managerVars, preempt_, new_scene_update_, execution_complete_,
                 replan_attempts, error_code, parts, snapshot, sceneVars, must_stop,
                 foreign, broken, reported>>

\* Line 389.
MonitorTest ==
  /\ Goto("loop", IF execution_complete_ \/ path_became_invalid_ THEN "stop" ELSE "look")
  /\ UNCHANGED <<managerVars, flagVars, replan_attempts, preempt_requested, error_code,
                 parts, snapshot, sceneVars, historyVars>>

\* Lines 393-395.
LookForUpdate ==
  /\ Goto("look", IF new_scene_update_ THEN "validate" ELSE "poll")
  /\ new_scene_update_' = FALSE
  /\ UNCHANGED <<managerVars, preempt_, execution_complete_, path_became_invalid_,
                 replan_attempts, preempt_requested, error_code, parts, snapshot,
                 sceneVars, historyVars>>

\* isRemainingPathValid(), lines 245-285, for component i: valid without looking when
\* there is no such component or it is not monitored.  A copied scene shows nothing.
isRemainingPathValid(i) == ~ (i > 0 /\ Monitored /\ ~snapshot /\ i \in bad)

\* Faulty variant: the next component is looked at.
ValidatePath_Next ==
  /\ Goto("validate", IF isRemainingPathValid(part + 1) THEN "poll" ELSE "stop")
  /\ path_became_invalid_' = (path_became_invalid_ \/ ~isRemainingPathValid(part + 1))
  /\ dropped' = IF part = -1 /\ bad # {} THEN dropped \cup {"update"} ELSE dropped
  /\ UNCHANGED <<managerVars, preempt_, new_scene_update_, execution_complete_,
                 replan_attempts, preempt_requested, error_code, parts, snapshot,
                 sceneVars, must_stop, foreign, broken, reported>>

\* Lines 396-403: check the component that is being executed, if there is one.
ValidatePath ==
  /\ Goto("validate", IF isRemainingPathValid(part) THEN "poll" ELSE "stop")
  /\ path_became_invalid_' = (path_became_invalid_ \/ ~isRemainingPathValid(part))
  /\ dropped' = IF part = -1 /\ bad # {} THEN dropped \cup {"update"} ELSE dropped
  /\ UNCHANGED <<managerVars, preempt_, new_scene_update_, execution_complete_,
                 replan_attempts, preempt_requested, error_code, parts, snapshot,
                 sceneVars, must_stop, foreign, broken, reported>>

\* Faulty variant: nobody looks for a request during the execution.
PollRequest_Not ==
  /\ Goto("poll", "loop")
  /\ UNCHANGED <<managerVars, flagVars, replan_attempts, preempt_requested, error_code,
                 parts, snapshot, sceneVars, historyVars>>

\* Lines 406-408.
PollRequest ==
  /\ TakeRequest
  /\ Goto("poll", IF preempt_ THEN "stop" ELSE "loop")
  /\ UNCHANGED <<managerVars, new_scene_update_, execution_complete_, path_became_invalid_,
                 replan_attempts, error_code, parts, snapshot, sceneVars, historyVars>>

\* Faulty variant: an execution whose path is invalid is left to itself.
StopExecution_OnRequestOnly ==
  /\ Goto("stop", IF preempt_requested THEN "join" ELSE "decide")
  /\ IF pc' = "join" /\ executing /\ ~complete
     THEN Manager!Complete /\ status' = "PREEMPTED"
     ELSE UNCHANGED managerVars
  /\ UNCHANGED <<flagVars, replan_attempts, preempt_requested, error_code, parts, snapshot,
                 sceneVars, historyVars>>

\* Lines 411-428: stopExecution(), unless the execution has come to its end.  Nobody
\* reads the status of an execution that is stopped here.
StopExecution ==
  /\ Goto("stop", IF preempt_requested \/ path_became_invalid_ \/ ~execution_complete_
                  THEN "join" ELSE "decide")
  /\ IF pc' = "join" /\ executing /\ ~complete
     THEN Manager!Complete /\ status' = "PREEMPTED"
     ELSE UNCHANGED managerVars
  /\ UNCHANGED <<flagVars, replan_attempts, preempt_requested, error_code, parts, snapshot,
                 sceneVars, historyVars>>

\* stopExecution() joins the execution thread.
JoinExecution ==
  /\ ~executing
  /\ Goto("join", "decide")
  /\ UNCHANGED <<managerVars, flagVars, replan_attempts, preempt_requested, error_code,
                 parts, snapshot, sceneVars, historyVars>>

\* Faulty variant: the request that ended the loop is not looked at.
Decide_IgnoresRequest ==
  /\ Goto("decide", "executed")
  /\ error_code' = IF path_became_invalid_ THEN "MOTION_PLAN_INVALIDATED"
                   ELSE IF status = "SUCCEEDED" THEN "SUCCESS"
                   ELSE IF status = "TIMED_OUT" THEN "TIMED_OUT" ELSE "CONTROL_FAILED"
  /\ UNCHANGED <<managerVars, flagVars, replan_attempts, preempt_requested, parts, snapshot,
                 sceneVars, historyVars>>

\* Lines 439-460.
Decide ==
  /\ Goto("decide", "executed")
  /\ error_code' = IF path_became_invalid_ THEN "MOTION_PLAN_INVALIDATED"
                   ELSE IF preempt_requested THEN "PREEMPTED"
                   ELSE IF status = "SUCCEEDED" THEN "SUCCESS"
                   ELSE IF status = "TIMED_OUT" THEN "TIMED_OUT" ELSE "CONTROL_FAILED"
  /\ dropped' = IF path_became_invalid_ /\ preempt_requested
                THEN dropped \cup {"request"} ELSE dropped
  /\ UNCHANGED <<managerVars, flagVars, replan_attempts, preempt_requested, parts, snapshot,
                 sceneVars, must_stop, foreign, broken, reported>>

-----------------------------------------------------------------------------
(* The execution thread, with the two callbacks of lines 382-383.          *)

NextPart ==
  /\ index < parts
  /\ Manager!NextPart
  /\ UNCHANGED <<status, flagVars, helperVars, sceneVars, historyVars>>

BeginPart ==
  /\ Manager!BeginPart
  /\ UNCHANGED <<status, flagVars, helperVars, sceneVars, historyVars>>

\* After a stop, or because it fails.
SkipPart ==
  /\ Manager!SkipPart
  /\ IF complete THEN UNCHANGED status ELSE "part" \in Failures /\ status' = "ABORTED"
  /\ UNCHANGED <<flagVars, helperVars, sceneVars, historyVars>>

EndPart ==
  /\ Manager!EndPart
  /\ UNCHANGED <<status, flagVars, helperVars, sceneVars, historyVars>>

\* successfulTrajectorySegmentExecution(), lines 477-510: the side effect, then
\* the validity of the next component.
successfulTrajectorySegmentExecution ==
  /\ status \notin {"ABORTED", "TIMED_OUT"}
  /\ Manager!ReportPart
  /\ reported' = reported \cup {index}
  /\ \E failed \in Fails("effect") :
       /\ preempt_' = (preempt_ \/ failed)
       /\ must_stop' = (must_stop \/ failed)
       /\ broken' = (broken \/ failed)
       /\ path_became_invalid_' =
            (path_became_invalid_
               \/ (~failed /\ index < parts /\ ~isRemainingPathValid(index + 1)))
  /\ UNCHANGED <<status, new_scene_update_, execution_complete_, helperVars, sceneVars,
                 dropped, foreign>>

\* All parts are done, or one has failed.
ComeToEnd ==
  /\ part = -1
  /\ \/ /\ finished = 1 .. parts
        /\ UNCHANGED status
     \/ /\ "part" \in Failures
        /\ begun /\ index \notin finished
        /\ status' \in {"ABORTED", "TIMED_OUT"}
  /\ Manager!Complete
  /\ UNCHANGED <<flagVars, helperVars, sceneVars, historyVars>>

\* Faulty variant: the end is not noted.
doneWithTrajectoryExecution_Silent ==
  /\ Manager!Finish
  /\ UNCHANGED <<status, flagVars, helperVars, sceneVars, historyVars>>

\* doneWithTrajectoryExecution(), lines 471-475.
doneWithTrajectoryExecution ==
  /\ Manager!Finish
  /\ execution_complete_' = TRUE
  /\ UNCHANGED <<status, preempt_, new_scene_update_, path_became_invalid_, helperVars,
                 sceneVars, historyVars>>

ExecutionThread ==
  \/ NextPart \/ BeginPart \/ SkipPart \/ EndPart \/ successfulTrajectorySegmentExecution
  \/ ComeToEnd \/ doneWithTrajectoryExecution

-----------------------------------------------------------------------------
(* The scene, the requests, and other users of the manager.                *)

\* The geometry of the monitored scene changes.
ChangeScene ==
  /\ pc # "idle" /\ changes > 0
  /\ \E blocked \in SUBSET (1 .. parts) :
       blocked # bad /\ bad' = blocked
  /\ unannounced' = TRUE
  /\ changes' = changes - 1
  /\ UNCHANGED <<managerVars, flagVars, helperVars, historyVars>>

\* Lines 463-469, for an update of the geometry or of the transforms.
planningSceneUpdatedCallback ==
  /\ unannounced
  /\ unannounced' = FALSE
  /\ new_scene_update_' = TRUE
  /\ UNCHANGED <<managerVars, preempt_, execution_complete_, path_became_invalid_,
                 helperVars, bad, changes, historyVars>>

\* stop(), lines 103-106.
stop ==
  /\ preempt_' = TRUE
  /\ must_stop' = (pc \notin {"idle", "entered", "result"})
  /\ UNCHANGED <<managerVars, new_scene_update_, execution_complete_, path_became_invalid_,
                 helperVars, sceneVars, dropped, foreign, broken, reported>>

\* What a stop leaves as the status: an execution that had not come to a part may
\* still set its own.
StoppedStatus == IF index = 0 THEN {"PREEMPTED", "SUCCEEDED", "ABORTED"}
                              ELSE {"PREEMPTED", "TIMED_OUT"}

\* Another user of the manager stops what is executed.
ForeignStop ==
  /\ "stop" \in Foreigners
  /\ Manager!Complete
  /\ status' \in StoppedStatus
  /\ foreign' = foreign \cup {"stop"}
  /\ UNCHANGED <<flagVars, helperVars, sceneVars, must_stop, dropped, broken, reported>>

\* Another user clears what was pushed, before it is executed.
ForeignClear ==
  /\ "clear" \in Foreigners
  /\ pc = "execute" /\ ~executing
  /\ foreign' = foreign \cup {"clear"}
  /\ UNCHANGED <<managerVars, flagVars, helperVars, sceneVars, must_stop, dropped, broken,
                 reported>>

Environment ==
  ChangeScene \/ planningSceneUpdatedCallback \/ ForeignStop \/ ForeignClear

executeAndMonitor ==
  \/ Push \/ Execute \/ BeginMonitoring \/ MonitorTest \/ LookForUpdate \/ ValidatePath
  \/ PollRequest \/ StopExecution \/ JoinExecution \/ Decide

planAndExecuteHelper ==
  \/ DiscardOldRequest \/ BeginAttempt \/ Plan \/ JudgePlan \/ BeforeExecution
  \/ executeAndMonitor \/ JudgeExecution \/ Conclude

-----------------------------------------------------------------------------
(* Properties, of any specification that lets these threads run.           *)

HelperSteps ==
  {"idle", "entered", "attempt", "plan", "planned", "before_execution", "push", "execute",
   "started", "loop", "look", "validate", "poll", "stop", "join", "decide", "executed",
   "done", "result"}

\* The steps at which an execution may be under way.
Watching == {"started", "loop", "look", "validate", "poll", "stop", "join"}

PlanTypeOK ==
  /\ executing \in BOOLEAN /\ complete \in BOOLEAN /\ begun \in BOOLEAN
  /\ index \in Nat /\ part \in Int /\ finished \subseteq Nat
  /\ status \in {"SUCCEEDED", "PREEMPTED", "TIMED_OUT", "ABORTED"}
  /\ preempt_ \in BOOLEAN /\ new_scene_update_ \in BOOLEAN
  /\ execution_complete_ \in BOOLEAN /\ path_became_invalid_ \in BOOLEAN
  /\ pc \in HelperSteps
  /\ replan_attempts \in 0 .. MaxAttempts
  /\ preempt_requested \in BOOLEAN
  /\ error_code \in Codes
  /\ parts \in 0 .. MaxParts
  /\ snapshot \in BOOLEAN
  /\ bad \subseteq 1 .. MaxParts
  /\ unannounced \in BOOLEAN
  /\ changes \in 0 .. MaxChanges
  /\ must_stop \in BOOLEAN
  /\ dropped \subseteq {"update", "verdict", "request"}
  /\ foreign \subseteq {"stop", "clear"}
  /\ broken \in BOOLEAN
  /\ reported \subseteq Nat

\* Nothing is executed that planAndExecute() does not watch: when it plans again or
\* returns, the execution of before has come to its end (cpp:411-428).
NothingRunsUnwatched == executing => pc \in Watching

\* cpp:384: "wait for path to be done, while checking that the path does not become
\* invalid".  An obstacle in the component that is executed, once announced, is on its
\* way to stop the execution, except where the code drops it: an update consumed while
\* no component is current (396), a verdict overwritten (386), a copied scene (128).
ObstacleIsNoticed ==
  /\ pc \in {"loop", "look", "poll"}
  /\ part \in bad /\ ~snapshot /\ Monitored
  /\ ~unannounced /\ dropped \cap {"update", "verdict"} = {}
  => new_scene_update_ \/ path_became_invalid_ \/ preempt_

\* plan_execution.h:165: "A true return value has to trigger full execution stop, as
\* it consumes the request": no execution begins after a request was consumed, unless
\* the request was dropped in favour of an invalid path (cpp:440).
RequestIsFinal ==
  [][~executing /\ executing' /\ must_stop => preempt_ \/ "request" \in dropped]_planVars

\* A plan is reported as executed only if all its components were, or somebody else
\* stopped the execution; a side effect that failed has left its request pending then.
SuccessIsWhole ==
  pc = "result" /\ error_code = "SUCCESS" =>
    /\ "stop" \in foreign \/ reported = 1 .. parts
    /\ broken => preempt_ \/ "request" \in dropped
=============================================================================
