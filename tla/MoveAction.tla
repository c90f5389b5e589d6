------------------------------- MODULE MoveAction -------------------------------
(***************************************************************************)
(* MoveGroupMoveAction (move_action_capability.cpp) between its action     *)
(* server and PlanExecution.  The server (actionlib::SimpleActionServer,   *)
(* not part of the repository) takes one goal at a time and queues one;    *)
(* it calls the preempt callback, with its lock held, when the goal it     *)
(* works on is canceled or another goal arrives, and only then; setting    *)
(* the result takes the same lock.                                         *)
(***************************************************************************)
EXTENDS PlanExecution

CONSTANTS
  MaxGoals,   \* bound: goals sent
  MaxCancels  \* bound: goals canceled

ASSUME MoveActionAssumption == MaxGoals \in Nat /\ MaxCancels \in Nat

VARIABLES
  goal,                \* the goal the server works on: "none", "active", "done"
  pending,             \* another goal waits
  callback,            \* preemptMoveCallback() is between its two statements
  preempt_requested_,
  apc,                 \* where executeMoveCallback() is
  result,              \* the code the last goal was answered with
  goals, cancels,      \* what clients may still do
  canceled,            \* history: the preempt callback was called for this goal
  planned_only         \* history: this goal asked for a plan only

serverVars == <<goal, pending, callback, goals, cancels>>
actionVars == <<preempt_requested_, apc, result>>
vars == <<planVars, serverVars, actionVars, canceled, planned_only>>

Init ==
  /\ PlanInit
  /\ goal = "none" /\ pending = FALSE /\ callback = FALSE
  /\ preempt_requested_ = FALSE
  /\ apc = "idle"
  /\ result = "UNSET"
  /\ goals = MaxGoals /\ cancels = MaxCancels
  /\ canceled = FALSE
  /\ planned_only = FALSE

AGoto(from, to) == apc = from /\ apc' = to

-----------------------------------------------------------------------------
(* The server and its clients.                                             *)

\* Line 241: the first statement of preemptMoveCallback().
BeginPreempt ==
  /\ callback' = TRUE
  /\ canceled' = TRUE
  /\ preempt_requested_' = TRUE

\* Line 242: the second one.
EndPreempt ==
  /\ callback
  /\ callback' = FALSE
  /\ stop
  /\ UNCHANGED <<goal, pending, goals, cancels, actionVars, canceled, planned_only>>

\* A client sends a goal.
SendGoal ==
  /\ ~callback
  /\ goals > 0
  /\ goals' = goals - 1
  /\ pending' = TRUE
  /\ IF goal = "active" THEN BeginPreempt ELSE UNCHANGED <<callback, canceled, preempt_requested_>>
  /\ UNCHANGED <<planVars, goal, cancels, apc, result, planned_only>>

\* A client cancels the goal that is being worked on.
CancelGoal ==
  /\ ~callback
  /\ cancels > 0 /\ goal = "active"
  /\ cancels' = cancels - 1
  /\ BeginPreempt
  /\ UNCHANGED <<planVars, goal, pending, goals, apc, result, planned_only>>

\* The server takes the goal that waits and calls executeMoveCallback().
AcceptGoal ==
  /\ pending /\ ~callback
  /\ AGoto("idle", "accepted")
  /\ pending' = FALSE
  /\ goal' = "active"
  /\ planned_only' \in BOOLEAN
  /\ UNCHANGED <<planVars, callback, preempt_requested_, result, goals, cancels, canceled>>

-----------------------------------------------------------------------------
(* executeMoveCallback(), lines 63-98.                                     *)

\* Lines 65-82: bring the scene up to date, then one of two functions; each begins
\* with a test of preempt_requested_ (lines 135 and 165).
TestPreempt ==
  /\ AGoto("accepted", IF preempt_requested_ THEN "report"
                       ELSE IF planned_only THEN "plan_only" ELSE "execute")
  /\ result' = IF preempt_requested_ THEN "PREEMPTED" ELSE "UNSET"
  /\ UNCHANGED <<planVars, serverVars, preempt_requested_, canceled, planned_only>>

\* Lines 170-190: the planner's answer is the answer.
executeMoveCallbackPlanOnly ==
  /\ AGoto("plan_only", "report")
  /\ result' \in {"SUCCESS"} \cup (IF "plan" \in Failures THEN {"PLANNING_FAILED", "FAILURE"}
                                                         ELSE {})
  /\ UNCHANGED <<planVars, serverVars, preempt_requested_, canceled, planned_only>>

\* Line 142; an empty difference makes no copy of the scene.
executeMoveCallbackPlanAndExecute ==
  /\ AGoto("execute", "executing")
  /\ \E diff \in BOOLEAN : planAndExecute(diff)
  /\ UNCHANGED <<serverVars, preempt_requested_, result, canceled, planned_only>>

\* Lines 144-147.
PlanExecutionReturns ==
  /\ AGoto("executing", "report")
  /\ Return
  /\ result' = error_code
  /\ UNCHANGED <<serverVars, preempt_requested_, canceled, planned_only>>

\* Lines 85-93: succeeded, preempted or aborted.
SetResult ==
  /\ ~callback
  /\ AGoto("report", "reset")
  /\ goal' = "done"
  /\ UNCHANGED <<planVars, pending, callback, preempt_requested_, result, goals, cancels,
                 canceled, planned_only>>

\* Faulty variant: the request is left for the next goal.
ResetRequest_Not ==
  /\ AGoto("reset", "idle")
  /\ result' = "UNSET" /\ canceled' = FALSE /\ planned_only' = FALSE
  /\ UNCHANGED <<planVars, serverVars, preempt_requested_>>

\* Lines 95-97.
ResetRequest ==
  /\ AGoto("reset", "idle")
  /\ preempt_requested_' = FALSE
  /\ result' = "UNSET" /\ canceled' = FALSE /\ planned_only' = FALSE
  /\ UNCHANGED <<planVars, serverVars>>

executeMoveCallback ==
  \/ AcceptGoal \/ TestPreempt \/ executeMoveCallbackPlanOnly
  \/ executeMoveCallbackPlanAndExecute \/ PlanExecutionReturns \/ SetResult \/ ResetRequest

Within(planStep) ==
  planStep /\ UNCHANGED <<serverVars, actionVars, canceled, planned_only>>

HelperStep == Within(planAndExecuteHelper)
ManagerStep == Within(ExecutionThread)
EnvironmentStep == Within(Environment)

Next ==
  \/ SendGoal \/ CancelGoal \/ EndPreempt
  \/ executeMoveCallback
  \/ HelperStep \/ ManagerStep \/ EnvironmentStep

Spec == Init /\ [][Next]_vars

\* Threads are scheduled, callbacks are called, and the manager ends what it executes
\* (its own fairness, see TrajectoryExecution).
FairSpec ==
  /\ Spec
  /\ WF_vars(EndPreempt)
  /\ WF_vars(executeMoveCallback)
  /\ WF_vars(HelperStep)
  /\ WF_vars(ManagerStep)

-----------------------------------------------------------------------------
(* Properties.                                                             *)

TypeOK ==
  /\ PlanTypeOK
  /\ goal \in {"none", "active", "done"}
  /\ pending \in BOOLEAN /\ callback \in BOOLEAN
  /\ preempt_requested_ \in BOOLEAN
  /\ apc \in {"idle", "accepted", "plan_only", "execute", "executing", "report", "reset"}
  /\ result \in Codes
  /\ goals \in 0 .. MaxGoals /\ cancels \in 0 .. MaxCancels
  /\ canceled \in BOOLEAN /\ planned_only \in BOOLEAN

\* No goal pays for the preemption of another: what is answered with PREEMPTED was
\* canceled itself, or a side effect of its plan failed.
OwnPreemptionOnly ==
  apc = "report" /\ result = "PREEMPTED" => canceled \/ broken

\* Every goal is answered, unless somebody emptied the manager between push() and
\* execute(): then doneWithTrajectoryExecution() is never called.
GoalIsAnswered == goal = "active" ~> goal # "active" \/ "clear" \in foreign

\* A goal that is canceled while PlanExecution works on it is answered even then, unless
\* the request was dropped.
CanceledGoalIsAnswered ==
  must_stop /\ pc # "idle" ~> pc = "idle" \/ "request" \in dropped
=============================================================================
