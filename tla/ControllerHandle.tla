-------------------------- MODULE ControllerHandle --------------------------
(***************************************************************************)
(* ActionBasedControllerHandle (action_based_controller_handle.h) with the *)
(* sendTrajectory() of FollowJointTrajectoryControllerHandle, and the      *)
(* action goal behind it.  A handle is a record:                           *)
(*   goal        what the action server makes of the last goal;            *)
(*   done_, last_exec_   the members of the handle;                        *)
(*   callback    the outcome that the done callback has still to deliver.  *)
(* The operators map a handle before a step to the handle after it.  The   *)
(* threads that take the steps are those of TrajectoryExecution.           *)
(***************************************************************************)

\* Outcomes of a goal; REJECTED, RECALLED and LOST all end as FAILED.
Outcomes == {"SUCCEEDED", "ABORTED", "PREEMPTED", "FAILED"}

\* The values of moveit_controller_manager::ExecutionStatus that occur.
Statuses == Outcomes \cup {"RUNNING", "TIMED_OUT"}

GoalStates == Outcomes \cup {"none", "active", "canceling"}

Handles == [goal : GoalStates, done_ : BOOLEAN, last_exec_ : Statuses,
            callback : Outcomes \cup {"none"}]

\* A handle whose action server is connected and that was never used.
NewHandle ==
  [goal |-> "none", done_ |-> TRUE, last_exec_ |-> "SUCCEEDED", callback |-> "none"]

Running(h) == h.goal \in {"active", "canceling"}

\* sendGoal() and cancelGoal() wait for a callback of the action client that is
\* under way: actionlib runs them under the lock that guards its goals.
CallbackPending(h) == h.callback # "none"

\* sendGoal(), with no callback pending: the server's goal is replaced; the
\* handle's members are not touched yet and keep the old goal's values.
SendGoal(h) == [h EXCEPT !.goal = "active"]

\* ... and the two assignments that follow it.
MarkSent(h) == [h EXCEPT !.done_ = FALSE, !.last_exec_ = "RUNNING"]

\* cancelExecution(): nothing happens on a handle that counts as done; otherwise
\* a pending callback comes first, and its status is overwritten.
CancelExecution(h) ==
  IF h.done_ THEN h
  ELSE [h EXCEPT !.goal = IF @ = "active" THEN "canceling" ELSE @,
                 !.last_exec_ = "PREEMPTED",
                 !.done_ = TRUE,
                 !.callback = "none"]

\* What the controller may make of a goal, canceled or not, faulty or not.
MayEndAs(h, outcome, faulty) ==
  \/ outcome = "SUCCEEDED"
  \/ outcome = "PREEMPTED" /\ h.goal = "canceling"
  \/ outcome \in {"ABORTED", "PREEMPTED"} /\ faulty

\* The result reaches the action client: waitForResult() may return, and the
\* done callback is about to be called.
ResultArrives(h, outcome) == [h EXCEPT !.goal = outcome, !.callback = outcome]

\* finishControllerExecution().
FinishControllerExecution(h) ==
  [h EXCEPT !.last_exec_ = h.callback, !.done_ = TRUE, !.callback = "none"]
=============================================================================
