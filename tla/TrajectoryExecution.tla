------------------------ MODULE TrajectoryExecution ------------------------
(***************************************************************************)
(* TrajectoryExecutionManager (trajectory_execution_manager.cpp): threads  *)
(* that push trajectories, start their execution and wait for its end,     *)
(* threads that stop it, the execution threads, and the controllers.       *)
(*                                                                         *)
(* A trajectory is the sequence of the controllers that execute its parts; *)
(* configure() leaves it empty for a trajectory without motion.  Every     *)
(* access to a member is a step of its own where another thread could come *)
(* in between.  execution_state_mutex_ and execution_thread_mutex_ are     *)
(* held exactly at the steps named in StateLocked and ThreadLocked; a      *)
(* critical section that fits in one step is enabled while they are free.  *)
(***************************************************************************)
EXTENDS Integers, Sequences, ControllerHandle

CONSTANTS
  Clients,      \* threads that execute trajectories (action server threads)
  Stoppers,     \* threads that call stopExecution(true): the "stop" event,
                \* the preempt callback of ExecuteTrajectoryAction
  Controllers,  \* names of controllers
  Trajectories, \* what may be pushed: sequences of distinct controllers
  MaxPushed,    \* bound: trajectories pushed for one execution
  MaxExec,      \* bound: execution threads created
  MaxStops,     \* bound: calls of stopExecution(true) per stopper
  Monitoring,   \* execution_duration_monitoring_
  Faults,       \* which external failures occur, see FaultKinds
  Races         \* which timings of the environment occur, see RaceKinds

\* Failures: a trajectory no controllers can execute, a start state that does
\* not match, controllers that cannot be activated, a controller without a
\* handle, a controller that rejects or does not accomplish a goal.
FaultKinds == {"configure", "validate", "activate", "handle", "send", "goal"}

\* Timings: "lag", a result is seen before the done callback has run (actionlib
\* issue 155); "fast", a result arrives before sendTrajectory() has returned;
\* "tie", simulated time stands exactly at the limit when a wait times out.
RaceKinds == {"lag", "fast", "tie"}

ASSUME TrajectoryExecutionAssumption ==
  /\ Clients \cap Stoppers = {}
  /\ Trajectories \subseteq Seq(Controllers)
  /\ MaxPushed \in Nat
  /\ MaxExec \in Nat
  /\ MaxStops \in Nat
  /\ Monitoring \in BOOLEAN
  /\ Faults \subseteq FaultKinds
  /\ Races \subseteq RaceKinds

Callers == Clients \cup Stoppers
Execs == 1 .. MaxExec
NoThread == 0

VARIABLES
  trajectories_,
  execution_complete_,
  last_execution_status_,
  active_handles_,      \* the names of the controllers, in order
  current_context_,     \* index of a trajectory, from 1 here; -1 for none
  time_index_,          \* whether it has entries
  execution_thread_,    \* one of Execs, or NoThread
  handle,               \* the handle of each controller
  pc,                   \* where each caller is
  back,                 \* where a client goes after stopExecution(false)
  stops,                \* calls left to each stopper
  xpc,                  \* where each execution thread is
  x,                    \* the locals of each execution thread
  pushed,               \* history: what was pushed for this execution
  executed,             \* history: indices its controllers have accomplished
  reported              \* history: indices passed to the part callback

statusVars == <<execution_complete_, last_execution_status_>>
partVars == <<active_handles_, current_context_, time_index_>>
callerVars == <<pc, back, stops>>
threadVars == <<xpc, x>>
historyVars == <<pushed, executed, reported>>
shared == <<trajectories_, statusVars, partVars, execution_thread_, handle>>
vars == <<shared, callerVars, threadVars, historyVars>>

Set(seq) == {seq[i] : i \in 1 .. Len(seq)}

Fails(kind) == IF kind \in Faults THEN BOOLEAN ELSE {FALSE}

\* The locals of executeThread() and executePart(): the index i of the part, from
\* 1 here, the trajectory the reference context is bound to, the copied handles,
\* the index k of the loops over them, and result (epart).
Locals ==
  [i |-> 0, context |-> <<>>, handles |-> <<>>, k |-> 1, result |-> TRUE]

Init ==
  /\ trajectories_ = <<>>
  /\ execution_complete_ = TRUE
  /\ last_execution_status_ = "SUCCEEDED"
  /\ active_handles_ = <<>>
  /\ current_context_ = -1
  /\ time_index_ = FALSE
  /\ execution_thread_ = NoThread
  /\ handle = [c \in Controllers |-> NewHandle]
  /\ pc = [p \in Callers |-> "idle"]
  /\ back = [c \in Clients |-> "validate"]
  /\ stops = [s \in Stoppers |-> MaxStops]
  /\ xpc = [e \in Execs |-> "unborn"]
  /\ x = [e \in Execs |-> Locals]
  /\ pushed = <<>>
  /\ executed = {}
  /\ reported = {}

-----------------------------------------------------------------------------
(* Mutexes and shared helpers.                                             *)

\* No thread is at a step where it owns execution_state_mutex_.
StateMutexFree ==
  /\ \A p \in Callers : pc[p] # "stop_cancel"
  /\ \A e \in Execs : xpc[e] \notin {"send", "sent"}

\* No caller is at a step where it owns execution_thread_mutex_.
ThreadMutexFree == \A p \in Callers :
  pc[p] \notin {"join", "join_clear", "stop_clear"}

Goto(p, from, to) == pc[p] = from /\ pc' = [pc EXCEPT ![p] = to]

XGoto(e, from, to) == xpc[e] = from /\ xpc' = [xpc EXCEPT ![e] = to]

\* Faulty variant: the last handle is left out.
stopExecutionInternal_AllButLast ==
  [c \in Controllers |->
     IF \E i \in 1 .. Len(active_handles_) - 1 : active_handles_[i] = c
     THEN CancelExecution(handle[c]) ELSE handle[c]]

\* The handles after stopExecutionInternal(): all active ones are canceled.
stopExecutionInternal ==
  [c \in Controllers |->
     IF c \in Set(active_handles_) THEN CancelExecution(handle[c]) ELSE handle[c]]

\* clear(), which takes no lock.
clear == trajectories_' = IF execution_complete_ THEN <<>> ELSE trajectories_

-----------------------------------------------------------------------------
(* stopExecution(auto_clear), lines 952-995: stoppers call it with         *)
(* auto_clear and return to "idle", clients without and go back[p].        *)

StopReturns(p) == IF p \in Clients THEN back[p] ELSE "idle"

\* Faulty variant: a thread of the past is not joined.
StopTest_NoJoin(p) ==
  /\ Goto(p, "stop", IF ~execution_complete_ THEN "stop_lock" ELSE StopReturns(p))
  /\ UNCHANGED <<shared, back, stops, threadVars, historyVars>>

\* Lines 954 and 985, without a lock.
StopTest(p) ==
  /\ Goto(p, "stop", IF ~execution_complete_ THEN "stop_lock"
                     ELSE IF execution_thread_ # NoThread THEN "join_lock"
                     ELSE StopReturns(p))
  /\ UNCHANGED <<shared, back, stops, threadVars, historyVars>>

\* Lines 956-963: lock, test again, and mark the execution as complete.
StopMark(p) ==
  /\ StateMutexFree
  /\ Goto(p, "stop_lock", IF execution_complete_ THEN StopReturns(p) ELSE "stop_cancel")
  /\ execution_complete_' = TRUE
  /\ UNCHANGED <<trajectories_, last_execution_status_, partVars, execution_thread_,
                 handle, back, stops, threadVars, historyVars>>

\* Lines 964-968: cancel what is active, set the status, unlock.
StopCancel(p) ==
  /\ Goto(p, "stop_cancel", IF p \in Stoppers THEN "join_lock_clear" ELSE "join_lock")
  /\ handle' = stopExecutionInternal
  /\ last_execution_status_' = "PREEMPTED"
  /\ UNCHANGED <<trajectories_, execution_complete_, partVars, execution_thread_, back,
                 stops, threadVars, historyVars>>

\* Lines 972 and 988: lock execution_thread_mutex_.
JoinLock(p) ==
  /\ ThreadMutexFree
  /\ Goto(p, "join_lock", "join") \/ Goto(p, "join_lock_clear", "join_clear")
  /\ UNCHANGED <<shared, back, stops, threadVars, historyVars>>

\* Lines 973-977 and 989-994: join the thread there is and forget it.
JoinThread(p) ==
  /\ execution_thread_ # NoThread => xpc[execution_thread_] = "exited"
  /\ Goto(p, "join", StopReturns(p)) \/ Goto(p, "join_clear", "stop_clear")
  /\ execution_thread_' = NoThread
  /\ UNCHANGED <<trajectories_, statusVars, partVars, handle, back, stops, threadVars,
                 historyVars>>

\* Lines 979-981, still with execution_thread_mutex_.
StopClear(p) ==
  /\ Goto(p, "stop_clear", StopReturns(p))
  /\ clear
  /\ UNCHANGED <<statusVars, partVars, execution_thread_, handle, back, stops, threadVars,
                 historyVars>>

\* A stopper calls stopExecution(true).
CallStop(s) ==
  /\ stops[s] > 0
  /\ stops' = [stops EXCEPT ![s] = @ - 1]
  /\ Goto(s, "idle", "stop")
  /\ UNCHANGED <<shared, back, threadVars, historyVars>>

stopExecution(p) ==
  \/ StopTest(p) \/ StopMark(p) \/ StopCancel(p)
  \/ JoinLock(p) \/ JoinThread(p) \/ StopClear(p)

-----------------------------------------------------------------------------
(* A client executes trajectories the way executePath() does: clear(),     *)
(* push(), execute(), waitForExecution().                                  *)

\* clear() before the first push.
ClearFirst(c) ==
  /\ \E e \in Execs : xpc[e] = "unborn"
  /\ Goto(c, "idle", "push")
  /\ clear
  /\ pushed' = <<>> /\ executed' = {} /\ reported' = {}
  /\ UNCHANGED <<statusVars, partVars, execution_thread_, handle, back, stops, threadVars>>

\* push(), lines 266-299: refused while an execution is under way (the client
\* gives up), or when configure() finds no controllers for the trajectory.
push(c) ==
  /\ pc[c] = "push"
  /\ Len(pushed) < MaxPushed
  /\ \/ /\ execution_complete_
        /\ \E t \in Trajectories :
             /\ trajectories_' = Append(trajectories_, t)
             /\ pushed' = Append(pushed, t)
        /\ UNCHANGED <<pc, last_execution_status_>>
     \/ /\ execution_complete_
        /\ TRUE \in Fails("configure")
        /\ last_execution_status_' = "ABORTED"
        /\ Goto(c, "push", "idle")
        /\ UNCHANGED <<trajectories_, pushed>>
     \/ /\ ~execution_complete_
        /\ Goto(c, "push", "idle")
        /\ UNCHANGED <<trajectories_, pushed, last_execution_status_>>
  /\ UNCHANGED <<execution_complete_, partVars, execution_thread_, handle, back, stops,
                 threadVars, executed, reported>>

\* execute(), lines 1007-1010: nothing to do without trajectories; otherwise
\* stopExecution(false) first.
CallExecute(c) ==
  /\ Len(pushed) > 0
  /\ Goto(c, "push", IF trajectories_ = <<>> THEN "wait" ELSE "stop")
  /\ back' = [back EXCEPT ![c] = "validate"]
  /\ UNCHANGED <<shared, stops, threadVars, historyVars>>

\* validate(), lines 721-820: whether the robot's current state is known and no
\* joint is further from the start of the trajectory than is allowed.
validate(invalid) == invalid \in Fails("validate")

\* Lines 1015-1023: the first trajectory, if there still is one, must start
\* where the robot is.
Validate(c) ==
  /\ \/ /\ trajectories_ = <<>> \/ validate(FALSE)
        /\ Goto(c, "validate", "start")
        /\ UNCHANGED <<last_execution_status_, trajectories_>>
     \/ /\ trajectories_ # <<>> /\ validate(TRUE)
        /\ Goto(c, "validate", "wait")
        /\ last_execution_status_' = "ABORTED"
        /\ clear
  /\ UNCHANGED <<execution_complete_, partVars, execution_thread_, handle, back, stops,
                 threadVars, historyVars>>

\* Line 1026, without a lock.
MarkStarted(c) ==
  /\ Goto(c, "start", "spawn")
  /\ execution_complete_' = FALSE
  /\ UNCHANGED <<trajectories_, last_execution_status_, partVars, execution_thread_,
                 handle, back, stops, threadVars, historyVars>>

\* Line 1027, without a lock.
SpawnThread(c) ==
  /\ Goto(c, "spawn", "wait")
  /\ \E e \in Execs :
       /\ XGoto(e, "unborn", "begin")
       /\ \A d \in Execs : d < e => xpc[d] # "unborn"
       /\ execution_thread_' = e
  /\ UNCHANGED <<trajectories_, statusVars, partVars, handle, back, stops, x, historyVars>>

\* waitForExecution(), lines 1034-1036: with the mutex locked, sleep until the
\* execution is complete; a sleeper has released the mutex.
WaitTest(c) ==
  /\ StateMutexFree
  /\ pc[c] \in {"wait", "woken"}
  /\ pc' = [pc EXCEPT ![c] = IF execution_complete_ THEN "stop" ELSE "asleep"]
  /\ back' = [back EXCEPT ![c] = "return"]
  /\ UNCHANGED <<shared, stops, threadVars, historyVars>>

\* Line 1042: the client reads the status of the execution.
Return(c) ==
  /\ Goto(c, "return", "idle")
  /\ UNCHANGED <<shared, back, stops, threadVars, historyVars>>

\* boost::condition_variable::wait may return without a notification.
SpuriousWakeup(c) ==
  /\ Goto(c, "asleep", "woken")
  /\ UNCHANGED <<shared, back, stops, threadVars, historyVars>>

-----------------------------------------------------------------------------
(* executeThread(), lines 1057-1108.                                       *)

\* Lines 1061-1067: a stop came before the thread did; nobody is notified.
\* Otherwise line 1071 follows, in a step of its own.
CheckStopped(e) ==
  /\ XGoto(e, "begin", IF execution_complete_ THEN "exited" ELSE "started")
  /\ last_execution_status_' = IF execution_complete_ THEN "ABORTED"
                                                       ELSE last_execution_status_
  /\ UNCHANGED <<trajectories_, execution_complete_, partVars, execution_thread_, handle,
                 callerVars, x, historyVars>>

\* Line 1071: "assume everything will be OK".
AssumeSuccess(e) ==
  /\ XGoto(e, "started", "loop")
  /\ last_execution_status_' = "SUCCEEDED"
  /\ UNCHANGED <<trajectories_, execution_complete_, partVars, execution_thread_, handle,
                 callerVars, x, historyVars>>

\* Line 1076, and line 1115 of executePart(): can the controllers of the next
\* trajectory be activated?
NextPart(e) ==
  /\ IF x[e].i < Len(trajectories_)
     THEN \E inactive \in Fails("activate") :
            /\ XGoto(e, "loop", IF inactive THEN "inactive" ELSE "active")
            /\ x' = [x EXCEPT ![e] =
                       [Locals EXCEPT !.i = x[e].i + 1,
                                      !.context = trajectories_[x[e].i + 1]]]
     ELSE XGoto(e, "loop", "finish") /\ UNCHANGED x
  /\ UNCHANGED <<shared, callerVars, historyVars>>

\* Faulty variant: the status is not set.
Inactive_KeepsStatus(e) ==
  /\ XGoto(e, "inactive", "part_done")
  /\ x' = [x EXCEPT ![e].result = FALSE]
  /\ UNCHANGED <<shared, callerVars, historyVars>>

\* Lines 1317-1321.
Inactive(e) ==
  /\ XGoto(e, "inactive", "part_done")
  /\ last_execution_status_' = "ABORTED"
  /\ x' = [x EXCEPT ![e].result = FALSE]
  /\ UNCHANGED <<trajectories_, execution_complete_, partVars, execution_thread_, handle,
                 callerVars, historyVars>>

\* Line 1118, without a lock.
CheckStoppedBeforePart(e) ==
  /\ XGoto(e, "active", IF execution_complete_ THEN "part_done" ELSE "lock")
  /\ x' = [x EXCEPT ![e].result = ~execution_complete_]
  /\ UNCHANGED <<shared, callerVars, historyVars>>

\* Faulty variant: the flag is not tested again once the mutex is locked.
PublishHandles_NoRecheck(e) ==
  /\ StateMutexFree
  /\ XGoto(e, "lock", "send")
  /\ current_context_' = x[e].i
  /\ active_handles_' = x[e].context
  /\ x' = [x EXCEPT ![e].handles = x[e].context]
  /\ UNCHANGED <<trajectories_, statusVars, time_index_, execution_thread_, handle,
                 callerVars, historyVars>>

\* Lines 1123-1153: lock; unless a stop came first, publish the handles.
PublishHandles(e) ==
  /\ StateMutexFree
  /\ \/ /\ execution_complete_
        /\ XGoto(e, "lock", "index")
        /\ UNCHANGED <<x, partVars, last_execution_status_>>
     \/ /\ ~execution_complete_
        /\ XGoto(e, "lock", "send")
        /\ current_context_' = x[e].i
        /\ active_handles_' = x[e].context
        /\ x' = [x EXCEPT ![e].handles = x[e].context]
        /\ UNCHANGED <<time_index_, last_execution_status_>>
     \/ \* Lines 1142-1150: some controller has no handle.
        /\ ~execution_complete_
        /\ x[e].context # <<>>
        /\ TRUE \in Fails("handle")
        /\ XGoto(e, "lock", "part_done")
        /\ current_context_' = -1
        /\ active_handles_' = <<>>
        /\ last_execution_status_' = "ABORTED"
        /\ x' = [x EXCEPT ![e].result = FALSE]
        /\ UNCHANGED time_index_
  /\ UNCHANGED <<trajectories_, execution_complete_, execution_thread_, handle,
                 callerVars, historyVars>>

\* Faulty variant: the parts already sent are not canceled.
SendPart_NoCancel(e) ==
  /\ x[e].k <= Len(x[e].handles)
  /\ \/ /\ XGoto(e, "send", "sent")
        /\ handle' = [handle EXCEPT ![x[e].handles[x[e].k]] = SendGoal(@)]
        /\ UNCHANGED <<x, partVars, last_execution_status_>>
     \/ /\ TRUE \in Fails("send")
        /\ XGoto(e, "send", "part_done")
        /\ active_handles_' = <<>>
        /\ current_context_' = -1
        /\ last_execution_status_' = "ABORTED"
        /\ x' = [x EXCEPT ![e].result = FALSE]
        /\ UNCHANGED <<handle, time_index_>>
  /\ UNCHANGED <<trajectories_, execution_complete_, execution_thread_, callerVars,
                 historyVars>>

\* Lines 1154-1185: send the next part; when that fails, cancel those before it.
SendPart(e) ==
  LET h == x[e].handles
  IN
  /\ x[e].k <= Len(h)
  /\ ~ CallbackPending(handle[h[x[e].k]])
  /\ \/ /\ XGoto(e, "send", "sent")
        /\ handle' = [handle EXCEPT ![h[x[e].k]] = SendGoal(@)]
        /\ UNCHANGED <<x, partVars, last_execution_status_>>
     \/ /\ TRUE \in Fails("send")
        /\ XGoto(e, "send", "part_done")
        /\ handle' = [c \in Controllers |->
                        IF \E j \in 1 .. (x[e].k - 1) : h[j] = c
                        THEN CancelExecution(handle[c]) ELSE handle[c]]
        /\ active_handles_' = <<>>
        /\ current_context_' = -1
        /\ last_execution_status_' = "ABORTED"
        /\ x' = [x EXCEPT ![e].result = FALSE]
        /\ UNCHANGED time_index_
  /\ UNCHANGED <<trajectories_, execution_complete_, execution_thread_, callerVars,
                 historyVars>>

\* The end of sendTrajectory(), still at line 1159.
PartSent(e) ==
  /\ XGoto(e, "sent", "send")
  /\ handle' = [handle EXCEPT ![x[e].handles[x[e].k]] = MarkSent(@)]
  /\ x' = [x EXCEPT ![e].k = @ + 1]
  /\ UNCHANGED <<trajectories_, statusVars, partVars, execution_thread_, callerVars,
                 historyVars>>

\* Line 1187: everything is sent, unlock.
AllSent(e) ==
  /\ x[e].k > Len(x[e].handles)
  /\ XGoto(e, "send", "index")
  /\ x' = [x EXCEPT ![e].k = 1]
  /\ UNCHANGED <<shared, callerVars, historyVars>>

\* Lines 1189-1262: fill the time index, unless no part has points.
FillTimeIndex(e) ==
  /\ XGoto(e, "index", "await")
  /\ time_index_' = (time_index_ \/ x[e].context # <<>>)
  /\ UNCHANGED <<trajectories_, statusVars, active_handles_, current_context_,
                 execution_thread_, handle, callerVars, x, historyVars>>

\* The handle the loop of line 1265 is at.
Awaited(e) == handle[x[e].handles[x[e].k]]

\* Lines 1265 and 1269 or 1287: wait for the next handle, if any; a handle that
\* is done is not waited for.
AwaitPart(e) ==
  /\ xpc[e] = "await"
  /\ XGoto(e, "await", IF x[e].k > Len(x[e].handles) THEN "cleanup"
                       ELSE IF Awaited(e).done_ THEN "ended" ELSE "blocked")
  /\ UNCHANGED <<shared, callerVars, x, historyVars>>

\* waitForResult() returns because there is a result.
ResultSeen(e) ==
  /\ XGoto(e, "blocked", "ended")
  /\ ~ Running(Awaited(e))
  /\ UNCHANGED <<shared, callerVars, x, historyVars>>

\* Faulty variant: a stopped thread goes on waiting.
WaitTimesOut_NotWhenStopped(e) ==
  /\ Monitoring /\ ~execution_complete_
  /\ xpc[e] = "blocked"
  /\ Running(Awaited(e))
  /\ XGoto(e, "blocked", "late")
  /\ UNCHANGED <<shared, callerVars, x, historyVars>>

\* Lines 1267-1270: waitForResult() times out.  The duration is exceeded, unless
\* the clock still stands at the limit, and that counts unless a stop came.
WaitTimesOut(e) ==
  /\ Monitoring
  /\ xpc[e] = "blocked"
  /\ Running(Awaited(e))
  /\ \/ XGoto(e, "blocked", IF execution_complete_ THEN "ended" ELSE "late")
     \/ "tie" \in Races /\ XGoto(e, "blocked", "ended")
  /\ UNCHANGED <<shared, callerVars, x, historyVars>>

\* Lines 1276-1280: lock, and cancel what is active.
CancelLate(e) ==
  /\ StateMutexFree
  /\ XGoto(e, "late", "timed_out")
  /\ handle' = stopExecutionInternal
  /\ UNCHANGED <<trajectories_, statusVars, partVars, execution_thread_, callerVars, x,
                 historyVars>>

\* Lines 1281-1283, without a lock.
ReportLate(e) ==
  /\ XGoto(e, "timed_out", "cleanup")
  /\ last_execution_status_' = "TIMED_OUT"
  /\ x' = [x EXCEPT ![e].result = FALSE]
  /\ UNCHANGED <<trajectories_, execution_complete_, partVars, execution_thread_, handle,
                 callerVars, historyVars>>

\* Lines 1290-1294: a stop ends the loop.
CheckStoppedAfterWait(e) ==
  /\ XGoto(e, "ended", IF execution_complete_ THEN "cleanup" ELSE "judge")
  /\ x' = [x EXCEPT ![e].result = @ /\ ~execution_complete_]
  /\ UNCHANGED <<shared, callerVars, historyVars>>

\* Faulty variant: the status of the handle is copied in any case.
JudgeHandle_CopiesStatus(e) ==
  /\ xpc[e] = "judge"
  /\ last_execution_status_' = Awaited(e).last_exec_
  /\ IF Awaited(e).last_exec_ = "SUCCEEDED"
     THEN XGoto(e, "judge", "await") /\ x' = [x EXCEPT ![e].k = @ + 1]
     ELSE XGoto(e, "judge", "failed") /\ UNCHANGED x
  /\ UNCHANGED <<trajectories_, execution_complete_, partVars, execution_thread_, handle,
                 callerVars, historyVars>>

\* Line 1295: look at the status of the handle.
JudgeHandle(e) ==
  /\ xpc[e] = "judge"
  /\ IF Awaited(e).last_exec_ = "SUCCEEDED"
     THEN XGoto(e, "judge", "await") /\ x' = [x EXCEPT ![e].k = @ + 1]
     ELSE XGoto(e, "judge", "failed") /\ UNCHANGED x
  /\ UNCHANGED <<shared, callerVars, historyVars>>

\* Lines 1299-1300: the status of the handle is read again, without a lock, and
\* the other handles are still waited for.
ReportFailed(e) ==
  /\ XGoto(e, "failed", "await")
  /\ last_execution_status_' = Awaited(e).last_exec_
  /\ x' = [x EXCEPT ![e].result = FALSE, ![e].k = @ + 1]
  /\ UNCHANGED <<trajectories_, execution_complete_, partVars, execution_thread_, handle,
                 callerVars, historyVars>>

\* Whether the controllers accomplished the whole trajectory, whatever the
\* manager makes of it (history).
Accomplished(e) ==
  /\ x[e].handles = x[e].context
  /\ \A c \in Set(x[e].context) : handle[c].goal = "SUCCEEDED"

\* Lines 1304-1315: lock, and forget the part.
CleanUpPart(e) ==
  /\ StateMutexFree
  /\ XGoto(e, "cleanup", "part_done")
  /\ active_handles_' = <<>>
  /\ time_index_' = FALSE
  /\ current_context_' = -1
  /\ executed' = IF Accomplished(e) THEN executed \cup {x[e].i} ELSE executed
  /\ UNCHANGED <<trajectories_, statusVars, execution_thread_, handle, callerVars, x,
                 pushed, reported>>

\* A faulty variant: the part callback is not called.
ReportPart_Silent(e) ==
  /\ XGoto(e, "part_done", "next")
  /\ UNCHANGED <<shared, callerVars, x, historyVars>>

\* Lines 1078-1080: the part callback, for a part that succeeded.
ReportPart(e) ==
  /\ XGoto(e, "part_done", "next")
  /\ reported' = IF x[e].result THEN reported \cup {x[e].i} ELSE reported
  /\ UNCHANGED <<shared, callerVars, x, pushed, executed>>

\* Lines 1081-1085.
ContinueOrBreak(e) ==
  /\ XGoto(e, "next", IF x[e].result /\ ~execution_complete_ THEN "loop" ELSE "finish")
  /\ UNCHANGED <<shared, callerVars, x, historyVars>>

\* Lines 1089-1090: after a success, wait until the robot stands still.
WaitForRobotToStop(e) ==
  /\ XGoto(e, "finish", "complete")
  /\ UNCHANGED <<shared, callerVars, x, historyVars>>

\* Lines 1096-1098.
MarkComplete(e) ==
  /\ StateMutexFree
  /\ XGoto(e, "complete", "notify")
  /\ execution_complete_' = TRUE
  /\ UNCHANGED <<trajectories_, last_execution_status_, partVars, execution_thread_,
                 handle, callerVars, x, historyVars>>

\* Faulty variant: only the flag is set.
NotifyWaiters_Nobody(e) ==
  /\ XGoto(e, "notify", "clear")
  /\ UNCHANGED <<shared, callerVars, x, historyVars>>

\* Line 1099.
NotifyWaiters(e) ==
  /\ XGoto(e, "notify", "clear")
  /\ pc' = [p \in Callers |-> IF pc[p] = "asleep" THEN "woken" ELSE pc[p]]
  /\ UNCHANGED <<shared, back, stops, x, historyVars>>

\* Lines 1102-1108: auto_clear, the callback with the status, the end.
ClearAndExit(e) ==
  /\ XGoto(e, "clear", "exited")
  /\ clear
  /\ UNCHANGED <<statusVars, partVars, execution_thread_, handle, callerVars, x,
                 historyVars>>

-----------------------------------------------------------------------------
(* The controllers, and the thread that runs the callbacks of the action   *)
(* clients.                                                                *)

\* No thread is inside the sendTrajectory() of controller c.
NotBeingSent(c) ==
  \A e \in Execs : xpc[e] = "sent" => x[e].handles[x[e].k] # c

\* A goal ends.  Without the race "lag" the done callback runs before anybody
\* sees the result.
GoalEnds(c) ==
  /\ Running(handle[c])
  /\ ~ CallbackPending(handle[c])
  /\ "fast" \in Races \/ NotBeingSent(c)
  /\ \E outcome \in {o \in Outcomes : MayEndAs(handle[c], o, "goal" \in Faults)} :
       handle' = [handle EXCEPT ![c] =
                    IF "lag" \in Races THEN ResultArrives(@, outcome)
                    ELSE FinishControllerExecution(ResultArrives(@, outcome))]
  /\ UNCHANGED <<trajectories_, statusVars, partVars, execution_thread_, callerVars,
                 threadVars, historyVars>>

\* The done callback runs.
DoneCallback(c) ==
  /\ CallbackPending(handle[c])
  /\ handle' = [handle EXCEPT ![c] = FinishControllerExecution(@)]
  /\ UNCHANGED <<trajectories_, statusVars, partVars, execution_thread_, callerVars,
                 threadVars, historyVars>>

-----------------------------------------------------------------------------
executePart(e) ==
  \/ Inactive(e) \/ CheckStoppedBeforePart(e)
  \/ PublishHandles(e) \/ SendPart(e) \/ PartSent(e) \/ AllSent(e)
  \/ FillTimeIndex(e) \/ AwaitPart(e) \/ ResultSeen(e) \/ WaitTimesOut(e)
  \/ CancelLate(e) \/ ReportLate(e) \/ CheckStoppedAfterWait(e)
  \/ JudgeHandle(e) \/ ReportFailed(e) \/ CleanUpPart(e)

executeThread(e) ==
  \/ CheckStopped(e) \/ AssumeSuccess(e) \/ NextPart(e)
  \/ executePart(e)
  \/ ReportPart(e) \/ ContinueOrBreak(e)
  \/ WaitForRobotToStop(e) \/ MarkComplete(e) \/ NotifyWaiters(e) \/ ClearAndExit(e)

\* What a client does of its own accord once it has called execute().
execute(c) ==
  \/ Validate(c) \/ MarkStarted(c) \/ SpawnThread(c) \/ WaitTest(c) \/ Return(c)

Next ==
  \/ \E c \in Clients : ClearFirst(c) \/ push(c) \/ CallExecute(c) \/ execute(c)
                        \/ SpuriousWakeup(c)
  \/ \E s \in Stoppers : CallStop(s)
  \/ \E p \in Callers : stopExecution(p)
  \/ \E e \in Execs : executeThread(e)
  \/ \E c \in Controllers : GoalEnds(c) \/ DoneCallback(c)

Spec == Init /\ [][Next]_vars

\* Threads are scheduled and callbacks delivered.  A controller is relied on to
\* end its goals only where their duration is not monitored; nobody has to start
\* an execution or to stop one.
FairSpec ==
  /\ Spec
  /\ \A c \in Clients : WF_vars(execute(c))
  /\ \A p \in Callers : WF_vars(stopExecution(p))
  /\ \A e \in Execs : WF_vars(executeThread(e))
  /\ \A c \in Controllers :
       WF_vars(DoneCallback(c)) /\ (Monitoring \/ WF_vars(GoalEnds(c)))

-----------------------------------------------------------------------------
(* Properties.                                                             *)

CallerSteps ==
  {"idle", "stop", "stop_lock", "stop_cancel", "join_lock", "join_lock_clear", "join",
   "join_clear", "stop_clear", "push", "validate", "start", "spawn", "wait", "asleep",
   "woken", "return"}

\* The steps of executePart() from the publication of the handles to the lock
\* under which they are withdrawn.
Published ==
  {"send", "sent", "index", "await", "blocked", "late", "timed_out", "ended", "judge",
   "failed", "cleanup"}

PartSteps == Published \cup {"inactive", "active", "lock"}

ExecSteps == PartSteps \cup
  {"unborn", "begin", "started", "loop", "part_done", "next", "finish", "complete",
   "notify", "clear", "exited"}

LocalsType == [i : Nat, context : Seq(Controllers), handles : Seq(Controllers),
               k : Nat, result : BOOLEAN]

\* Types of the members, of the handles and of every thread's position.
TypeOK ==
  /\ trajectories_ \in Seq(Trajectories)
  /\ execution_complete_ \in BOOLEAN
  /\ last_execution_status_ \in Statuses
  /\ active_handles_ \in Seq(Controllers)
  /\ current_context_ \in Int
  /\ time_index_ \in BOOLEAN
  /\ execution_thread_ \in Execs \cup {NoThread}
  /\ handle \in [Controllers -> Handles]
  /\ pc \in [Callers -> CallerSteps]
  /\ back \in [Clients -> {"validate", "return"}]
  /\ stops \in [Stoppers -> 0 .. MaxStops]
  /\ xpc \in [Execs -> ExecSteps]
  /\ x \in [Execs -> LocalsType]
  /\ pushed \in Seq(Trajectories)
  /\ executed \subseteq Nat
  /\ reported \subseteq Nat

\* A stop that has taken effect under execution_state_mutex_ is final: from then
\* on no goal is sent for the execution it stopped, because executePart() sends
\* with that mutex locked and after testing the flag (lines 1123-1124).
NoGoalAfterStop ==
  [][\A c \in Controllers :
       handle'[c].goal = "active" /\ handle[c].goal # "active" => ~execution_complete_]_vars

\* Whoever stops reaches every controller: a goal that runs and was not canceled
\* belongs to a handle in active_handles_ (lines 1126-1153, 1167-1181, 1305).
RunningIsCancellable ==
  \A c \in Controllers : handle[c].goal = "active" => c \in Set(active_handles_)

\* A boost::thread is never replaced or destroyed before it was joined (line 1027),
\* and one execution at a time drives the controllers.
OneExecution ==
  /\ \A c \in Clients : pc[c] = "spawn" => execution_thread_ = NoThread
  /\ \A d, e \in Execs :
       xpc[d] \notin {"unborn", "exited"} /\ xpc[e] \notin {"unborn", "exited"} => d = e

\* cpp:1073-1074: "on failure, the status is set by executePart(). Otherwise, it
\* will remain as set above (success)": waitForExecution() returns SUCCEEDED only
\* after the controllers accomplished every trajectory that was pushed.
SuccessMeansExecuted ==
  \A p \in Clients :
    pc[p] = "return" /\ last_execution_status_ = "SUCCEEDED" =>
      executed = 1 .. Len(pushed)

\* A stop is not forgotten: while the thread is still in executePart(), nothing
\* turns the status of a stopped execution into a success.
StopIsNotForgotten ==
  [][\A e \in Execs :
       execution_complete_ /\ xpc[e] \in PartSteps
         => (last_execution_status_' = "SUCCEEDED" => last_execution_status_ = "SUCCEEDED")]_vars

\* h:189-190: "If a controller takes longer than expected, the trajectory is
\* canceled": executePart() leaves no goal of its own running.
NothingRunsAfterPart ==
  \A e \in Execs, c \in Controllers :
    xpc[e] = "part_done" => handle[c].goal # "active"

\* stopExecution(true) returns, whatever the controllers do.
StopEnds == \A s \in Stoppers : pc[s] = "stop" ~> pc[s] = "idle"

\* A sleeper is woken once its thread has got past its first test (line 1061).
StartedWaiterWakes ==
  \A c \in Clients, e \in Execs :
    pc[c] = "asleep" /\ xpc[e] = "started" ~> pc[c] # "asleep"

\* h:168: "Wait until the execution is complete": waitForExecution() returns.
WaitEnds == \A c \in Clients : pc[c] = "wait" ~> pc[c] = "return"

\* The execution threads that run, at most one.
Alive == {e \in Execs : xpc[e] \notin {"unborn", "exited"}}

Part == IF Alive = {} THEN 0 ELSE x[CHOOSE e \in Alive : TRUE].i

Manager == INSTANCE ExecutionManager WITH
  executing <- Alive # {} \/ \E c \in Clients : pc[c] = "spawn",
  complete <- execution_complete_,
  index <- Part,
  begun <- Part > 0 /\ \A e \in Alive : xpc[e] \notin {"inactive", "active", "lock"},
  part <- current_context_,
  finished <- IF Alive = {} THEN {} ELSE reported

\* h:68-75: what the callbacks tell is in order and final, as the abstract manager
\* has it: parts one after the other, none after a stop, the end at the end.
ImplementsExecutionManager == Manager!Spec
=============================================================================
