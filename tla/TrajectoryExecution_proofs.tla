--------------------- MODULE TrajectoryExecution_proofs ---------------------
(***************************************************************************)
(* Proofs about TrajectoryExecution, for any controllers and trajectories  *)
(* and any number of executions and stoppers.  For any number of clients,  *)
(* every failure and every timing: its types, and that no goal is sent     *)
(* once an execution was stopped.  For one client (OneClient): that one    *)
(* execution thread lives at a time, that a stop reaches every goal and is *)
(* not forgotten, that a success means that everything was executed, and   *)
(* that the manager implements ExecutionManager; each theorem names the    *)
(* timings it excludes.                                                    *)
(***************************************************************************)
EXTENDS TrajectoryExecution, TLAPS

-----------------------------------------------------------------------------
(* The inductive invariants.                                               *)

\* The loops of executePart() that look at a handle are within its handles.
LoopInv == \A e \in Execs :
  /\ x[e].k >= 1
  /\ xpc[e] \in {"sent", "blocked", "ended", "late", "judge", "failed"}
       => x[e].k <= Len(x[e].handles)

\* Goals are sent with execution_state_mutex_ locked and the flag tested under
\* it, and the flag is only set under that mutex.
SendInv == \A e \in Execs : xpc[e] \in {"send", "sent"} => ~execution_complete_

IInv == TypeOK /\ LoopInv /\ SendInv

-----------------------------------------------------------------------------
(* Lemmas about the operators on handles.                                  *)

\* Canceling keeps a handle a handle, and starts no goal.
LEMMA CancelLemma ==
  ASSUME NEW h \in Handles
  PROVE  /\ CancelExecution(h) \in Handles
         /\ CancelExecution(h).goal = "active" => h.goal = "active"
  BY DEF CancelExecution, Handles, GoalStates, Statuses, Outcomes

\* Sending a goal keeps a handle a handle.
LEMMA SendLemma ==
  ASSUME NEW h \in Handles
  PROVE  /\ SendGoal(h) \in Handles
         /\ MarkSent(h) \in Handles
         /\ MarkSent(h).goal = h.goal
  BY DEF SendGoal, MarkSent, Handles, GoalStates, Statuses, Outcomes

\* The end of a goal and its callback keep a handle a handle, and start no goal.
LEMMA EndLemma ==
  ASSUME NEW h \in Handles, NEW outcome \in Outcomes
  PROVE  /\ ResultArrives(h, outcome) \in Handles
         /\ ResultArrives(h, outcome).goal # "active"
         /\ FinishControllerExecution(ResultArrives(h, outcome)) \in Handles
         /\ FinishControllerExecution(ResultArrives(h, outcome)).goal # "active"
  BY DEF ResultArrives, FinishControllerExecution, Handles, GoalStates, Statuses,
         Outcomes

\* The callback of a handle leaves the goal as it is.
LEMMA CallbackLemma ==
  ASSUME NEW h \in Handles, CallbackPending(h)
  PROVE  /\ FinishControllerExecution(h) \in Handles
         /\ FinishControllerExecution(h).goal = h.goal
  BY DEF FinishControllerExecution, CallbackPending, Handles, GoalStates, Statuses,
         Outcomes

\* stopExecutionInternal() cancels and starts nothing.
LEMMA StopInternalLemma ==
  ASSUME handle \in [Controllers -> Handles]
  PROVE  /\ stopExecutionInternal \in [Controllers -> Handles]
         /\ \A c \in Controllers :
              stopExecutionInternal[c].goal = "active" => handle[c].goal = "active"
  BY CancelLemma DEF stopExecutionInternal

\* What the steps of an execution thread make of its locals are locals.
LEMMA OneLocalsLemma ==
  ASSUME NEW l \in LocalsType
  PROVE  /\ \A r \in BOOLEAN : [l EXCEPT !.result = r] \in LocalsType
         /\ \A n \in Nat : [l EXCEPT !.k = n] \in LocalsType
         /\ [l EXCEPT !.handles = l.context] \in LocalsType
         /\ l.k + 1 \in Nat
         /\ \A n \in Nat : [l EXCEPT !.result = FALSE, !.k = n] \in LocalsType
<1>1. /\ \A r \in BOOLEAN : [l EXCEPT !.result = r] \in LocalsType
      /\ \A n \in Nat : [l EXCEPT !.k = n] \in LocalsType
      /\ [l EXCEPT !.handles = l.context] \in LocalsType
      /\ l.k + 1 \in Nat
  BY DEF LocalsType
<1>2. ASSUME NEW n \in Nat
      PROVE  [l EXCEPT !.result = FALSE, !.k = n] \in LocalsType
  BY DEF LocalsType
<1> QED
  BY <1>1, <1>2

\* The locals of an execution keep their types.
LEMMA LocalsLemma ==
  ASSUME x \in [Execs -> LocalsType], NEW e \in Execs
  PROVE  /\ [x EXCEPT ![e].handles = x[e].context] \in [Execs -> LocalsType]
         /\ \A r \in BOOLEAN : [x EXCEPT ![e].result = r] \in [Execs -> LocalsType]
         /\ [x EXCEPT ![e].k = 1] \in [Execs -> LocalsType]
         /\ [x EXCEPT ![e].k = x[e].k + 1] \in [Execs -> LocalsType]
         /\ [x EXCEPT ![e].result = FALSE, ![e].k = x[e].k + 1] \in [Execs -> LocalsType]
<1>1. x[e] \in LocalsType
  OBVIOUS
<1>2. /\ [x[e] EXCEPT !.handles = x[e].context] \in LocalsType
      /\ \A r \in BOOLEAN : [x[e] EXCEPT !.result = r] \in LocalsType
      /\ [x[e] EXCEPT !.k = 1] \in LocalsType
      /\ [x[e] EXCEPT !.k = x[e].k + 1] \in LocalsType
      /\ [x[e] EXCEPT !.result = FALSE, !.k = x[e].k + 1] \in LocalsType
  BY <1>1, OneLocalsLemma
<1>3. \A l \in LocalsType : [x EXCEPT ![e] = l] \in [Execs -> LocalsType]
  OBVIOUS
<1> QED
  BY <1>2, <1>3

\* What publishing the handles does to the thread and to the part.
LEMMA PublishLemma ==
  ASSUME xpc \in [Execs -> ExecSteps], x \in [Execs -> LocalsType], NEW e \in Execs,
         PublishHandles(e)
  PROVE  /\ xpc[e] = "lock"
         /\ x'[e].i = x[e].i /\ x'[e].k = x[e].k /\ x'[e].context = x[e].context
         /\ UNCHANGED <<execution_complete_, handle, pushed, executed, reported>>
         /\ \A d \in Execs : d # e => xpc'[d] = xpc[d] /\ x'[d] = x[d]
         /\ \/ /\ xpc'[e] = "index" /\ execution_complete_
               /\ UNCHANGED <<x, current_context_, active_handles_, last_execution_status_>>
            \/ /\ xpc'[e] = "send" /\ ~execution_complete_
               /\ x'[e].handles = x[e].context /\ x'[e].result = x[e].result
               /\ current_context_' = x[e].i /\ active_handles_' = x'[e].handles
               /\ UNCHANGED last_execution_status_
            \/ /\ xpc'[e] = "part_done" /\ ~x'[e].result
               /\ current_context_' = -1 /\ last_execution_status_' = "ABORTED"
<1>1. x[e] \in LocalsType
  OBVIOUS
<1>2. /\ xpc[e] = "lock"
      /\ UNCHANGED <<execution_complete_, handle, pushed, executed, reported>>
  BY DEF PublishHandles, XGoto, historyVars
<1>3. CASE XGoto(e, "lock", "index")
  BY <1>1, <1>2, <1>3 DEF PublishHandles, XGoto, partVars
<1>4. CASE XGoto(e, "lock", "send")
  <2>1. /\ ~execution_complete_ /\ current_context_' = x[e].i
        /\ active_handles_' = x[e].context
        /\ x' = [x EXCEPT ![e].handles = x[e].context]
        /\ UNCHANGED last_execution_status_
    BY <1>4 DEF PublishHandles, XGoto
  <2> QED
    BY <1>1, <1>2, <1>4, <2>1 DEF XGoto, LocalsType
<1>5. CASE XGoto(e, "lock", "part_done")
  <2>1. /\ current_context_' = -1 /\ last_execution_status_' = "ABORTED"
        /\ x' = [x EXCEPT ![e].result = FALSE]
    BY <1>5 DEF PublishHandles, XGoto
  <2> QED
    BY <1>1, <1>2, <1>5, <2>1 DEF XGoto, LocalsType
<1> QED
  BY <1>3, <1>4, <1>5 DEF PublishHandles

\* What sending a goal does to the thread and to the part.
LEMMA SendPartLemma ==
  ASSUME xpc \in [Execs -> ExecSteps], x \in [Execs -> LocalsType], NEW e \in Execs,
         SendPart(e)
  PROVE  /\ xpc[e] = "send" /\ x[e].k <= Len(x[e].handles)
         /\ x'[e].i = x[e].i /\ x'[e].k = x[e].k
         /\ x'[e].context = x[e].context /\ x'[e].handles = x[e].handles
         /\ UNCHANGED <<execution_complete_, pushed, executed, reported>>
         /\ \A d \in Execs : d # e => xpc'[d] = xpc[d] /\ x'[d] = x[d]
         /\ \/ /\ xpc'[e] = "sent"
               /\ handle' = [handle EXCEPT ![x[e].handles[x[e].k]] = SendGoal(@)]
               /\ UNCHANGED <<x, current_context_, active_handles_, last_execution_status_>>
            \/ /\ xpc'[e] = "part_done" /\ ~x'[e].result
               /\ current_context_' = -1 /\ last_execution_status_' = "ABORTED"
<1>1. x[e] \in LocalsType
  OBVIOUS
<1>2. /\ xpc[e] = "send" /\ x[e].k <= Len(x[e].handles)
      /\ UNCHANGED <<execution_complete_, pushed, executed, reported>>
  BY DEF SendPart, XGoto, historyVars
<1>3. CASE XGoto(e, "send", "sent")
  <2>1. /\ handle' = [handle EXCEPT ![x[e].handles[x[e].k]] = SendGoal(@)]
        /\ UNCHANGED <<x, current_context_, active_handles_, last_execution_status_>>
    BY <1>3 DEF SendPart, XGoto, partVars
  <2> QED
    BY <1>2, <1>3, <2>1 DEF XGoto
<1>4. CASE XGoto(e, "send", "part_done")
  <2>1. /\ current_context_' = -1 /\ last_execution_status_' = "ABORTED"
        /\ x' = [x EXCEPT ![e].result = FALSE]
    BY <1>4 DEF SendPart, XGoto
  <2> QED
    BY <1>1, <1>2, <1>4, <2>1 DEF XGoto, LocalsType
<1> QED
  BY <1>3, <1>4 DEF SendPart

\* A step of one execution thread keeps LoopInv when it keeps it for that thread.
LEMMA LoopLemma ==
  ASSUME LoopInv, NEW e \in Execs,
         \A d \in Execs : d # e => x'[d] = x[d] /\ xpc'[d] = xpc[d],
         x'[e].k >= 1,
         xpc'[e] \in {"sent", "blocked", "ended", "late", "judge", "failed"}
           => x'[e].k <= Len(x'[e].handles)
  PROVE  LoopInv'
  BY DEF LoopInv

\* So do those of a trajectory that is taken up.
LEMMA NewLocalsLemma ==
  ASSUME NEW n \in Nat, NEW t \in Seq(Controllers)
  PROVE  [Locals EXCEPT !.i = n, !.context = t] \in LocalsType
<1>1. <<>> \in Seq(Controllers)
  OBVIOUS
<1>2. Locals \in LocalsType
  BY <1>1 DEF Locals, LocalsType
<1> QED
  BY <1>2 DEF LocalsType

\* clear() leaves trajectories, or none.
LEMMA ClearLemma ==
  ASSUME trajectories_ \in Seq(Trajectories), clear
  PROVE  trajectories_' \in Seq(Trajectories)
<1>1. trajectories_' = trajectories_ \/ trajectories_' = <<>>
  BY DEF clear
<1>2. <<>> \in Seq(Trajectories)
  OBVIOUS
<1> QED
  BY <1>1, <1>2

\* push() adds one of Trajectories, or nothing.
LEMMA PushLemma ==
  ASSUME trajectories_ \in Seq(Trajectories), pushed \in Seq(Trajectories),
         NEW c \in Clients, push(c)
  PROVE  trajectories_' \in Seq(Trajectories) /\ pushed' \in Seq(Trajectories)
<1>1. CASE \E t \in Trajectories : /\ trajectories_' = Append(trajectories_, t)
                                   /\ pushed' = Append(pushed, t)
  BY <1>1
<1>2. CASE trajectories_' = trajectories_ /\ pushed' = pushed
  BY <1>2
<1> QED
  BY <1>1, <1>2 DEF push

\* A trajectory is a sequence of controllers.
LEMMA TrajectoryLemma ==
  ASSUME trajectories_ \in Seq(Trajectories), NEW i \in Nat, i < Len(trajectories_)
  PROVE  trajectories_[i + 1] \in Seq(Controllers)
<1>1. i + 1 \in 1 .. Len(trajectories_)
  OBVIOUS
<1>2. trajectories_[i + 1] \in Trajectories
  BY <1>1
<1> QED
  BY <1>2, TrajectoryExecutionAssumption

-----------------------------------------------------------------------------
(* Types, and the mutex.                                                   *)

\* The initial states satisfy the invariant.
LEMMA InitInv == Init => IInv
<1> SUFFICES ASSUME Init PROVE IInv
  OBVIOUS
<1> USE TrajectoryExecutionAssumption
<1>1. NewHandle \in Handles
  BY DEF NewHandle, Handles, GoalStates, Statuses, Outcomes
<1>2. handle \in [Controllers -> Handles]
  BY <1>1 DEF Init
<1>3. Locals \in LocalsType
  BY DEF Locals, LocalsType
<1>4. x \in [Execs -> LocalsType]
  BY <1>3 DEF Init
<1>5. /\ pc \in [Callers -> CallerSteps]
      /\ back \in [Clients -> {"validate", "return"}]
      /\ stops \in [Stoppers -> 0 .. MaxStops]
      /\ xpc \in [Execs -> ExecSteps]
  BY DEF Init, CallerSteps, ExecSteps
<1>6. /\ trajectories_ \in Seq(Trajectories)
      /\ active_handles_ \in Seq(Controllers)
      /\ pushed \in Seq(Trajectories)
  BY DEF Init
<1>7. /\ last_execution_status_ \in Statuses
      /\ execution_complete_ \in BOOLEAN
      /\ time_index_ \in BOOLEAN
      /\ execution_thread_ \in Execs \cup {NoThread}
  BY DEF Init, Statuses, Outcomes
<1>8. current_context_ \in Int
  BY DEF Init
<1>9. executed \subseteq Nat /\ reported \subseteq Nat
  BY DEF Init
<1>10. TypeOK
  BY <1>2, <1>4, <1>5, <1>6, <1>7, <1>8, <1>9 DEF TypeOK
<1> QED
  BY <1>10 DEF Init, Locals, IInv, LoopInv, SendInv

\* Every step keeps the invariant.
LEMMA StepInv == IInv /\ [Next]_vars => IInv'
<1> SUFFICES ASSUME IInv, [Next]_vars
             PROVE  IInv'
  OBVIOUS
<1>x. x \in [Execs -> LocalsType]
  BY DEF IInv, TypeOK
<1>h. handle \in [Controllers -> Handles]
  BY DEF IInv, TypeOK
<1>p. xpc \in [Execs -> ExecSteps]
  BY DEF IInv, TypeOK
<1>l. LoopInv
  BY DEF IInv
<1>s. SendInv
  BY DEF IInv
<1>a. /\ active_handles_ \in Seq(Controllers)
      /\ current_context_ \in Int
      /\ <<>> \in Seq(Controllers)
      /\ -1 \in Int
  BY DEF IInv, TypeOK
<1> USE DEF IInv, TypeOK, LoopInv, SendInv, shared, statusVars, partVars, callerVars,
        threadVars, historyVars, Goto, XGoto, NoThread
<1>1. ASSUME NEW p \in Callers, stopExecution(p)
      PROVE  IInv'
  <2>1. CASE StopTest(p)
    BY <1>1, <2>1 DEF StopTest, StopReturns, CallerSteps, Callers
  <2>2. CASE StopMark(p)
    BY <1>1, <2>2 DEF StopMark, StopReturns, CallerSteps, Callers, StateMutexFree
  <2>3. CASE StopCancel(p)
    BY <1>1, <2>3, StopInternalLemma DEF StopCancel, CallerSteps, Statuses, Outcomes
  <2>4. CASE JoinLock(p)
    BY <1>1, <2>4 DEF JoinLock, CallerSteps
  <2>5. CASE JoinThread(p)
    BY <1>1, <2>5 DEF JoinThread, StopReturns, CallerSteps, Callers
  <2>6. CASE StopClear(p)
    BY <1>1, <2>6, ClearLemma DEF StopClear, StopReturns, CallerSteps, Callers
  <2> QED
    BY <1>1, <2>1, <2>2, <2>3, <2>4, <2>5, <2>6 DEF stopExecution
<1>2. ASSUME NEW c \in Clients,
             ClearFirst(c) \/ push(c) \/ CallExecute(c) \/ execute(c) \/ SpuriousWakeup(c)
      PROVE  IInv'
  <2>1. CASE ClearFirst(c)
    <3>1. trajectories_' \in Seq(Trajectories)
      BY <2>1, ClearLemma DEF ClearFirst
    <3>2. /\ pushed' \in Seq(Trajectories)
          /\ executed' \subseteq Nat
          /\ reported' \subseteq Nat
      BY <2>1 DEF ClearFirst
    <3>3. pc' \in [Callers -> CallerSteps]
      BY <2>1 DEF ClearFirst, CallerSteps
    <3> QED
      BY <2>1, <3>1, <3>2, <3>3 DEF ClearFirst
  <2>2. CASE push(c)
    <3>1. /\ trajectories_' \in Seq(Trajectories)
          /\ pushed' \in Seq(Trajectories)
      BY <2>2, PushLemma
    <3>2. pc' \in [Callers -> CallerSteps]
      BY <2>2 DEF push, CallerSteps
    <3>3. last_execution_status_' \in Statuses
      BY <2>2 DEF push, Statuses, Outcomes
    <3> QED
      BY <2>2, <3>1, <3>2, <3>3 DEF push
  <2>3. CASE CallExecute(c)
    BY <1>2, <2>3 DEF CallExecute, CallerSteps
  <2>4. CASE Validate(c)
    <3>1. trajectories_' \in Seq(Trajectories)
      BY <2>4, ClearLemma DEF Validate
    <3>2. pc' \in [Callers -> CallerSteps]
      BY <2>4 DEF Validate, CallerSteps
    <3>3. last_execution_status_' \in Statuses
      BY <2>4 DEF Validate, Statuses, Outcomes
    <3> QED
      BY <2>4, <3>1, <3>2, <3>3 DEF Validate
  <2>5. CASE MarkStarted(c)
    BY <1>2, <2>5 DEF MarkStarted, CallerSteps
  <2>6. CASE SpawnThread(c)
    BY <1>2, <2>6 DEF SpawnThread, CallerSteps, ExecSteps, PartSteps, Published
  <2>7. CASE WaitTest(c)
    BY <1>2, <2>7 DEF WaitTest, CallerSteps
  <2>8. CASE Return(c)
    BY <1>2, <2>8 DEF Return, CallerSteps
  <2>9. CASE SpuriousWakeup(c)
    BY <1>2, <2>9 DEF SpuriousWakeup, CallerSteps
  <2> QED
    BY <1>2, <2>1, <2>2, <2>3, <2>4, <2>5, <2>6, <2>7, <2>8, <2>9 DEF execute
<1>3. ASSUME NEW s \in Stoppers, CallStop(s)
      PROVE  IInv'
  <2>1. stops[s] \in 0 .. MaxStops
    OBVIOUS
  <2>2. stops[s] - 1 \in 0 .. MaxStops
    BY <1>3, <2>1, TrajectoryExecutionAssumption DEF CallStop
  <2>3. stops' \in [Stoppers -> 0 .. MaxStops]
    BY <1>3, <2>2 DEF CallStop
  <2>4. pc' \in [Callers -> CallerSteps]
    BY <1>3 DEF CallStop, CallerSteps
  <2> QED
    BY <1>3, <2>3, <2>4 DEF CallStop
<1>4. ASSUME NEW e \in Execs, executeThread(e)
      PROVE  IInv'
  <2>0. /\ x[e].i \in Nat /\ x[e].k \in Nat
        /\ x[e].context \in Seq(Controllers) /\ x[e].handles \in Seq(Controllers)
        /\ Len(x[e].handles) \in Nat
    <3>1. x[e] \in LocalsType
      BY <1>x
    <3> QED
      BY <3>1 DEF LocalsType
  <2>x. /\ [x EXCEPT ![e].handles = x[e].context] \in [Execs -> LocalsType]
        /\ \A r \in BOOLEAN : [x EXCEPT ![e].result = r] \in [Execs -> LocalsType]
        /\ [x EXCEPT ![e].k = 1] \in [Execs -> LocalsType]
        /\ [x EXCEPT ![e].k = x[e].k + 1] \in [Execs -> LocalsType]
        /\ [x EXCEPT ![e].result = FALSE, ![e].k = x[e].k + 1] \in [Execs -> LocalsType]
    BY <1>x, LocalsLemma
  <2>1. CASE CheckStopped(e)
    BY <1>4, <2>0, <2>1 DEF CheckStopped, ExecSteps, PartSteps, Published, Statuses, Outcomes
  <2>2. CASE AssumeSuccess(e)
    BY <1>4, <2>0, <2>2 DEF AssumeSuccess, ExecSteps, PartSteps, Published, Statuses, Outcomes
  <2>3. CASE NextPart(e)
    <3>1. CASE x[e].i < Len(trajectories_)
      <4>1. x[e].i + 1 \in Nat /\ trajectories_[x[e].i + 1] \in Seq(Controllers)
        BY <2>0, <3>1, TrajectoryLemma
      <4>2. x' = [x EXCEPT ![e] = [Locals EXCEPT !.i = x[e].i + 1,
                                     !.context = trajectories_[x[e].i + 1]]]
        BY <2>3, <3>1 DEF NextPart
      <4>3. x' \in [Execs -> LocalsType]
        BY <4>1, <4>2, NewLocalsLemma DEF LocalsType
      <4>4. /\ xpc' \in [Execs -> ExecSteps]
            /\ xpc'[e] \in {"inactive", "active"}
            /\ \A d \in Execs : d # e => xpc'[d] = xpc[d] /\ x'[d] = x[d]
        BY <2>3, <3>1, <4>2 DEF NextPart, ExecSteps, PartSteps, Published
      <4>5. x'[e].k = 1
        BY <4>2, <1>x DEF Locals
      <4> QED
        BY <2>3, <4>3, <4>4, <4>5 DEF NextPart
    <3>2. CASE ~ (x[e].i < Len(trajectories_))
      BY <2>3, <3>2 DEF NextPart, ExecSteps, PartSteps, Published
    <3> QED
      BY <3>1, <3>2
  <2>4. CASE Inactive(e)
    <3> HIDE DEF IInv, TypeOK, LoopInv, SendInv
    <3>1. x' \in [Execs -> LocalsType]
      <4>1. x' = [x EXCEPT ![e].result = FALSE]
        BY <2>4 DEF Inactive
      <4> QED
        BY <2>x, <4>1
    <3>2. TypeOK'
      BY <2>4, <3>1
         DEF Inactive, IInv, TypeOK, ExecSteps, PartSteps, Published, Statuses, Outcomes
    <3>3. LoopInv'
      <4>1. /\ \A d \in Execs : d # e => x'[d] = x[d] /\ xpc'[d] = xpc[d]
            /\ x'[e].k = x[e].k
            /\ xpc'[e] = "part_done"
        BY <1>x, <1>p, <2>4 DEF Inactive, LocalsType
      <4>2. /\ x[e].k >= 1
            /\ xpc[e] \in {"ended", "judge"} => x[e].k <= Len(x[e].handles)
        BY <1>l DEF LoopInv
      <4> QED
        BY <1>l, <2>0, <4>1, <4>2, LoopLemma
    <3>4. SendInv'
      BY <1>p, <1>s, <2>4 DEF Inactive, SendInv
    <3> QED
      BY <3>2, <3>3, <3>4 DEF IInv
  <2>5. CASE CheckStoppedBeforePart(e)
    <3> HIDE DEF IInv, TypeOK, LoopInv, SendInv
    <3>1. x' \in [Execs -> LocalsType]
      <4>1. x' = [x EXCEPT ![e].result = ~execution_complete_] /\ (~execution_complete_) \in BOOLEAN
        BY <2>5 DEF CheckStoppedBeforePart
      <4> QED
        BY <2>x, <4>1
    <3>2. TypeOK'
      BY <2>5, <3>1
         DEF CheckStoppedBeforePart, IInv, TypeOK, ExecSteps, PartSteps, Published
    <3>3. LoopInv'
      <4>1. /\ \A d \in Execs : d # e => x'[d] = x[d] /\ xpc'[d] = xpc[d]
            /\ x'[e].k = x[e].k
            /\ xpc'[e] \in {"part_done", "lock"}
        BY <1>x, <1>p, <2>5 DEF CheckStoppedBeforePart, LocalsType
      <4>2. /\ x[e].k >= 1
            /\ xpc[e] \in {"ended", "judge"} => x[e].k <= Len(x[e].handles)
        BY <1>l DEF LoopInv
      <4> QED
        BY <1>l, <2>0, <4>1, <4>2, LoopLemma
    <3>4. SendInv'
      BY <1>p, <1>s, <2>5 DEF CheckStoppedBeforePart, SendInv
    <3> QED
      BY <3>2, <3>3, <3>4 DEF IInv
  <2>6. CASE PublishHandles(e)
    <3> HIDE DEF IInv, TypeOK, LoopInv, SendInv
    <3>1. x' \in [Execs -> LocalsType]
      <4>1. \/ x' = x
            \/ x' = [x EXCEPT ![e].handles = x[e].context]
            \/ x' = [x EXCEPT ![e].result = FALSE]
        BY <2>6 DEF PublishHandles
      <4> QED
        BY <1>x, <2>x, <4>1
    <3>2. active_handles_' \in Seq(Controllers) /\ current_context_' \in Int
      <4>1. /\ active_handles_' \in {active_handles_, x[e].context, <<>>}
            /\ current_context_' \in {current_context_, x[e].i, -1}
        BY <2>6 DEF PublishHandles, partVars
      <4>2. active_handles_' \in Seq(Controllers)
        BY <1>a, <2>0, <4>1
      <4>3. x[e].i \in Int
        BY <2>0
      <4>4. current_context_' \in Int
        BY <1>a, <4>1, <4>3
      <4> QED
        BY <4>2, <4>4
    <3>3. last_execution_status_' \in Statuses
      BY <2>6 DEF PublishHandles, IInv, TypeOK, Statuses, Outcomes
    <3>4. TypeOK'
      BY <2>6, <3>1, <3>2, <3>3
         DEF PublishHandles, IInv, TypeOK, ExecSteps, PartSteps, Published
    <3>5. LoopInv'
      <4>1. /\ \A d \in Execs : d # e => x'[d] = x[d] /\ xpc'[d] = xpc[d]
            /\ x'[e].k = x[e].k
            /\ xpc'[e] \in {"index", "send", "part_done"}
        BY <1>x, <1>p, <2>6 DEF PublishHandles, LocalsType
      <4>2. /\ x[e].k >= 1
            /\ xpc[e] \in {"ended", "judge"} => x[e].k <= Len(x[e].handles)
        BY <1>l DEF LoopInv
      <4> QED
        BY <1>l, <2>0, <4>1, <4>2, LoopLemma
    <3>6. SendInv'
      BY <1>p, <1>s, <2>6 DEF PublishHandles, SendInv
    <3> QED
      BY <3>4, <3>5, <3>6 DEF IInv
  <2>7. CASE SendPart(e)
    <3> HIDE DEF IInv, TypeOK, LoopInv, SendInv
    <3>1. x' \in [Execs -> LocalsType]
      <4>1. x' = x \/ x' = [x EXCEPT ![e].result = FALSE]
        BY <2>7 DEF SendPart
      <4> QED
        BY <1>x, <2>x, <4>1
    <3>2. active_handles_' \in Seq(Controllers) /\ current_context_' \in Int
      <4>1. /\ active_handles_' \in {active_handles_, <<>>}
            /\ current_context_' \in {current_context_, -1}
        BY <2>7 DEF SendPart, partVars
      <4> QED
        BY <1>a, <2>0, <4>1
    <3>3. last_execution_status_' \in Statuses
      BY <2>7 DEF SendPart, IInv, TypeOK, Statuses, Outcomes
    <3>4. handle' \in [Controllers -> Handles]
      <4>1. CASE handle' = [handle EXCEPT ![x[e].handles[x[e].k]] = SendGoal(@)]
        BY <1>h, <4>1, SendLemma
      <4>2. CASE handle' = [c \in Controllers |->
                              IF \E j \in 1 .. (x[e].k - 1) : x[e].handles[j] = c
                              THEN CancelExecution(handle[c]) ELSE handle[c]]
        BY <1>h, <4>2, CancelLemma
      <4> QED
        BY <2>7, <4>1, <4>2 DEF SendPart
    <3>5. TypeOK'
      BY <2>7, <3>1, <3>2, <3>3, <3>4
         DEF SendPart, IInv, TypeOK, ExecSteps, PartSteps, Published
    <3>6. LoopInv'
      <4>1. /\ \A d \in Execs : d # e => x'[d] = x[d] /\ xpc'[d] = xpc[d]
            /\ x'[e].k = x[e].k /\ x'[e].handles = x[e].handles
            /\ xpc'[e] \in {"sent", "part_done"}
            /\ x[e].k <= Len(x[e].handles)
        BY <1>x, <1>p, <2>7, SendPartLemma
      <4>2. /\ x[e].k >= 1
            /\ xpc[e] \in {"ended", "judge"} => x[e].k <= Len(x[e].handles)
        BY <1>l DEF LoopInv
      <4> QED
        BY <1>l, <2>0, <4>1, <4>2, LoopLemma
    <3>7. SendInv'
      BY <1>p, <1>s, <2>7 DEF SendPart, SendInv
    <3> QED
      BY <3>5, <3>6, <3>7 DEF IInv
  <2>8. CASE PartSent(e)
    <3> HIDE DEF IInv, TypeOK, LoopInv, SendInv
    <3>1. x' \in [Execs -> LocalsType]
      <4>1. x' = [x EXCEPT ![e].k = x[e].k + 1]
        BY <2>8 DEF PartSent
      <4> QED
        BY <2>x, <4>1
    <3>2. handle' \in [Controllers -> Handles]
      BY <1>h, <2>8, SendLemma DEF PartSent
    <3>3. TypeOK'
      BY <2>8, <3>1, <3>2
         DEF PartSent, IInv, TypeOK, ExecSteps, PartSteps, Published
    <3>4. LoopInv'
      <4>1. /\ \A d \in Execs : d # e => x'[d] = x[d] /\ xpc'[d] = xpc[d]
            /\ x'[e].k = x[e].k + 1
            /\ xpc'[e] = "send"
        BY <1>x, <1>p, <2>8 DEF PartSent, LocalsType
      <4>2. /\ x[e].k >= 1
            /\ xpc[e] \in {"ended", "judge"} => x[e].k <= Len(x[e].handles)
        BY <1>l DEF LoopInv
      <4> QED
        BY <1>l, <2>0, <4>1, <4>2, LoopLemma
    <3>5. SendInv'
      BY <1>p, <1>s, <2>8 DEF PartSent, SendInv
    <3> QED
      BY <3>3, <3>4, <3>5 DEF IInv
  <2>9. CASE AllSent(e)
    <3> HIDE DEF IInv, TypeOK, LoopInv, SendInv
    <3>1. x' \in [Execs -> LocalsType]
      <4>1. x' = [x EXCEPT ![e].k = 1]
        BY <2>9 DEF AllSent
      <4> QED
        BY <2>x, <4>1
    <3>2. TypeOK'
      BY <2>9, <3>1
         DEF AllSent, IInv, TypeOK, ExecSteps, PartSteps, Published
    <3>3. LoopInv'
      <4>1. /\ \A d \in Execs : d # e => x'[d] = x[d] /\ xpc'[d] = xpc[d]
            /\ x'[e].k = 1
            /\ xpc'[e] = "index"
        BY <1>x, <1>p, <2>9 DEF AllSent, LocalsType
      <4>2. /\ x[e].k >= 1
            /\ xpc[e] \in {"ended", "judge"} => x[e].k <= Len(x[e].handles)
        BY <1>l DEF LoopInv
      <4> QED
        BY <1>l, <2>0, <4>1, <4>2, LoopLemma
    <3>4. SendInv'
      BY <1>p, <1>s, <2>9 DEF AllSent, SendInv
    <3> QED
      BY <3>2, <3>3, <3>4 DEF IInv
  <2>10. CASE FillTimeIndex(e)
    BY <1>4, <2>0, <2>10 DEF FillTimeIndex, ExecSteps, PartSteps, Published
  <2>11. CASE AwaitPart(e)
    <3>1. TypeOK'
      BY <1>4, <2>0, <2>11 DEF AwaitPart, ExecSteps, PartSteps, Published
    <3>2. LoopInv'
      BY <1>4, <2>0, <2>11 DEF AwaitPart, ExecSteps, PartSteps, Published
    <3>3. SendInv'
      BY <1>4, <2>0, <2>11 DEF AwaitPart, ExecSteps, PartSteps, Published
    <3> QED
      BY <3>1, <3>2, <3>3
  <2>12. CASE ResultSeen(e)
    BY <1>4, <2>0, <2>12 DEF ResultSeen, ExecSteps, PartSteps, Published
  <2>13. CASE WaitTimesOut(e)
    BY <1>4, <2>0, <2>13 DEF WaitTimesOut, ExecSteps, PartSteps, Published
  <2>14. CASE CancelLate(e)
    BY <1>4, <2>0, <2>14, StopInternalLemma DEF CancelLate, ExecSteps, PartSteps, Published
  <2>15. CASE ReportLate(e)
    <3> HIDE DEF IInv, TypeOK, LoopInv, SendInv
    <3>1. x' \in [Execs -> LocalsType]
      <4>1. x' = [x EXCEPT ![e].result = FALSE]
        BY <2>15 DEF ReportLate
      <4> QED
        BY <2>x, <4>1
    <3>2. TypeOK'
      BY <2>15, <3>1
         DEF ReportLate, IInv, TypeOK, ExecSteps, PartSteps, Published, Statuses, Outcomes
    <3>3. LoopInv'
      <4>1. /\ \A d \in Execs : d # e => x'[d] = x[d] /\ xpc'[d] = xpc[d]
            /\ x'[e].k = x[e].k
            /\ xpc'[e] = "cleanup"
        BY <1>x, <1>p, <2>15 DEF ReportLate, LocalsType
      <4>2. /\ x[e].k >= 1
            /\ xpc[e] \in {"ended", "judge"} => x[e].k <= Len(x[e].handles)
        BY <1>l DEF LoopInv
      <4> QED
        BY <1>l, <2>0, <4>1, <4>2, LoopLemma
    <3>4. SendInv'
      BY <1>p, <1>s, <2>15 DEF ReportLate, SendInv
    <3> QED
      BY <3>2, <3>3, <3>4 DEF IInv
  <2>16. CASE CheckStoppedAfterWait(e)
    <3> HIDE DEF IInv, TypeOK, LoopInv, SendInv
    <3>1. x' \in [Execs -> LocalsType]
      <4>1. /\ x' = [x EXCEPT ![e].result = x[e].result /\ ~execution_complete_]
            /\ (x[e].result /\ ~execution_complete_) \in BOOLEAN
        BY <2>16 DEF CheckStoppedAfterWait
      <4> QED
        BY <2>x, <4>1
    <3>2. TypeOK'
      BY <2>16, <3>1
         DEF CheckStoppedAfterWait, IInv, TypeOK, ExecSteps, PartSteps, Published
    <3>3. LoopInv'
      <4>1. /\ \A d \in Execs : d # e => x'[d] = x[d] /\ xpc'[d] = xpc[d]
            /\ x'[e].k = x[e].k /\ x'[e].handles = x[e].handles
            /\ xpc'[e] \in {"cleanup", "judge"}
            /\ xpc[e] = "ended"
        BY <1>x, <1>p, <2>16 DEF CheckStoppedAfterWait, LocalsType
      <4>2. /\ x[e].k >= 1
            /\ xpc[e] \in {"ended", "judge"} => x[e].k <= Len(x[e].handles)
        BY <1>l DEF LoopInv
      <4> QED
        BY <1>l, <2>0, <4>1, <4>2, LoopLemma
    <3>4. SendInv'
      BY <1>p, <1>s, <2>16 DEF CheckStoppedAfterWait, SendInv
    <3> QED
      BY <3>2, <3>3, <3>4 DEF IInv
  <2>17. CASE JudgeHandle(e)
    <3> HIDE DEF IInv, TypeOK, LoopInv, SendInv
    <3>1. x' \in [Execs -> LocalsType]
      <4>1. x' = x \/ x' = [x EXCEPT ![e].k = x[e].k + 1]
        BY <2>17 DEF JudgeHandle
      <4> QED
        BY <1>x, <2>x, <4>1
    <3>2. TypeOK'
      BY <2>17, <3>1
         DEF JudgeHandle, IInv, TypeOK, ExecSteps, PartSteps, Published
    <3>3. LoopInv'
      <4>1. /\ \A d \in Execs : d # e => x'[d] = x[d] /\ xpc'[d] = xpc[d]
            /\ xpc[e] = "judge"
            /\ \/ xpc'[e] = "await" /\ x'[e].k = x[e].k + 1
               \/ xpc'[e] = "failed" /\ x' = x
        BY <1>x, <1>p, <2>17 DEF JudgeHandle, LocalsType
      <4>2. /\ x[e].k >= 1
            /\ xpc[e] \in {"ended", "judge"} => x[e].k <= Len(x[e].handles)
        BY <1>l DEF LoopInv
      <4> QED
        BY <1>l, <2>0, <4>1, <4>2, LoopLemma
    <3>4. SendInv'
      BY <1>p, <1>s, <2>17 DEF JudgeHandle, SendInv
    <3> QED
      BY <3>2, <3>3, <3>4 DEF IInv
  <2>18. CASE ReportFailed(e)
    <3> HIDE DEF IInv, TypeOK, LoopInv, SendInv
    <3>1. x' \in [Execs -> LocalsType]
      <4>1. x' = [x EXCEPT ![e].result = FALSE, ![e].k = x[e].k + 1]
        BY <2>18 DEF ReportFailed
      <4> QED
        BY <2>x, <4>1
    <3>2. last_execution_status_' \in Statuses
      <4>1. x[e].k \in 1 .. Len(x[e].handles)
        BY <1>l, <2>0, <2>18 DEF ReportFailed, LoopInv
      <4>2. x[e].handles[x[e].k] \in Controllers
        BY <2>0, <4>1
      <4> QED
        BY <1>h, <2>18, <4>2 DEF ReportFailed, Awaited, Handles
    <3>3. TypeOK'
      BY <2>18, <3>1, <3>2
         DEF ReportFailed, IInv, TypeOK, ExecSteps, PartSteps, Published
    <3>4. LoopInv'
      <4>1. /\ \A d \in Execs : d # e => x'[d] = x[d] /\ xpc'[d] = xpc[d]
            /\ x'[e].k = x[e].k + 1
            /\ xpc'[e] = "await"
        BY <1>x, <1>p, <2>18 DEF ReportFailed, LocalsType
      <4>2. /\ x[e].k >= 1
            /\ xpc[e] \in {"ended", "judge"} => x[e].k <= Len(x[e].handles)
        BY <1>l DEF LoopInv
      <4> QED
        BY <1>l, <2>0, <4>1, <4>2, LoopLemma
    <3>5. SendInv'
      BY <1>p, <1>s, <2>18 DEF ReportFailed, SendInv
    <3> QED
      BY <3>3, <3>4, <3>5 DEF IInv
  <2>19. CASE CleanUpPart(e)
    <3> HIDE DEF IInv, TypeOK, LoopInv, SendInv
    <3>1. executed' \subseteq Nat
      <4>1. executed \subseteq Nat
        BY DEF IInv, TypeOK
      <4> QED
        BY <2>0, <2>19, <4>1 DEF CleanUpPart
    <3>2. active_handles_' \in Seq(Controllers) /\ current_context_' \in Int
      BY <1>a, <2>19 DEF CleanUpPart
    <3>3. TypeOK'
      BY <2>19, <3>1, <3>2
         DEF CleanUpPart, IInv, TypeOK, ExecSteps, PartSteps, Published
    <3>4. LoopInv'
      <4>1. /\ \A d \in Execs : d # e => x'[d] = x[d] /\ xpc'[d] = xpc[d]
            /\ x' = x
            /\ xpc'[e] = "part_done"
        BY <1>x, <1>p, <2>19 DEF CleanUpPart
      <4>2. /\ x[e].k >= 1
            /\ xpc[e] \in {"ended", "judge"} => x[e].k <= Len(x[e].handles)
        BY <1>l DEF LoopInv
      <4> QED
        BY <1>l, <2>0, <4>1, <4>2, LoopLemma
    <3>5. SendInv'
      BY <1>p, <1>s, <2>19 DEF CleanUpPart, SendInv
    <3> QED
      BY <3>3, <3>4, <3>5 DEF IInv
  <2>20. CASE ReportPart(e)
    BY <1>4, <2>0, <2>20 DEF ReportPart, ExecSteps, PartSteps, Published
  <2>21. CASE ContinueOrBreak(e)
    BY <1>4, <2>0, <2>21 DEF ContinueOrBreak, ExecSteps, PartSteps, Published
  <2>22. CASE WaitForRobotToStop(e)
    BY <1>4, <2>0, <2>22 DEF WaitForRobotToStop, ExecSteps, PartSteps, Published
  <2>23. CASE MarkComplete(e)
    BY <1>4, <2>0, <2>23 DEF MarkComplete, ExecSteps, PartSteps, Published, StateMutexFree
  <2>24. CASE NotifyWaiters(e)
    BY <1>4, <2>0, <2>24 DEF NotifyWaiters, ExecSteps, PartSteps, Published, CallerSteps
  <2>25. CASE ClearAndExit(e)
    BY <1>4, <2>0, <2>25, ClearLemma DEF ClearAndExit, ExecSteps, PartSteps, Published
  <2> QED
    BY <1>4, <2>0, <2>1, <2>2, <2>3, <2>4, <2>5, <2>6, <2>7, <2>8, <2>9, <2>10,
       <2>11, <2>12, <2>13, <2>14, <2>15, <2>16, <2>17, <2>18, <2>19, <2>20, <2>21,
       <2>22, <2>23, <2>24, <2>25
       DEF executeThread, executePart
<1>5. ASSUME NEW c \in Controllers, GoalEnds(c)
      PROVE  IInv'
  BY <1>5, EndLemma DEF GoalEnds
<1>6. ASSUME NEW c \in Controllers, DoneCallback(c)
      PROVE  IInv'
  BY <1>6, CallbackLemma DEF DoneCallback
<1>7. CASE UNCHANGED vars
  BY <1>7 DEF vars
<1> QED
  BY <1>1, <1>2, <1>3, <1>4, <1>5, <1>6, <1>7 DEF Next

\* The invariant holds.
THEOREM Invariance == Spec => []IInv
  BY InitInv, StepInv, PTL DEF Spec

\* The members, the handles and the threads' positions keep their types.
THEOREM TypeCorrect == Spec => []TypeOK
<1>1. IInv => TypeOK
  BY DEF IInv
<1> QED
  BY <1>1, Invariance, PTL

-----------------------------------------------------------------------------
(* No goal after a stop.                                                   *)

NoGoalStep ==
  \A c \in Controllers :
    handle'[c].goal = "active" /\ handle[c].goal # "active" => ~execution_complete_

\* Only the action that sends starts a goal, and it does so at a step where the
\* flag is known not to be set.
LEMMA GoalStep == IInv /\ [Next]_vars => NoGoalStep
<1> SUFFICES ASSUME IInv, [Next]_vars
             PROVE  NoGoalStep
  OBVIOUS
<1>h. handle \in [Controllers -> Handles]
  BY DEF IInv, TypeOK
<1>s. SendInv
  BY DEF IInv
<1>u. ASSUME UNCHANGED handle
      PROVE  NoGoalStep
  BY <1>u DEF NoGoalStep
<1>1. ASSUME NEW p \in Callers, stopExecution(p)
      PROVE  NoGoalStep
  <2>1. CASE StopCancel(p)
    BY <1>h, <2>1, StopInternalLemma DEF StopCancel, NoGoalStep
  <2>2. CASE StopTest(p) \/ StopMark(p) \/ JoinLock(p) \/ JoinThread(p) \/ StopClear(p)
    BY <1>u, <2>2
       DEF StopTest, StopMark, JoinLock, JoinThread, StopClear, shared
  <2> QED
    BY <1>1, <2>1, <2>2 DEF stopExecution
<1>2. ASSUME NEW c \in Clients,
             ClearFirst(c) \/ push(c) \/ CallExecute(c) \/ execute(c) \/ SpuriousWakeup(c)
      PROVE  NoGoalStep
  BY <1>u, <1>2
     DEF ClearFirst, push, CallExecute, execute, Validate, MarkStarted, SpawnThread,
         WaitTest, Return, SpuriousWakeup, shared
<1>3. ASSUME NEW s \in Stoppers, CallStop(s)
      PROVE  NoGoalStep
  BY <1>u, <1>3 DEF CallStop, shared
<1>4. ASSUME NEW e \in Execs, executeThread(e)
      PROVE  NoGoalStep
  <2>1. CASE SendPart(e)
    BY <1>s, <2>1 DEF SendPart, SendInv, XGoto, NoGoalStep
  <2>2. CASE PartSent(e)
    BY <1>h, <2>2, SendLemma DEF PartSent, NoGoalStep
  <2>3. CASE CancelLate(e)
    BY <1>h, <2>3, StopInternalLemma DEF CancelLate, NoGoalStep
  <2>4. CASE \/ CheckStopped(e) \/ AssumeSuccess(e) \/ NextPart(e) \/ Inactive(e)
             \/ CheckStoppedBeforePart(e) \/ PublishHandles(e) \/ AllSent(e)
             \/ FillTimeIndex(e) \/ AwaitPart(e) \/ ResultSeen(e) \/ WaitTimesOut(e)
             \/ ReportLate(e) \/ CheckStoppedAfterWait(e) \/ JudgeHandle(e)
             \/ ReportFailed(e) \/ CleanUpPart(e) \/ ReportPart(e)
             \/ ContinueOrBreak(e) \/ WaitForRobotToStop(e) \/ MarkComplete(e)
             \/ NotifyWaiters(e) \/ ClearAndExit(e)
    BY <1>u, <2>4
       DEF CheckStopped, AssumeSuccess, NextPart, Inactive, CheckStoppedBeforePart,
           PublishHandles, AllSent, FillTimeIndex, AwaitPart, ResultSeen, WaitTimesOut,
           ReportLate, CheckStoppedAfterWait, JudgeHandle, ReportFailed, CleanUpPart,
           ReportPart, ContinueOrBreak, WaitForRobotToStop, MarkComplete, NotifyWaiters,
           ClearAndExit, shared
  <2> QED
    BY <1>4, <2>1, <2>2, <2>3, <2>4 DEF executeThread, executePart
<1>5. ASSUME NEW c \in Controllers, GoalEnds(c)
      PROVE  NoGoalStep
  BY <1>h, <1>5, EndLemma DEF GoalEnds, NoGoalStep
<1>6. ASSUME NEW c \in Controllers, DoneCallback(c)
      PROVE  NoGoalStep
  BY <1>h, <1>6, CallbackLemma DEF DoneCallback, NoGoalStep
<1>7. CASE UNCHANGED vars
  BY <1>u, <1>7 DEF vars, shared
<1> QED
  BY <1>1, <1>2, <1>3, <1>4, <1>5, <1>6, <1>7 DEF Next

\* Once execution_complete_ is set, by a stop or by the end of the execution, no
\* goal is sent to any controller before the next execution starts.
THEOREM NoGoalAfterStopAlways == Spec => NoGoalAfterStop
<1>1. IInv /\ [Next]_vars => [NoGoalStep]_vars
  BY GoalStep
<1>2. NoGoalAfterStop <=> [][NoGoalStep]_vars
  BY DEF NoGoalAfterStop, NoGoalStep
<1> QED
  BY <1>1, <1>2, Invariance, PTL DEF Spec

-----------------------------------------------------------------------------
(* One execution at a time, for one client.                                *)

\* The manager is used by a single client, besides any number of stoppers.
OneClient == \A c, d \in Clients : c = d

\* A client joins without auto_clear, never stops anything itself, and only
\* between the start and the end of its wait finds an execution under way.
ClientInv == \A c \in Clients :
  /\ pc[c] \notin {"stop_lock", "stop_cancel", "join_lock_clear", "join_clear", "stop_clear"}
  /\ pc[c] \notin {"spawn", "wait", "asleep", "woken"} => execution_complete_
  /\ pc[c] \in {"validate", "start", "spawn"} => execution_thread_ = NoThread

\* The manager knows the thread that lives.
LiveInv == \A e \in Execs :
  xpc[e] \notin {"unborn", "exited"} => execution_thread_ = e

\* A stopper does not take the steps of a client.
StopperInv == \A s \in Stoppers :
  pc[s] \in {"idle", "stop", "stop_lock", "stop_cancel", "join_lock", "join_lock_clear",
             "join", "join_clear", "stop_clear"}

ThreadInv == ClientInv /\ LiveInv /\ StopperInv

\* At first nobody executes.
LEMMA ThreadInit == Init => ThreadInv
  BY DEF Init, ThreadInv, ClientInv, LiveInv, StopperInv, Callers

\* Every step keeps the invariant.  Lines 954 and 985 of a client find the
\* execution complete, so that it always joins the thread there is.
LEMMA ThreadStep ==
  ASSUME OneClient, IInv, ThreadInv, [Next]_vars
  PROVE  ThreadInv'
<1>t. /\ pc \in [Callers -> CallerSteps]
      /\ xpc \in [Execs -> ExecSteps]
      /\ back \in [Clients -> {"validate", "return"}]
      /\ execution_thread_ \in Execs \cup {NoThread}
  BY DEF IInv, TypeOK
<1>d. Clients \cap Stoppers = {}
  BY TrajectoryExecutionAssumption
<1> HIDE DEF IInv
<1> USE DEF ThreadInv, ClientInv, LiveInv, StopperInv, OneClient, Callers, Goto, XGoto,
            shared, statusVars, partVars, callerVars, threadVars, historyVars
<1>1. ASSUME NEW p \in Callers, stopExecution(p)
      PROVE  ThreadInv'
  <2>1. CASE StopTest(p)
    BY <1>t, <1>d, <2>1 DEF StopTest, StopReturns
  <2>2. CASE StopMark(p)
    BY <1>t, <1>d, <2>2 DEF StopMark, StopReturns
  <2>3. CASE StopCancel(p)
    BY <1>t, <1>d, <2>3 DEF StopCancel
  <2>4. CASE JoinLock(p)
    BY <1>t, <1>d, <2>4 DEF JoinLock
  <2>5. CASE JoinThread(p)
    BY <1>t, <1>d, <2>5 DEF JoinThread, StopReturns
  <2>6. CASE StopClear(p)
    BY <1>t, <1>d, <2>6 DEF StopClear, StopReturns
  <2> QED
    BY <1>1, <2>1, <2>2, <2>3, <2>4, <2>5, <2>6 DEF stopExecution
<1>2. ASSUME NEW c \in Clients,
             ClearFirst(c) \/ push(c) \/ CallExecute(c) \/ execute(c) \/ SpuriousWakeup(c)
      PROVE  ThreadInv'
  <2>1. CASE ClearFirst(c)
    BY <1>t, <1>d, <2>1 DEF ClearFirst
  <2>2. CASE push(c)
    BY <1>t, <1>d, <2>2 DEF push
  <2>3. CASE CallExecute(c)
    BY <1>t, <1>d, <2>3 DEF CallExecute
  <2>4. CASE Validate(c)
    BY <1>t, <1>d, <2>4 DEF Validate
  <2>5. CASE MarkStarted(c)
    BY <1>t, <1>d, <2>5 DEF MarkStarted
  <2>6. CASE SpawnThread(c)
    BY <1>t, <1>d, <2>6 DEF SpawnThread, Execs, NoThread
  <2>7. CASE WaitTest(c)
    BY <1>t, <1>d, <2>7 DEF WaitTest
  <2>8. CASE Return(c)
    BY <1>t, <1>d, <2>8 DEF Return
  <2>9. CASE SpuriousWakeup(c)
    BY <1>t, <1>d, <2>9 DEF SpuriousWakeup
  <2> QED
    BY <1>2, <2>1, <2>2, <2>3, <2>4, <2>5, <2>6, <2>7, <2>8, <2>9 DEF execute
<1>3. ASSUME NEW s \in Stoppers, CallStop(s)
      PROVE  ThreadInv'
  BY <1>t, <1>d, <1>3 DEF CallStop
<1>4. ASSUME NEW e \in Execs, executeThread(e)
      PROVE  ThreadInv'
  <2>1. CASE CheckStopped(e)
    BY <1>t, <1>d, <2>1 DEF CheckStopped
  <2>2. CASE AssumeSuccess(e)
    BY <1>t, <1>d, <2>2 DEF AssumeSuccess
  <2>3. CASE NextPart(e)
    BY <1>t, <1>d, <2>3 DEF NextPart
  <2>4. CASE Inactive(e)
    BY <1>t, <1>d, <2>4 DEF Inactive
  <2>5. CASE CheckStoppedBeforePart(e)
    BY <1>t, <1>d, <2>5 DEF CheckStoppedBeforePart
  <2>6. CASE PublishHandles(e)
    BY <1>t, <1>d, <2>6 DEF PublishHandles
  <2>7. CASE SendPart(e)
    BY <1>t, <1>d, <2>7 DEF SendPart
  <2>8. CASE PartSent(e)
    BY <1>t, <1>d, <2>8 DEF PartSent
  <2>9. CASE AllSent(e)
    BY <1>t, <1>d, <2>9 DEF AllSent
  <2>10. CASE FillTimeIndex(e)
    BY <1>t, <1>d, <2>10 DEF FillTimeIndex
  <2>11. CASE AwaitPart(e)
    BY <1>t, <1>d, <2>11 DEF AwaitPart
  <2>12. CASE ResultSeen(e)
    BY <1>t, <1>d, <2>12 DEF ResultSeen
  <2>13. CASE WaitTimesOut(e)
    BY <1>t, <1>d, <2>13 DEF WaitTimesOut
  <2>14. CASE CancelLate(e)
    BY <1>t, <1>d, <2>14 DEF CancelLate
  <2>15. CASE ReportLate(e)
    BY <1>t, <1>d, <2>15 DEF ReportLate
  <2>16. CASE CheckStoppedAfterWait(e)
    BY <1>t, <1>d, <2>16 DEF CheckStoppedAfterWait
  <2>17. CASE JudgeHandle(e)
    BY <1>t, <1>d, <2>17 DEF JudgeHandle
  <2>18. CASE ReportFailed(e)
    BY <1>t, <1>d, <2>18 DEF ReportFailed
  <2>19. CASE CleanUpPart(e)
    BY <1>t, <1>d, <2>19 DEF CleanUpPart
  <2>20. CASE ReportPart(e)
    BY <1>t, <1>d, <2>20 DEF ReportPart
  <2>21. CASE ContinueOrBreak(e)
    BY <1>t, <1>d, <2>21 DEF ContinueOrBreak
  <2>22. CASE WaitForRobotToStop(e)
    BY <1>t, <1>d, <2>22 DEF WaitForRobotToStop
  <2>23. CASE ClearAndExit(e)
    BY <1>t, <1>d, <2>23 DEF ClearAndExit
  <2>24. CASE MarkComplete(e)
    BY <1>t, <1>d, <2>24 DEF MarkComplete
  <2>25. CASE NotifyWaiters(e)
    BY <1>t, <1>d, <2>25 DEF NotifyWaiters
  <2> QED
    BY <1>4, <2>1, <2>2, <2>3, <2>4, <2>5, <2>6, <2>7, <2>8, <2>9, <2>10, <2>11,
       <2>12, <2>13, <2>14, <2>15, <2>16, <2>17, <2>18, <2>19, <2>20, <2>21, <2>22,
       <2>23, <2>24, <2>25
       DEF executeThread, executePart
<1>5. ASSUME NEW c \in Controllers, GoalEnds(c) \/ DoneCallback(c)
      PROVE  ThreadInv'
  BY <1>5 DEF GoalEnds, DoneCallback
<1>6. CASE UNCHANGED vars
  BY <1>6 DEF vars
<1> QED
  BY <1>1, <1>2, <1>3, <1>4, <1>5, <1>6 DEF Next

\* With one client, a thread is only created when the previous one was joined, and
\* at most one execution thread lives, whatever the stoppers do.
THEOREM OneExecutionAlways ==
  ASSUME OneClient
  PROVE  Spec => []OneExecution
<1>1. ThreadInv => OneExecution
  BY DEF ThreadInv, ClientInv, LiveInv, OneExecution
<1>2. IInv /\ ThreadInv /\ [Next]_vars => ThreadInv'
  BY ThreadStep
<1> QED
  BY <1>1, <1>2, ThreadInit, Invariance, PTL DEF Spec

-----------------------------------------------------------------------------
(* A stop reaches what runs, for one client and where no wait times out at *)
(* the very limit (the race "tie", after which a part is given up as       *)
(* failed while its goal runs).                                            *)

\* Nobody stops while goals are sent.
MutexInv == \A p \in Callers, e \in Execs :
  pc[p] = "stop_cancel" => xpc[e] \notin {"send", "sent"}

\* A goal that runs and was not canceled has no callback to come, and its handle
\* is not done, so that it would be canceled; but for the moment before
\* sendTrajectory() has marked it.
HandleInv == \A c \in Controllers : handle[c].goal = "active" =>
  /\ handle[c].callback = "none"
  /\ handle[c].done_ => \E e \in Execs : xpc[e] = "sent" /\ x[e].handles[x[e].k] = c

\* When the execution is complete nothing runs but what is about to be canceled.
StoppedInv == \A c \in Controllers :
  execution_complete_ /\ handle[c].goal = "active" =>
    \E p \in Callers : pc[p] = "stop_cancel"

\* The thread has sent a goal to c and has not come past it in its waits.  A
\* handle whose wait has ended is done, unless a stop ended the wait.
WaitsAt(e, j) ==
  \/ xpc[e] = "send" /\ j < x[e].k
  \/ xpc[e] = "sent" /\ j <= x[e].k
  \/ xpc[e] \in {"index", "await", "blocked", "late"} /\ j >= x[e].k
  \/ xpc[e] = "ended" /\ j >= x[e].k /\ (j = x[e].k => execution_complete_)
  \/ xpc[e] \in {"judge", "failed"} /\ j > x[e].k
  \/ xpc[e] = "cleanup" /\ execution_complete_

WaitsFor(e, c) == \E j \in 1 .. Len(x[e].handles) :
  x[e].handles[j] = c /\ WaitsAt(e, j)

\* What runs belongs to a thread that is in the part and has it published.
GoalInv == \A c \in Controllers : handle[c].goal = "active" =>
  \E e \in Execs : active_handles_ = x[e].handles /\ WaitsFor(e, c)

\* The loops begin with the first handle, and what is sent is published.
FirstInv == \A e \in Execs :
  /\ xpc[e] \in {"inactive", "active", "lock", "index"} => x[e].k = 1
  /\ xpc[e] \in {"send", "sent"} => active_handles_ = x[e].handles

RunInv == HandleInv /\ StoppedInv /\ GoalInv
CancelInv == MutexInv /\ FirstInv /\ RunInv

\* While nothing runs the invariants say nothing.
LEMMA CalmLemma ==
  ASSUME \A c \in Controllers : handle'[c].goal # "active"
  PROVE  RunInv'
  BY DEF RunInv, HandleInv, StoppedInv, GoalInv

\* Outside a part nothing runs.
LEMMA IdleLemma ==
  ASSUME GoalInv,
         \A e \in Execs : xpc[e] \notin Published \ {"timed_out"}
  PROVE  \A c \in Controllers : handle[c].goal # "active"
  BY DEF GoalInv, WaitsFor, WaitsAt, Published

\* The only thread that lives is the one that looks at the handles.
LEMMA OneLivesLemma ==
  ASSUME LiveInv, NEW e \in Execs, xpc[e] \notin {"unborn", "exited"}
  PROVE  \A d \in Execs : d # e => xpc[d] \in {"unborn", "exited"}
  BY DEF LiveInv

\* A step of a thread is one of the thread that lives, and changes no other.
LEMMA ThreadAliveLemma ==
  ASSUME IInv, LiveInv, NEW e \in Execs, executeThread(e)
  PROVE  /\ xpc[e] \notin {"unborn", "exited"}
         /\ \A d \in Execs : d # e => xpc[d] \in {"unborn", "exited"}
         /\ \A d \in Execs : d # e => xpc'[d] = xpc[d] /\ x'[d] = x[d]
<1>t. xpc \in [Execs -> ExecSteps] /\ x \in [Execs -> LocalsType]
  BY DEF IInv, TypeOK
<1>1. xpc[e] \notin {"unborn", "exited"}
  BY DEF executeThread, executePart, XGoto, CheckStopped, AssumeSuccess, NextPart,
         Inactive, CheckStoppedBeforePart, PublishHandles, SendPart, PartSent, AllSent,
         FillTimeIndex, AwaitPart, ResultSeen, WaitTimesOut, CancelLate, ReportLate,
         CheckStoppedAfterWait, JudgeHandle, ReportFailed, CleanUpPart, ReportPart,
         ContinueOrBreak, WaitForRobotToStop, MarkComplete, NotifyWaiters, ClearAndExit
<1>2. \A d \in Execs : d # e => xpc'[d] = xpc[d] /\ x'[d] = x[d]
  <2> SUFFICES ASSUME NEW d \in Execs, d # e
               PROVE  xpc'[d] = xpc[d] /\ x'[d] = x[d]
    OBVIOUS
  <2>1. CASE executePart(e)
    BY <1>t, <2>1
       DEF executePart, XGoto, Inactive, CheckStoppedBeforePart, PublishHandles, SendPart,
           PartSent, AllSent, FillTimeIndex, AwaitPart, ResultSeen, WaitTimesOut,
           CancelLate, ReportLate, CheckStoppedAfterWait, JudgeHandle, ReportFailed,
           CleanUpPart
  <2>2. CASE ~ executePart(e)
    BY <1>t, <2>2
       DEF executeThread, XGoto, CheckStopped, AssumeSuccess, NextPart, ReportPart,
           ContinueOrBreak, WaitForRobotToStop, MarkComplete, NotifyWaiters, ClearAndExit
  <2> QED
    BY <2>1, <2>2
<1> QED
  BY <1>1, <1>2, OneLivesLemma

\* stopExecutionInternal() leaves nothing running, once no goal is being sent.
LEMMA CanceledLemma ==
  ASSUME handle \in [Controllers -> Handles],
         HandleInv, GoalInv,
         \A e \in Execs : xpc[e] # "sent"
  PROVE  \A c \in Controllers : stopExecutionInternal[c].goal # "active"
<1> SUFFICES ASSUME NEW c \in Controllers
             PROVE  stopExecutionInternal[c].goal # "active"
  OBVIOUS
<1>1. CASE handle[c].goal = "active"
  <2>1. c \in Set(active_handles_)
    BY <1>1 DEF GoalInv, WaitsFor, Set
  <2>2. ~ handle[c].done_
    BY <1>1 DEF HandleInv, Handles
  <2> QED
    BY <1>1, <2>1, <2>2 DEF stopExecutionInternal, CancelExecution, Handles
<1>2. CASE handle[c].goal # "active"
  BY <1>2, StopInternalLemma
<1> QED
  BY <1>1, <1>2

\* A step that starts no goal, after which the thread still waits for what it
\* has waited for, keeps the invariants.
LEMMA FewerLemma ==
  ASSUME RunInv,
         \A c \in Controllers : handle'[c].goal = "active" => handle'[c] = handle[c],
         UNCHANGED <<x, active_handles_, xpc>>,
         execution_complete_ => execution_complete_',
         execution_complete_' =>
           \/ execution_complete_ /\ \A p \in Callers :
                pc[p] = "stop_cancel" => pc'[p] = "stop_cancel"
           \/ \E p \in Callers : pc'[p] = "stop_cancel"
  PROVE  RunInv'
<1>1. HandleInv'
  BY DEF RunInv, HandleInv
<1>2. StoppedInv'
  BY DEF RunInv, StoppedInv
<1>3. GoalInv'
  <2> SUFFICES ASSUME NEW c \in Controllers, handle'[c].goal = "active"
               PROVE  \E e \in Execs : active_handles_' = x'[e].handles /\ WaitsFor(e, c)'
    BY DEF GoalInv
  <2>1. PICK e \in Execs : active_handles_ = x[e].handles /\ WaitsFor(e, c)
    BY DEF RunInv, GoalInv
  <2>2. WaitsFor(e, c)'
    BY <2>1 DEF WaitsFor, WaitsAt
  <2> QED
    BY <2>1, <2>2
<1> QED
  BY <1>1, <1>2, <1>3 DEF RunInv

\* What a client or a stopper does.
LEMMA CallerRunStep ==
  ASSUME IInv, ThreadInv, CancelInv, NEW p \in Callers, stopExecution(p)
  PROVE  RunInv'
<1>t. /\ pc \in [Callers -> CallerSteps]
      /\ handle \in [Controllers -> Handles]
  BY DEF IInv, TypeOK
<1>r. RunInv /\ HandleInv /\ GoalInv
  BY DEF CancelInv, RunInv
<1>1. CASE StopCancel(p)
  <2>1. \A e \in Execs : xpc[e] # "sent"
    BY <1>1 DEF StopCancel, Goto, CancelInv, MutexInv
  <2> QED
    BY <1>t, <1>r, <1>1, <2>1, CanceledLemma, CalmLemma DEF StopCancel
<1>2. CASE StopMark(p)
  BY <1>t, <1>r, <1>2, FewerLemma
     DEF StopMark, StateMutexFree, Goto, partVars, threadVars
<1>3. CASE StopTest(p) \/ JoinLock(p) \/ JoinThread(p) \/ StopClear(p)
  <2>1. /\ UNCHANGED <<handle, x, active_handles_, xpc, execution_complete_>>
        /\ \A q \in Callers : pc[q] = "stop_cancel" => pc'[q] = "stop_cancel"
    BY <1>t, <1>3 DEF StopTest, JoinLock, JoinThread, StopClear, Goto, shared,
                      statusVars, partVars, threadVars
  <2> QED
    BY <1>r, <2>1, FewerLemma
<1> QED
  BY <1>1, <1>2, <1>3 DEF stopExecution

\* What a client does besides stopping.  It starts an execution only while no
\* thread lives.
LEMMA ClientRunStep ==
  ASSUME IInv, ThreadInv, CancelInv, NEW c \in Clients,
         \/ ClearFirst(c) \/ push(c) \/ CallExecute(c) \/ execute(c)
         \/ SpuriousWakeup(c)
  PROVE  RunInv'
<1>t. pc \in [Callers -> CallerSteps] /\ c \in Callers
  BY DEF IInv, TypeOK, Callers
<1>r. RunInv /\ GoalInv
  BY DEF CancelInv, RunInv
<1>1. CASE MarkStarted(c) \/ SpawnThread(c)
  <2>1. pc[c] \in {"start", "spawn"} /\ UNCHANGED handle
    BY <1>1 DEF MarkStarted, SpawnThread, Goto
  <2>2. \A e \in Execs : xpc[e] \in {"unborn", "exited"}
    BY <2>1 DEF ThreadInv, ClientInv, LiveInv, Execs, NoThread
  <2> QED
    BY <1>r, <2>1, <2>2, IdleLemma, CalmLemma DEF Published
<1>2. CASE \/ ClearFirst(c) \/ push(c) \/ CallExecute(c) \/ Validate(c) \/ WaitTest(c)
           \/ Return(c) \/ SpuriousWakeup(c)
  <2>1. /\ UNCHANGED <<handle, x, active_handles_, xpc, execution_complete_>>
        /\ \A q \in Callers : pc[q] = "stop_cancel" => pc'[q] = "stop_cancel"
    BY <1>t, <1>2 DEF ClearFirst, push, CallExecute, Validate, WaitTest, Return,
         SpuriousWakeup, Goto, shared, statusVars, partVars, threadVars
  <2> QED
    BY <1>r, <2>1, FewerLemma
<1> QED
  BY <1>1, <1>2 DEF execute

\* The steps of an execution thread outside the waits, and those that send.
LEMMA ThreadRunStep ==
  ASSUME "tie" \notin Races, IInv, ThreadInv, CancelInv, NEW e \in Execs,
         executeThread(e)
  PROVE  RunInv'
<1>t. /\ pc \in [Callers -> CallerSteps]
      /\ xpc \in [Execs -> ExecSteps]
      /\ x \in [Execs -> LocalsType]
      /\ handle \in [Controllers -> Handles]
      /\ active_handles_ \in Seq(Controllers)
  BY DEF IInv, TypeOK
<1>e. /\ x[e].handles \in Seq(Controllers)
      /\ x[e].k \in Nat
      /\ x[e].k >= 1
  BY <1>t DEF LocalsType, IInv, LoopInv
<1>r. RunInv /\ HandleInv /\ StoppedInv /\ GoalInv /\ MutexInv /\ FirstInv /\ LiveInv
  BY DEF CancelInv, RunInv, ThreadInv
<1>a. /\ xpc[e] \notin {"unborn", "exited"}
      /\ \A d \in Execs : d # e => xpc[d] \in {"unborn", "exited"}
  BY <1>r, ThreadAliveLemma
\* Whatever runs is waited for by e.
<1>w. \A c \in Controllers : handle[c].goal = "active" =>
        active_handles_ = x[e].handles /\ WaitsFor(e, c)
  BY <1>r, <1>a DEF GoalInv, WaitsFor, WaitsAt
<1>c. ASSUME xpc[e] \notin Published \ {"timed_out"}, UNCHANGED handle
      PROVE  RunInv'
  BY <1>r, <1>a, <1>c, IdleLemma, CalmLemma DEF Published
\* A step that leaves the handles alone has only to keep what e waits for.
<1>k. ASSUME xpc[e] # "sent", xpc'[e] # "sent",
             UNCHANGED <<handle, active_handles_, execution_complete_, pc>>,
             \A c \in Controllers : handle[c].goal = "active" =>
               x'[e].handles = x[e].handles /\ WaitsFor(e, c)'
      PROVE  RunInv'
  <2>1. HandleInv'
    BY <1>r, <1>a, <1>k DEF HandleInv
  <2>2. StoppedInv'
    BY <1>r, <1>k DEF StoppedInv
  <2>3. GoalInv'
    BY <1>w, <1>k DEF GoalInv
  <2> QED
    BY <2>1, <2>2, <2>3 DEF RunInv
<1>1. CASE \/ CheckStopped(e) \/ AssumeSuccess(e) \/ NextPart(e) \/ Inactive(e)
           \/ CheckStoppedBeforePart(e) \/ PublishHandles(e) \/ ReportLate(e)
           \/ ReportPart(e) \/ ContinueOrBreak(e) \/ WaitForRobotToStop(e)
           \/ MarkComplete(e) \/ NotifyWaiters(e) \/ ClearAndExit(e)
  BY <1>c, <1>1
     DEF CheckStopped, AssumeSuccess, NextPart, Inactive, CheckStoppedBeforePart,
         PublishHandles, ReportLate, ReportPart, ContinueOrBreak, WaitForRobotToStop,
         MarkComplete, NotifyWaiters, ClearAndExit, XGoto, Published, shared
<1>2. CASE SendPart(e)
  <2>h. /\ x[e].k <= Len(x[e].handles) /\ xpc[e] = "send"
        /\ ~ CallbackPending(handle[x[e].handles[x[e].k]])
    BY <1>2 DEF SendPart, XGoto
  <2>c. x[e].handles[x[e].k] \in Controllers
    BY <1>e, <2>h
  <2>1. CASE /\ xpc' = [xpc EXCEPT ![e] = "sent"]
             /\ handle' = [handle EXCEPT ![x[e].handles[x[e].k]] = SendGoal(@)]
             /\ UNCHANGED <<x, active_handles_, execution_complete_, pc>>
    <3>s. xpc'[e] = "sent" /\ xpc'[e] # "stop_cancel"
      BY <1>t, <2>1
    <3>1. ASSUME NEW c \in Controllers, handle'[c].goal = "active",
                 c # x[e].handles[x[e].k]
          PROVE  handle[c].goal = "active" /\ handle'[c] = handle[c]
      BY <1>t, <2>1, <3>1
    <3>2. HandleInv'
      <4> SUFFICES ASSUME NEW c \in Controllers, handle'[c].goal = "active"
                   PROVE  /\ handle'[c].callback = "none"
                          /\ handle'[c].done_ => \E d \in Execs :
                               xpc'[d] = "sent" /\ x'[d].handles[x'[d].k] = c
        BY DEF HandleInv
      <4>1. CASE c = x[e].handles[x[e].k]
        <5>1. handle'[c].callback = handle[c].callback
          BY <1>t, <2>1, <2>c, <4>1 DEF SendGoal, Handles
        <5> QED
          BY <2>1, <2>h, <3>s, <4>1, <5>1 DEF CallbackPending
      <4>2. CASE c # x[e].handles[x[e].k]
        BY <1>r, <1>a, <2>h, <3>1, <4>2 DEF HandleInv
      <4> QED
        BY <4>1, <4>2
    <3>3. StoppedInv'
      BY <2>1, <2>h DEF StoppedInv, IInv, SendInv
    <3>4. GoalInv'
      <4> SUFFICES ASSUME NEW c \in Controllers, handle'[c].goal = "active"
                   PROVE  active_handles_' = x'[e].handles /\ WaitsFor(e, c)'
        BY DEF GoalInv
      <4>0. active_handles_ = x[e].handles
        BY <1>r, <2>h DEF FirstInv
      <4>1. CASE c = x[e].handles[x[e].k]
        BY <2>1, <2>h, <3>s, <1>e, <4>1, <4>0 DEF WaitsFor, WaitsAt
      <4>2. CASE c # x[e].handles[x[e].k]
        BY <1>w, <2>1, <2>h, <3>s, <3>1, <4>2, <1>e DEF WaitsFor, WaitsAt
      <4> QED
        BY <4>1, <4>2
    <3> QED
      BY <3>2, <3>3, <3>4 DEF RunInv
  <2>2. CASE handle' = [c \in Controllers |->
                          IF \E j \in 1 .. (x[e].k - 1) : x[e].handles[j] = c
                          THEN CancelExecution(handle[c]) ELSE handle[c]]
    <3> SUFFICES ASSUME NEW c \in Controllers
                 PROVE  handle'[c].goal # "active"
      BY CalmLemma
    <3>1. CASE handle[c].goal = "active"
      <4>1. \E j \in 1 .. (x[e].k - 1) : x[e].handles[j] = c
        BY <1>w, <1>e, <2>h, <3>1 DEF WaitsFor, WaitsAt
      <4>2. ~ handle[c].done_
        BY <1>t, <1>r, <1>a, <2>h, <3>1 DEF HandleInv, Handles
      <4> QED
        BY <1>t, <2>2, <3>1, <4>1, <4>2 DEF CancelExecution, Handles
    <3>2. CASE handle[c].goal # "active"
      BY <1>t, <2>2, <3>2, CancelLemma
    <3> QED
      BY <3>1, <3>2
  <2> QED
    BY <1>2, <2>1, <2>2 DEF SendPart, XGoto, partVars, callerVars
<1>3. CASE PartSent(e)
  <2>h. /\ x[e].k <= Len(x[e].handles) /\ xpc[e] = "sent"
        /\ x[e].handles[x[e].k] \in Controllers
    BY <1>e, <1>3 DEF PartSent, XGoto, IInv, LoopInv
  <2>1. /\ xpc'[e] = "send"
        /\ handle' = [handle EXCEPT ![x[e].handles[x[e].k]] = MarkSent(@)]
        /\ x'[e].k = x[e].k + 1 /\ x'[e].handles = x[e].handles
        /\ UNCHANGED <<active_handles_, execution_complete_, pc>>
    BY <1>t, <1>3 DEF PartSent, XGoto, LocalsType, statusVars, partVars, callerVars
  <2>2. ASSUME NEW c \in Controllers
        PROVE  /\ handle'[c].goal = handle[c].goal
               /\ handle'[c].callback = handle[c].callback
               /\ handle'[c].done_ =>
                    handle'[c] = handle[c] /\ c # x[e].handles[x[e].k]
    BY <1>t, <2>h, <2>1 DEF MarkSent, Handles
  <2>3. HandleInv'
    BY <1>r, <1>a, <2>h, <2>2 DEF HandleInv
  <2>4. StoppedInv'
    BY <1>r, <2>1, <2>2 DEF StoppedInv
  <2>5. GoalInv'
    <3> SUFFICES ASSUME NEW c \in Controllers, handle'[c].goal = "active"
                 PROVE  active_handles_' = x'[e].handles /\ WaitsFor(e, c)'
      BY DEF GoalInv
    <3> QED
      BY <1>e, <1>w, <2>h, <2>1, <2>2 DEF WaitsFor, WaitsAt
  <2> QED
    BY <2>3, <2>4, <2>5 DEF RunInv
<1>4. CASE CancelLate(e)
  <2>1. \A d \in Execs : xpc[d] # "sent"
    BY <1>4 DEF CancelLate, StateMutexFree
  <2> QED
    BY <1>t, <1>r, <1>4, <2>1, CanceledLemma, CalmLemma DEF CancelLate
<1>5. CASE CleanUpPart(e)
  <2>1. \A c \in Controllers : handle[c].goal # "active"
    BY <1>w, <1>r, <1>5 DEF WaitsFor, WaitsAt, CleanUpPart, XGoto, StateMutexFree, StoppedInv
  <2> QED
    BY <1>5, <2>1, CalmLemma DEF CleanUpPart
<1>6. CASE AllSent(e)
  <2>1. /\ xpc[e] = "send" /\ xpc'[e] = "index" /\ x[e].k > Len(x[e].handles)
        /\ x'[e].handles = x[e].handles /\ x'[e].k = 1
        /\ UNCHANGED <<handle, active_handles_, execution_complete_, pc>>
    BY <1>t, <1>6 DEF AllSent, XGoto, LocalsType, shared, statusVars, partVars, callerVars
  <2>2. ASSUME NEW c \in Controllers, handle[c].goal = "active"
        PROVE  WaitsFor(e, c)'
    BY <1>e, <1>w, <2>1, <2>2 DEF WaitsFor, WaitsAt
  <2> QED
    BY <1>k, <2>1, <2>2
<1>7. CASE FillTimeIndex(e) \/ WaitTimesOut(e)
  <2>1. /\ \/ xpc[e] = "index" /\ xpc'[e] = "await"
           \/ xpc[e] = "blocked" /\ xpc'[e] = "late"
           \/ xpc[e] = "blocked" /\ xpc'[e] = "ended" /\ execution_complete_
        /\ UNCHANGED <<x, handle, active_handles_, execution_complete_, pc>>
    BY <1>t, <1>7 DEF FillTimeIndex, WaitTimesOut, XGoto, shared, statusVars, partVars,
                      callerVars
  <2>2. ASSUME NEW c \in Controllers, handle[c].goal = "active"
        PROVE  WaitsFor(e, c)'
    BY <1>w, <2>1, <2>2 DEF WaitsFor, WaitsAt
  <2> QED
    BY <1>k, <2>1, <2>2
<1>8. CASE AwaitPart(e)
  <2>1. /\ xpc[e] = "await"
        /\ \/ xpc'[e] = "cleanup" /\ x[e].k > Len(x[e].handles)
           \/ xpc'[e] = "ended" /\ x[e].k <= Len(x[e].handles) /\ Awaited(e).done_
           \/ xpc'[e] = "blocked"
        /\ UNCHANGED <<x, handle, active_handles_, execution_complete_, pc>>
    BY <1>t, <1>e, <1>8 DEF AwaitPart, XGoto, shared, statusVars, partVars, callerVars
  <2>2. ASSUME NEW c \in Controllers, handle[c].goal = "active"
        PROVE  WaitsFor(e, c)'
    <3>1. ~ handle[c].done_
      BY <1>t, <1>r, <1>a, <2>1, <2>2 DEF HandleInv, Handles
    <3> QED
      BY <1>e, <1>w, <2>1, <2>2, <3>1 DEF WaitsFor, WaitsAt, Awaited
  <2> QED
    BY <1>k, <2>1, <2>2
<1>9. CASE ResultSeen(e)
  <2>1. /\ xpc[e] = "blocked" /\ xpc'[e] = "ended" /\ Awaited(e).goal # "active"
        /\ UNCHANGED <<x, handle, active_handles_, execution_complete_, pc>>
    BY <1>t, <1>9 DEF ResultSeen, XGoto, Running, shared, statusVars, partVars, callerVars
  <2>2. ASSUME NEW c \in Controllers, handle[c].goal = "active"
        PROVE  WaitsFor(e, c)'
    BY <1>e, <1>w, <2>1, <2>2 DEF WaitsFor, WaitsAt, Awaited
  <2> QED
    BY <1>k, <2>1, <2>2
<1>10. CASE CheckStoppedAfterWait(e)
  <2>1. /\ xpc[e] = "ended"
        /\ \/ xpc'[e] = "cleanup" /\ execution_complete_
           \/ xpc'[e] = "judge" /\ ~execution_complete_
        /\ x'[e].handles = x[e].handles /\ x'[e].k = x[e].k
        /\ UNCHANGED <<handle, active_handles_, execution_complete_, pc>>
    BY <1>t, <1>10 DEF CheckStoppedAfterWait, XGoto, LocalsType, shared, statusVars,
                       partVars, callerVars
  <2>2. ASSUME NEW c \in Controllers, handle[c].goal = "active"
        PROVE  WaitsFor(e, c)'
    BY <1>e, <1>w, <2>1, <2>2 DEF WaitsFor, WaitsAt
  <2> QED
    BY <1>k, <2>1, <2>2
<1>11. CASE JudgeHandle(e) \/ ReportFailed(e)
  <2>1. /\ xpc[e] \in {"judge", "failed"}
        /\ \/ xpc'[e] = "await" /\ x'[e].k = x[e].k + 1
           \/ xpc[e] = "judge" /\ xpc'[e] = "failed" /\ x'[e].k = x[e].k
        /\ x'[e].handles = x[e].handles
        /\ UNCHANGED <<handle, active_handles_, execution_complete_, pc>>
    BY <1>t, <1>11 DEF JudgeHandle, ReportFailed, XGoto, LocalsType, shared, statusVars,
                       partVars, callerVars
  <2>2. ASSUME NEW c \in Controllers, handle[c].goal = "active"
        PROVE  WaitsFor(e, c)'
    BY <1>e, <1>w, <2>1, <2>2 DEF WaitsFor, WaitsAt
  <2> QED
    BY <1>k, <2>1, <2>2
<1> QED
  BY <1>1, <1>2, <1>3, <1>4, <1>5, <1>6, <1>7, <1>8, <1>9, <1>10, <1>11
     DEF executeThread, executePart

\* A goal ends, or its callback runs.
LEMMA ControllerRunStep ==
  ASSUME IInv, CancelInv, NEW c \in Controllers, GoalEnds(c) \/ DoneCallback(c)
  PROVE  RunInv'
<1>t. handle \in [Controllers -> Handles]
  BY DEF IInv, TypeOK
<1>r. RunInv
  BY DEF CancelInv
<1>1. \A d \in Controllers : handle'[d].goal = "active" => handle'[d] = handle[d]
  <2>1. CASE GoalEnds(c)
    BY <1>t, <2>1, EndLemma DEF GoalEnds
  <2>2. CASE DoneCallback(c)
    <3>1. handle[c].goal # "active"
      BY <1>r, <2>2 DEF DoneCallback, CallbackPending, RunInv, HandleInv
    <3> QED
      BY <1>t, <2>2, <3>1, CallbackLemma DEF DoneCallback
  <2> QED
    BY <2>1, <2>2
<1>2. UNCHANGED <<x, active_handles_, xpc, execution_complete_, pc>>
  BY DEF GoalEnds, DoneCallback, statusVars, partVars, threadVars, callerVars
<1> QED
  BY <1>r, <1>1, <1>2, FewerLemma

\* The mutex keeps stops and sending apart.
LEMMA MutexStep ==
  ASSUME IInv, ThreadInv, CancelInv, [Next]_vars
  PROVE  MutexInv'
<1>t. /\ pc \in [Callers -> CallerSteps]
      /\ xpc \in [Execs -> ExecSteps]
  BY DEF IInv, TypeOK
<1>m. MutexInv
  BY DEF CancelInv
<1>k. ASSUME \A p \in Callers : pc'[p] = "stop_cancel" => pc[p] = "stop_cancel",
             \A e \in Execs : xpc'[e] \in {"send", "sent"} => xpc[e] \in {"send", "sent"}
      PROVE  MutexInv'
  BY <1>m, <1>k DEF MutexInv
<1>1. ASSUME NEW p \in Callers, stopExecution(p)
      PROVE  MutexInv'
  <2>1. CASE StopMark(p)
    BY <1>t, <2>1 DEF StopMark, StateMutexFree, MutexInv, threadVars
  <2>2. CASE StopTest(p) \/ StopCancel(p) \/ JoinLock(p) \/ JoinThread(p) \/ StopClear(p)
    <3>1. (p \in Clients) => back[p] # "stop_cancel"
      BY DEF IInv, TypeOK
    <3> QED
      BY <1>t, <1>k, <2>2, <3>1 DEF StopTest, StopCancel, JoinLock, JoinThread, StopClear,
                          StopReturns, Goto, threadVars
  <2> QED
    BY <1>1, <2>1, <2>2 DEF stopExecution
<1>2. ASSUME NEW c \in Clients,
             ClearFirst(c) \/ push(c) \/ CallExecute(c) \/ execute(c) \/ SpuriousWakeup(c)
      PROVE  MutexInv'
  BY <1>t, <1>k, <1>2
     DEF ClearFirst, push, CallExecute, execute, Validate, MarkStarted, SpawnThread,
         WaitTest, Return, SpuriousWakeup, Goto, XGoto, threadVars
<1>3. ASSUME NEW s \in Stoppers, CallStop(s)
      PROVE  MutexInv'
  BY <1>t, <1>k, <1>3 DEF CallStop, Goto, threadVars
<1>4. ASSUME NEW e \in Execs, executeThread(e)
      PROVE  MutexInv'
  <2>1. CASE PublishHandles(e)
    BY <1>t, <2>1 DEF PublishHandles, StateMutexFree, MutexInv, callerVars
  <2>2. CASE \/ CheckStopped(e) \/ AssumeSuccess(e) \/ NextPart(e) \/ Inactive(e)
             \/ CheckStoppedBeforePart(e) \/ SendPart(e) \/ PartSent(e) \/ AllSent(e)
             \/ FillTimeIndex(e) \/ AwaitPart(e) \/ ResultSeen(e) \/ WaitTimesOut(e)
             \/ CancelLate(e) \/ ReportLate(e) \/ CheckStoppedAfterWait(e)
             \/ JudgeHandle(e) \/ ReportFailed(e) \/ CleanUpPart(e) \/ ReportPart(e)
             \/ ContinueOrBreak(e) \/ WaitForRobotToStop(e) \/ MarkComplete(e)
             \/ NotifyWaiters(e) \/ ClearAndExit(e)
    BY <1>t, <1>k, <2>2
       DEF CheckStopped, AssumeSuccess, NextPart, Inactive, CheckStoppedBeforePart,
           SendPart, PartSent, AllSent, FillTimeIndex, AwaitPart, ResultSeen, WaitTimesOut,
           CancelLate, ReportLate, CheckStoppedAfterWait, JudgeHandle, ReportFailed,
           CleanUpPart, ReportPart, ContinueOrBreak, WaitForRobotToStop, MarkComplete,
           NotifyWaiters, ClearAndExit, XGoto, callerVars
  <2> QED
    BY <1>4, <2>1, <2>2 DEF executeThread, executePart
<1>5. ASSUME NEW c \in Controllers, GoalEnds(c) \/ DoneCallback(c)
      PROVE  MutexInv'
  BY <1>k, <1>5 DEF GoalEnds, DoneCallback, callerVars, threadVars
<1>6. CASE UNCHANGED vars
  BY <1>k, <1>6 DEF vars, callerVars, threadVars
<1> QED
  BY <1>1, <1>2, <1>3, <1>4, <1>5, <1>6 DEF Next

\* What the loops begin with, and what is published, is so by the step before.
LEMMA FirstStep ==
  ASSUME IInv, ThreadInv, CancelInv, [Next]_vars
  PROVE  FirstInv'
<1>t. /\ xpc \in [Execs -> ExecSteps]
      /\ x \in [Execs -> LocalsType]
  BY DEF IInv, TypeOK
<1>f. FirstInv
  BY DEF CancelInv
<1>k. ASSUME UNCHANGED <<active_handles_, x>>,
             \A e \in Execs : xpc'[e] = xpc[e] \/ xpc'[e] = "begin"
      PROVE  FirstInv'
  BY <1>f, <1>k DEF FirstInv
<1>1. ASSUME NEW p \in Callers, stopExecution(p)
      PROVE  FirstInv'
  BY <1>k, <1>1
     DEF stopExecution, StopTest, StopMark, StopCancel, JoinLock, JoinThread, StopClear,
         shared, partVars, threadVars
<1>2. ASSUME NEW c \in Clients,
             ClearFirst(c) \/ push(c) \/ CallExecute(c) \/ execute(c) \/ SpuriousWakeup(c)
      PROVE  FirstInv'
  BY <1>t, <1>k, <1>2
     DEF ClearFirst, push, CallExecute, execute, Validate, MarkStarted, SpawnThread,
         WaitTest, Return, SpuriousWakeup, XGoto, shared, partVars, threadVars
<1>3. ASSUME NEW s \in Stoppers, CallStop(s)
      PROVE  FirstInv'
  BY <1>k, <1>3 DEF CallStop, shared, partVars, threadVars
<1>4. ASSUME NEW e \in Execs, executeThread(e)
      PROVE  FirstInv'
  <2>o. ASSUME xpc[e] \notin {"unborn", "exited"},
               \A d \in Execs : d # e => x'[d] = x[d] /\ xpc'[d] = xpc[d],
               xpc'[e] \in {"inactive", "active", "lock", "index"} => x'[e].k = 1,
               xpc'[e] \in {"send", "sent"} => active_handles_' = x'[e].handles
        PROVE  FirstInv'
    BY <1>f, <2>o DEF FirstInv, ThreadInv, LiveInv
  <2>1. CASE NextPart(e)
    BY <1>t, <2>o, <2>1
       DEF NextPart, XGoto, Locals, shared, partVars
  <2>2. CASE PublishHandles(e)
    BY <1>t, <1>f, <2>o, <2>2, PublishLemma DEF FirstInv
  <2>3. CASE SendPart(e)
    BY <1>t, <1>f, <2>o, <2>3, SendPartLemma DEF FirstInv
  <2>6. CASE PartSent(e) \/ AllSent(e)
    BY <1>t, <1>f, <2>o, <2>6
       DEF PartSent, AllSent, XGoto, LocalsType, FirstInv, shared, partVars
  <2>4. CASE \/ Inactive(e) \/ CheckStoppedBeforePart(e) \/ FillTimeIndex(e)
             \/ AwaitPart(e) \/ ResultSeen(e) \/ WaitTimesOut(e) \/ CancelLate(e)
             \/ ReportLate(e) \/ CheckStoppedAfterWait(e) \/ JudgeHandle(e)
             \/ ReportFailed(e)
    BY <1>t, <1>f, <2>o, <2>4
       DEF Inactive, CheckStoppedBeforePart, FillTimeIndex, AwaitPart, ResultSeen,
           WaitTimesOut, CancelLate, ReportLate, CheckStoppedAfterWait, JudgeHandle,
           ReportFailed, XGoto, LocalsType, FirstInv, shared, partVars
  <2>5. CASE \/ CheckStopped(e) \/ AssumeSuccess(e) \/ CleanUpPart(e) \/ ReportPart(e)
             \/ ContinueOrBreak(e) \/ WaitForRobotToStop(e) \/ MarkComplete(e)
             \/ NotifyWaiters(e) \/ ClearAndExit(e)
    BY <1>t, <2>o, <2>5
       DEF CheckStopped, AssumeSuccess, CleanUpPart, ReportPart, ContinueOrBreak,
           WaitForRobotToStop, MarkComplete, NotifyWaiters, ClearAndExit, XGoto
  <2> QED
    BY <1>4, <2>1, <2>2, <2>3, <2>4, <2>5, <2>6 DEF executeThread, executePart
<1>5. ASSUME NEW c \in Controllers, GoalEnds(c) \/ DoneCallback(c)
      PROVE  FirstInv'
  BY <1>k, <1>5 DEF GoalEnds, DoneCallback, partVars, threadVars
<1>6. CASE UNCHANGED vars
  BY <1>k, <1>6 DEF vars, shared, partVars, threadVars
<1> QED
  BY <1>1, <1>2, <1>3, <1>4, <1>5, <1>6 DEF Next

\* At first nothing runs.
LEMMA CancelInit == Init => CancelInv
  BY DEF Init, CancelInv, MutexInv, FirstInv, RunInv, HandleInv, StoppedInv, GoalInv,
         NewHandle

\* Every step keeps the invariant.
LEMMA CancelStep ==
  ASSUME "tie" \notin Races, IInv, ThreadInv, CancelInv, [Next]_vars
  PROVE  CancelInv'
<1>1. RunInv'
  <2>1. RunInv
    BY DEF CancelInv
  <2>2. ASSUME NEW s \in Stoppers, CallStop(s)
        PROVE  RunInv'
    <3>1. /\ UNCHANGED <<handle, x, active_handles_, xpc, execution_complete_>>
          /\ \A q \in Callers : pc[q] = "stop_cancel" => pc'[q] = "stop_cancel"
      BY <2>2 DEF CallStop, Goto, IInv, TypeOK, shared, statusVars, partVars, threadVars
    <3> QED
      BY <2>1, <3>1, FewerLemma
  <2>3. CASE UNCHANGED vars
    BY <2>1, <2>3, FewerLemma DEF vars, shared, statusVars, partVars, threadVars, callerVars
  <2> QED
    BY <2>2, <2>3, CallerRunStep, ClientRunStep, ThreadRunStep, ControllerRunStep DEF Next
<1> QED
  BY <1>1, MutexStep, FirstStep DEF CancelInv

\* Both invariants hold together.
LEMMA CancelInvariance ==
  ASSUME OneClient, "tie" \notin Races
  PROVE  Spec => [](IInv /\ ThreadInv /\ CancelInv)
<1>1. IInv /\ ThreadInv /\ [Next]_vars => ThreadInv'
  BY ThreadStep
<1>2. IInv /\ ThreadInv /\ CancelInv /\ [Next]_vars => CancelInv'
  BY CancelStep
<1> QED
  BY <1>1, <1>2, ThreadInit, CancelInit, Invariance, PTL DEF Spec

\* A stop reaches every controller: what runs is in active_handles_.
THEOREM RunningIsCancellableAlways ==
  ASSUME OneClient, "tie" \notin Races
  PROVE  Spec => []RunningIsCancellable
<1>1. CancelInv => RunningIsCancellable
  BY DEF CancelInv, RunInv, GoalInv, WaitsFor, RunningIsCancellable, Set
<1> QED
  BY <1>1, CancelInvariance, PTL

\* executePart() leaves nothing running, however it ends.
THEOREM NothingRunsAfterPartAlways ==
  ASSUME OneClient, "tie" \notin Races
  PROVE  Spec => []NothingRunsAfterPart
<1>1. ThreadInv /\ CancelInv => NothingRunsAfterPart
  BY DEF ThreadInv, LiveInv, CancelInv, RunInv, GoalInv, WaitsFor, WaitsAt,
         NothingRunsAfterPart
<1> QED
  BY <1>1, CancelInvariance, PTL

-----------------------------------------------------------------------------
(* A stop is not forgotten, for one client and timings without "lag" (the  *)
(* callback changes a status that has already been judged) and "tie".      *)

\* Without a lag nobody sees a result before its callback has run.
QuietInv == \A c \in Controllers : handle[c].callback = "none"

\* While somebody is about to cancel, the execution is complete and the client
\* cannot begin another: it needs the mutex to find that out.
CancelingCallerInv == \A p \in Callers : pc[p] = "stop_cancel" =>
  /\ execution_complete_
  /\ \A c \in Clients : pc[c] \in {"spawn", "wait", "asleep", "woken"}

\* The goal of the j-th handle was sent in this part.
Sent(e, j) ==
  \/ xpc[e] = "send" /\ j < x[e].k
  \/ xpc[e] = "sent" /\ j <= x[e].k
  \/ xpc[e] \in {"index", "await", "blocked", "ended", "judge", "failed"}

\* What was sent in this part and is canceled was canceled by a stop.
CancelingInv == \A e \in Execs : \A j \in 1 .. Len(x[e].handles) :
  Sent(e, j) /\ handle[x[e].handles[j]].goal = "canceling" => execution_complete_

\* What is judged has ended, and what was found to have failed stays so.
FailedInv == \A e \in Execs :
  /\ xpc[e] \in {"judge", "failed"} \/ (xpc[e] = "ended" /\ ~execution_complete_)
       => ~ Running(Awaited(e))
  /\ xpc[e] = "failed" => Awaited(e).last_exec_ # "SUCCEEDED"

ForgetInv == QuietInv /\ CancelingCallerInv /\ CancelingInv /\ FailedInv

\* At first there are no goals.
LEMMA ForgetInit == Init => ForgetInv
  BY DEF Init, ForgetInv, QuietInv, CancelingCallerInv, CancelingInv, FailedInv, NewHandle,
         Locals, Callers

\* A handle that was canceled has not succeeded since.
LEMMA CanceledHandleLemma ==
  ASSUME handle \in [Controllers -> Handles], NEW c \in Controllers
  PROVE  LET h == stopExecutionInternal[c]
         IN  /\ h.callback = "none" \/ h.callback = handle[c].callback
             /\ Running(h) => Running(handle[c])
             /\ h.last_exec_ = "SUCCEEDED" => handle[c].last_exec_ = "SUCCEEDED"
             /\ h.goal = "active" => handle[c].goal = "active"
  BY DEF stopExecutionInternal, CancelExecution, Handles, Running

\* Callbacks are delivered before anybody sees a result, or wiped out by a cancel.
LEMMA QuietStep ==
  ASSUME "lag" \notin Races, IInv, QuietInv, [Next]_vars
  PROVE  QuietInv'
<1>t. handle \in [Controllers -> Handles]
  BY DEF IInv, TypeOK
<1>k. ASSUME UNCHANGED handle
      PROVE  QuietInv'
  BY <1>k DEF QuietInv
<1>1. ASSUME NEW p \in Callers, stopExecution(p)
      PROVE  QuietInv'
  <2>1. CASE StopCancel(p)
    BY <1>t, <2>1, CanceledHandleLemma DEF StopCancel, QuietInv
  <2>2. CASE StopTest(p) \/ StopMark(p) \/ JoinLock(p) \/ JoinThread(p) \/ StopClear(p)
    BY <1>k, <2>2 DEF StopTest, StopMark, JoinLock, JoinThread, StopClear, shared
  <2> QED
    BY <1>1, <2>1, <2>2 DEF stopExecution
<1>2. ASSUME NEW c \in Clients,
             ClearFirst(c) \/ push(c) \/ CallExecute(c) \/ execute(c) \/ SpuriousWakeup(c)
      PROVE  QuietInv'
  BY <1>k, <1>2
     DEF ClearFirst, push, CallExecute, execute, Validate, MarkStarted, SpawnThread,
         WaitTest, Return, SpuriousWakeup, shared
<1>3. ASSUME NEW s \in Stoppers, CallStop(s)
      PROVE  QuietInv'
  BY <1>k, <1>3 DEF CallStop, shared
<1>4. ASSUME NEW e \in Execs, executeThread(e)
      PROVE  QuietInv'
  <2>1. CASE SendPart(e)
    <3>1. CASE handle' = [handle EXCEPT ![x[e].handles[x[e].k]] = SendGoal(@)]
      BY <1>t, <3>1 DEF SendGoal, QuietInv, Handles
    <3>2. CASE handle' = [c \in Controllers |->
                            IF \E j \in 1 .. (x[e].k - 1) : x[e].handles[j] = c
                            THEN CancelExecution(handle[c]) ELSE handle[c]]
      <4> SUFFICES ASSUME NEW c \in Controllers
                   PROVE  handle'[c].callback = "none"
        BY DEF QuietInv
      <4>1. handle'[c] \in {CancelExecution(handle[c]), handle[c]}
        BY <3>2
      <4> QED
        BY <1>t, <4>1 DEF CancelExecution, QuietInv, Handles
    <3> QED
      BY <2>1, <3>1, <3>2 DEF SendPart
  <2>2. CASE PartSent(e)
    BY <1>t, <2>2 DEF PartSent, MarkSent, QuietInv, Handles
  <2>3. CASE CancelLate(e)
    BY <1>t, <2>3, CanceledHandleLemma DEF CancelLate, QuietInv
  <2>4. CASE \/ CheckStopped(e) \/ AssumeSuccess(e) \/ NextPart(e) \/ Inactive(e)
             \/ CheckStoppedBeforePart(e) \/ PublishHandles(e) \/ AllSent(e)
             \/ FillTimeIndex(e) \/ AwaitPart(e) \/ ResultSeen(e) \/ WaitTimesOut(e)
             \/ ReportLate(e) \/ CheckStoppedAfterWait(e) \/ JudgeHandle(e)
             \/ ReportFailed(e) \/ CleanUpPart(e) \/ ReportPart(e)
             \/ ContinueOrBreak(e) \/ WaitForRobotToStop(e) \/ MarkComplete(e)
             \/ NotifyWaiters(e) \/ ClearAndExit(e)
    BY <1>k, <2>4
       DEF CheckStopped, AssumeSuccess, NextPart, Inactive, CheckStoppedBeforePart,
           PublishHandles, AllSent, FillTimeIndex, AwaitPart, ResultSeen, WaitTimesOut,
           ReportLate, CheckStoppedAfterWait, JudgeHandle, ReportFailed, CleanUpPart,
           ReportPart, ContinueOrBreak, WaitForRobotToStop, MarkComplete, NotifyWaiters,
           ClearAndExit, shared
  <2> QED
    BY <1>4, <2>1, <2>2, <2>3, <2>4 DEF executeThread, executePart
<1>5. ASSUME NEW c \in Controllers, GoalEnds(c)
      PROVE  QuietInv'
  BY <1>t, <1>5 DEF GoalEnds, FinishControllerExecution, ResultArrives, QuietInv, Handles
<1>6. ASSUME NEW c \in Controllers, DoneCallback(c)
      PROVE  QuietInv'
  BY <1>6 DEF DoneCallback, CallbackPending, QuietInv
<1>7. CASE UNCHANGED vars
  BY <1>k, <1>7 DEF vars, shared
<1> QED
  BY <1>1, <1>2, <1>3, <1>4, <1>5, <1>6, <1>7 DEF Next

\* Whoever is about to cancel keeps the client from going on.
LEMMA CancelingCallerStep ==
  ASSUME OneClient, IInv, ThreadInv, CancelingCallerInv, [Next]_vars
  PROVE  CancelingCallerInv'
<1>t. /\ pc \in [Callers -> CallerSteps]
      /\ \A c \in Clients : back[c] # "stop_cancel"
  BY DEF IInv, TypeOK
<1>d. Clients \cap Stoppers = {}
  BY TrajectoryExecutionAssumption
<1>c. /\ Clients \subseteq Callers
      /\ \A c \in Clients : pc[c] # "stop_cancel"
  BY DEF ThreadInv, ClientInv, Callers
<1>k. ASSUME execution_complete_ => execution_complete_',
             \A p \in Callers : pc'[p] = "stop_cancel" => pc[p] = "stop_cancel",
             \A c \in Clients : pc[c] \in {"spawn", "wait", "asleep", "woken"} =>
               pc'[c] \in {"spawn", "wait", "asleep", "woken"}
      PROVE  CancelingCallerInv'
  BY <1>k DEF CancelingCallerInv
<1>1. ASSUME NEW p \in Callers, stopExecution(p)
      PROVE  CancelingCallerInv'
  <2>0. pc[p] \notin {"spawn", "wait", "asleep", "woken"}
    BY <1>1 DEF stopExecution, StopTest, StopMark, StopCancel, JoinLock, JoinThread,
                StopClear, Goto
  <2>1. CASE StopMark(p) /\ ~execution_complete_
    <3>1. \A c \in Clients : pc[c] \in {"spawn", "wait", "asleep", "woken"}
      BY <2>1 DEF ThreadInv, ClientInv
    <3> QED
      BY <1>t, <1>c, <2>0, <2>1, <3>1 DEF StopMark, Goto, CancelingCallerInv
  <2>2. CASE \/ StopMark(p) /\ execution_complete_
             \/ StopTest(p) \/ StopCancel(p) \/ JoinLock(p) \/ JoinThread(p) \/ StopClear(p)
    BY <1>t, <1>c, <1>k, <2>0, <2>2
       DEF StopMark, StopTest, StopCancel, JoinLock, JoinThread, StopClear, StopReturns,
           Goto, shared, statusVars
  <2> QED
    BY <1>1, <2>1, <2>2 DEF stopExecution
<1>2. ASSUME NEW c \in Clients,
             ClearFirst(c) \/ push(c) \/ CallExecute(c) \/ execute(c) \/ SpuriousWakeup(c)
      PROVE  CancelingCallerInv'
  <2>1. CASE MarkStarted(c)
    BY <1>t, <1>c, <2>1 DEF MarkStarted, Goto, CancelingCallerInv
  <2>2. CASE WaitTest(c)
    BY <1>t, <1>c, <2>2 DEF WaitTest, StateMutexFree, CancelingCallerInv
  <2>3. CASE \/ ClearFirst(c) \/ push(c) \/ CallExecute(c) \/ Validate(c) \/ SpawnThread(c)
             \/ Return(c) \/ SpuriousWakeup(c)
    BY <1>t, <1>c, <1>k, <2>3
       DEF ClearFirst, push, CallExecute, Validate, SpawnThread, Return, SpuriousWakeup,
           Goto, shared, statusVars
  <2> QED
    BY <1>2, <2>1, <2>2, <2>3 DEF execute
<1>3. ASSUME NEW s \in Stoppers, CallStop(s)
      PROVE  CancelingCallerInv'
  BY <1>t, <1>d, <1>c, <1>k, <1>3 DEF CallStop, Goto, shared, statusVars
<1>4. ASSUME NEW e \in Execs, executeThread(e)
      PROVE  CancelingCallerInv'
  <2>1. execution_complete_ => execution_complete_'
    BY <1>4
       DEF executeThread, executePart, CheckStopped, AssumeSuccess, NextPart, Inactive,
           CheckStoppedBeforePart, PublishHandles, SendPart, PartSent, AllSent,
           FillTimeIndex, AwaitPart, ResultSeen, WaitTimesOut, CancelLate, ReportLate,
           CheckStoppedAfterWait, JudgeHandle, ReportFailed, CleanUpPart, ReportPart,
           ContinueOrBreak, WaitForRobotToStop, MarkComplete, NotifyWaiters, ClearAndExit,
           shared, statusVars
  <2>2. CASE NotifyWaiters(e)
    BY <1>t, <1>c, <1>k, <2>1, <2>2 DEF NotifyWaiters
  <2>3. CASE ~ NotifyWaiters(e)
    <3>1. UNCHANGED pc
      BY <1>4, <2>3
         DEF executeThread, executePart, CheckStopped, AssumeSuccess, NextPart, Inactive,
             CheckStoppedBeforePart, PublishHandles, SendPart, PartSent, AllSent,
             FillTimeIndex, AwaitPart, ResultSeen, WaitTimesOut, CancelLate, ReportLate,
             CheckStoppedAfterWait, JudgeHandle, ReportFailed, CleanUpPart, ReportPart,
             ContinueOrBreak, WaitForRobotToStop, MarkComplete, ClearAndExit, callerVars
    <3> QED
      BY <1>k, <2>1, <3>1
  <2> QED
    BY <2>2, <2>3
<1>5. ASSUME NEW c \in Controllers, GoalEnds(c) \/ DoneCallback(c)
      PROVE  CancelingCallerInv'
  BY <1>k, <1>5 DEF GoalEnds, DoneCallback, callerVars, statusVars
<1>6. CASE UNCHANGED vars
  BY <1>k, <1>6 DEF vars, callerVars, shared, statusVars
<1> QED
  BY <1>1, <1>2, <1>3, <1>4, <1>5, <1>6 DEF Next

\* A goal of this part is only canceled by a stop, and what has ended is not sent
\* again before the part is over.
LEMMA CancelingStep ==
  ASSUME "lag" \notin Races, "tie" \notin Races,
         IInv, ThreadInv, CancelInv, ForgetInv, [Next]_vars
  PROVE  CancelingInv' /\ FailedInv'
<1>t. /\ xpc \in [Execs -> ExecSteps]
      /\ x \in [Execs -> LocalsType]
      /\ handle \in [Controllers -> Handles]
  BY DEF IInv, TypeOK
<1>h. \A e \in Execs : /\ x[e].handles \in Seq(Controllers)
                       /\ x[e].k \in Nat
                       /\ x[e].k >= 1
  BY <1>t DEF LocalsType, IInv, LoopInv
<1>l. \A e \in Execs : xpc[e] \in {"sent", "blocked", "ended", "late", "judge", "failed"} =>
        /\ x[e].k \in 1 .. Len(x[e].handles)
        /\ x[e].handles[x[e].k] \in Controllers
  BY <1>h DEF IInv, LoopInv
<1>f. QuietInv /\ CancelingCallerInv /\ CancelingInv /\ FailedInv
  BY DEF ForgetInv
<1>k. ASSUME UNCHANGED <<x, xpc>>,
             execution_complete_ => execution_complete_',
             \A c \in Controllers :
               /\ Running(handle'[c]) => Running(handle[c])
               /\ handle'[c].last_exec_ = "SUCCEEDED" =>
                    handle[c].last_exec_ = "SUCCEEDED" \/ Running(handle[c])
               /\ handle'[c].goal = "canceling" =>
                    handle[c].goal = "canceling" \/ execution_complete_'
      PROVE  CancelingInv' /\ FailedInv'
  <2>1. CancelingInv'
    BY <1>f, <1>h, <1>k DEF CancelingInv, Sent
  <2>2. FailedInv'
    BY <1>f, <1>l, <1>k DEF FailedInv, Awaited
  <2> QED
    BY <2>1, <2>2
<1>1. ASSUME NEW p \in Callers, stopExecution(p)
      PROVE  CancelingInv' /\ FailedInv'
  <2>1. CASE StopCancel(p)
    BY <1>t, <1>f, <1>k, <2>1, CanceledHandleLemma
       DEF StopCancel, Goto, CancelingCallerInv, threadVars
  <2>2. CASE StopTest(p) \/ StopMark(p) \/ JoinLock(p) \/ JoinThread(p) \/ StopClear(p)
    BY <1>k, <2>2
       DEF StopTest, StopMark, JoinLock, JoinThread, StopClear, shared, statusVars,
           threadVars
  <2> QED
    BY <1>1, <2>1, <2>2 DEF stopExecution
<1>2. ASSUME NEW c \in Clients,
             ClearFirst(c) \/ push(c) \/ CallExecute(c) \/ execute(c) \/ SpuriousWakeup(c)
      PROVE  CancelingInv' /\ FailedInv'
  <2>1. CASE MarkStarted(c) \/ SpawnThread(c)
    <3>1. \A e \in Execs : xpc[e] \in {"unborn", "exited"}
      BY <2>1 DEF MarkStarted, SpawnThread, Goto, ThreadInv, ClientInv, LiveInv, Execs,
                  NoThread
    <3>2. \A e \in Execs : xpc'[e] \in {"unborn", "exited", "begin"}
      BY <1>t, <2>1, <3>1 DEF MarkStarted, SpawnThread, XGoto, threadVars
    <3> QED
      BY <3>2 DEF CancelingInv, Sent, FailedInv
  <2>2. CASE \/ ClearFirst(c) \/ push(c) \/ CallExecute(c) \/ Validate(c) \/ WaitTest(c)
             \/ Return(c) \/ SpuriousWakeup(c)
    BY <1>k, <2>2
       DEF ClearFirst, push, CallExecute, Validate, WaitTest, Return, SpuriousWakeup,
           shared, statusVars, threadVars
  <2> QED
    BY <1>2, <2>1, <2>2 DEF execute
<1>3. ASSUME NEW s \in Stoppers, CallStop(s)
      PROVE  CancelingInv' /\ FailedInv'
  BY <1>k, <1>3 DEF CallStop, shared, statusVars, threadVars
<1>4. ASSUME NEW e \in Execs, executeThread(e)
      PROVE  CancelingInv' /\ FailedInv'
  <2>a. /\ xpc[e] \notin {"unborn", "exited"}
        /\ \A d \in Execs : d # e => xpc'[d] \in {"unborn", "exited"}
    BY <1>4, ThreadAliveLemma DEF ThreadInv
  <2>o. ASSUME \A j \in 1 .. Len(x'[e].handles) :
                 Sent(e, j)' /\ handle'[x'[e].handles[j]].goal = "canceling" =>
                   execution_complete_',
               xpc'[e] \in {"judge", "failed"} \/ (xpc'[e] = "ended" /\ ~execution_complete_')
                 => ~ Running(Awaited(e)'),
               xpc'[e] = "failed" => Awaited(e)'.last_exec_ # "SUCCEEDED"
        PROVE  CancelingInv' /\ FailedInv'
    BY <2>a, <2>o DEF CancelingInv, FailedInv, Sent
\* Steps to where the invariants say nothing.
  <2>q. ASSUME xpc'[e] \notin {"send", "sent", "index", "await", "blocked", "ended",
                              "judge", "failed"}
        PROVE  CancelingInv' /\ FailedInv'
    BY <2>a, <2>q DEF CancelingInv, FailedInv, Sent
\* Steps that leave the handles as they are.
  <2>u. ASSUME UNCHANGED <<handle, execution_complete_>>,
               x'[e].handles = x[e].handles,
               \A j \in 1 .. Len(x[e].handles) : Sent(e, j)' => Sent(e, j),
               xpc'[e] \in {"judge", "failed"} \/ (xpc'[e] = "ended" /\ ~execution_complete_)
                 => ~ Running(Awaited(e)) /\ x'[e].k = x[e].k,
               xpc'[e] = "failed" => Awaited(e).last_exec_ # "SUCCEEDED"
        PROVE  CancelingInv' /\ FailedInv'
    BY <1>f, <2>o, <2>u DEF CancelingInv, Awaited
  <2>1. CASE \/ CheckStopped(e) \/ AssumeSuccess(e) \/ NextPart(e) \/ Inactive(e)
             \/ CheckStoppedBeforePart(e) \/ CancelLate(e) \/ ReportLate(e)
             \/ CleanUpPart(e) \/ ReportPart(e) \/ ContinueOrBreak(e)
             \/ WaitForRobotToStop(e) \/ MarkComplete(e) \/ NotifyWaiters(e)
             \/ ClearAndExit(e)
    BY <1>t, <2>q, <2>1
       DEF CheckStopped, AssumeSuccess, NextPart, Inactive, CheckStoppedBeforePart,
           CancelLate, ReportLate, CleanUpPart, ReportPart, ContinueOrBreak,
           WaitForRobotToStop, MarkComplete, NotifyWaiters, ClearAndExit, XGoto
  <2>2. CASE PublishHandles(e)
    <3>1. \/ xpc'[e] = "part_done"
          \/ xpc'[e] = "index" /\ execution_complete_'
          \/ xpc'[e] = "send" /\ x'[e].k = 1
      <4>1. x[e].k = 1
        BY <2>2 DEF PublishHandles, XGoto, CancelInv, FirstInv
      <4> QED
        BY <1>t, <2>2, <4>1 DEF PublishHandles, XGoto, LocalsType
    <3> QED
      BY <2>o, <2>q, <3>1 DEF Sent
  <2>3. CASE SendPart(e) /\ xpc'[e] = "part_done"
    BY <2>q, <2>3
  <2>4. CASE SendPart(e) /\ xpc'[e] # "part_done"
    <3>1. /\ xpc[e] = "send" /\ xpc'[e] = "sent"
          /\ x[e].k \in 1 .. Len(x[e].handles)
          /\ handle' = [handle EXCEPT ![x[e].handles[x[e].k]] = SendGoal(@)]
          /\ UNCHANGED <<x, execution_complete_>>
      <4>1. /\ xpc[e] = "send" /\ x[e].k <= Len(x[e].handles)
            /\ xpc' = [xpc EXCEPT ![e] = "sent"]
            /\ handle' = [handle EXCEPT ![x[e].handles[x[e].k]] = SendGoal(@)]
            /\ UNCHANGED <<x, execution_complete_>>
        BY <1>t, <2>4 DEF SendPart, XGoto
      <4> QED
        BY <1>t, <1>h, <4>1
    <3>2. ASSUME NEW c \in Controllers, handle'[c].goal = "canceling"
          PROVE  handle[c].goal = "canceling" /\ c # x[e].handles[x[e].k]
      BY <1>t, <1>h, <3>1, <3>2 DEF SendGoal, Handles
    <3>3. ASSUME NEW j \in 1 .. Len(x[e].handles), Sent(e, j)',
                 handle'[x[e].handles[j]].goal = "canceling"
          PROVE  execution_complete_
      <4>1. x[e].handles[j] \in Controllers
        BY <1>h
      <4>2. j <= x[e].k /\ j # x[e].k
        BY <3>1, <3>2, <3>3, <4>1 DEF Sent
      <4>3. Sent(e, j)
        BY <1>h, <3>1, <4>2 DEF Sent
      <4> QED
        BY <1>f, <3>2, <3>3, <4>1, <4>3 DEF CancelingInv
    <3> QED
      BY <2>o, <3>1, <3>3
  <2>5. CASE PartSent(e)
    <3>1. /\ xpc[e] = "sent" /\ xpc'[e] = "send"
          /\ handle' = [handle EXCEPT ![x[e].handles[x[e].k]] = MarkSent(@)]
          /\ x'[e].k = x[e].k + 1 /\ x'[e].handles = x[e].handles
          /\ UNCHANGED execution_complete_
      BY <1>t, <2>5 DEF PartSent, XGoto, LocalsType, statusVars
    <3>2. \A c \in Controllers : handle'[c].goal = handle[c].goal
      BY <1>t, <1>l, <3>1, SendLemma
    <3>3. \A j \in 1 .. Len(x[e].handles) : Sent(e, j)' => Sent(e, j)
      BY <1>h, <3>1 DEF Sent
    <3> QED
      BY <1>f, <1>h, <2>o, <3>1, <3>2, <3>3 DEF CancelingInv
  <2>6. CASE AllSent(e)
    <3>1. /\ xpc[e] = "send" /\ xpc'[e] = "index" /\ x[e].k > Len(x[e].handles)
          /\ x'[e].handles = x[e].handles
          /\ UNCHANGED <<handle, execution_complete_>>
      BY <1>t, <2>6 DEF AllSent, XGoto, LocalsType, shared, statusVars
    <3> QED
      BY <1>h, <2>u, <3>1 DEF Sent
  <2>7. CASE FillTimeIndex(e) \/ WaitTimesOut(e)
    BY <1>t, <2>u, <2>7 DEF FillTimeIndex, WaitTimesOut, XGoto, Sent, shared, statusVars
  <2>8. CASE AwaitPart(e)
    <3>1. /\ xpc[e] = "await" /\ UNCHANGED <<x, handle, execution_complete_>>
          /\ \/ xpc'[e] = "cleanup"
             \/ xpc'[e] = "blocked"
             \/ /\ xpc'[e] = "ended" /\ Awaited(e).done_
                /\ x[e].k \in 1 .. Len(x[e].handles)
      BY <1>t, <1>h, <2>8 DEF AwaitPart, XGoto, shared, statusVars
    <3>2. ASSUME xpc'[e] = "ended", ~execution_complete_
          PROVE  ~ Running(Awaited(e))
      <4>1. x[e].handles[x[e].k] \in Controllers
        BY <1>h, <3>1, <3>2
      <4>2. Awaited(e).goal # "active"
        BY <2>a, <3>1, <3>2, <4>1, ThreadAliveLemma, <1>4
           DEF CancelInv, RunInv, HandleInv, Awaited, ThreadInv
      <4>3. Awaited(e).goal # "canceling"
        BY <1>f, <3>1, <3>2 DEF CancelingInv, Sent, Awaited
      <4> QED
        BY <4>2, <4>3 DEF Running
    <3> QED
      BY <2>u, <2>q, <3>1, <3>2 DEF Sent
  <2>9. CASE ResultSeen(e)
    BY <1>t, <2>u, <2>9 DEF ResultSeen, XGoto, Sent, shared, statusVars
  <2>10. CASE CheckStoppedAfterWait(e)
    <3>1. /\ xpc[e] = "ended" /\ UNCHANGED <<handle, execution_complete_>>
          /\ x'[e].handles = x[e].handles /\ x'[e].k = x[e].k
          /\ xpc'[e] = "cleanup" \/ (xpc'[e] = "judge" /\ ~execution_complete_)
      BY <1>t, <2>10 DEF CheckStoppedAfterWait, XGoto, LocalsType, shared, statusVars
    <3> QED
      BY <1>f, <2>u, <2>q, <3>1 DEF FailedInv, Sent
  <2>11. CASE JudgeHandle(e) \/ ReportFailed(e)
    <3>1. /\ UNCHANGED <<handle, execution_complete_>>
          /\ x'[e].handles = x[e].handles
          /\ \/ xpc[e] \in {"judge", "failed"} /\ xpc'[e] = "await"
             \/ /\ xpc[e] = "judge" /\ xpc'[e] = "failed" /\ x'[e].k = x[e].k
                /\ Awaited(e).last_exec_ # "SUCCEEDED"
      BY <1>t, <2>11 DEF JudgeHandle, ReportFailed, XGoto, LocalsType, shared, statusVars
    <3> QED
      BY <1>f, <2>u, <3>1 DEF FailedInv, Sent
  <2> QED
    BY <1>4, <2>1, <2>2, <2>3, <2>4, <2>5, <2>6, <2>7, <2>8, <2>9, <2>10, <2>11
       DEF executeThread, executePart
<1>5. ASSUME NEW c \in Controllers, GoalEnds(c)
      PROVE  CancelingInv' /\ FailedInv'
  <2>1. /\ Running(handle[c])
        /\ UNCHANGED <<x, xpc, execution_complete_>>
        /\ \A d \in Controllers : d # c => handle'[d] = handle[d]
    BY <1>t, <1>5 DEF GoalEnds, statusVars, threadVars
  <2>2. ~ Running(handle'[c])
    BY <1>t, <1>5 DEF GoalEnds, ResultArrives, FinishControllerExecution, Running, Handles,
                      Outcomes
  <2> QED
    BY <1>k, <2>1, <2>2 DEF Running
<1>6. ASSUME NEW c \in Controllers, DoneCallback(c)
      PROVE  CancelingInv' /\ FailedInv'
  BY <1>f, <1>6 DEF DoneCallback, CallbackPending, QuietInv
<1>7. CASE UNCHANGED vars
  BY <1>k, <1>7 DEF vars, shared, statusVars, threadVars
<1> QED
  BY <1>1, <1>2, <1>3, <1>4, <1>5, <1>6, <1>7 DEF Next

\* What a step may do to the status of an execution that was stopped.
NoForgettingStep ==
  \A e \in Execs :
    execution_complete_ /\ xpc[e] \in PartSteps
      => (last_execution_status_' = "SUCCEEDED" => last_execution_status_ = "SUCCEEDED")

\* Of the two steps that may set SUCCEEDED one is not in executePart(), the other
\* copies the status of a handle that has failed.
LEMMA ForgettingLemma ==
  ASSUME IInv, ThreadInv, ForgetInv, [Next]_vars
  PROVE  NoForgettingStep
<1>k. ASSUME last_execution_status_' \in {last_execution_status_, "ABORTED", "PREEMPTED",
                                         "TIMED_OUT"}
      PROVE  NoForgettingStep
  BY <1>k DEF NoForgettingStep
<1>1. ASSUME NEW p \in Callers, stopExecution(p)
      PROVE  NoForgettingStep
  BY <1>k, <1>1
     DEF stopExecution, StopTest, StopMark, StopCancel, JoinLock, JoinThread, StopClear,
         shared, statusVars
<1>2. ASSUME NEW c \in Clients,
             ClearFirst(c) \/ push(c) \/ CallExecute(c) \/ execute(c) \/ SpuriousWakeup(c)
      PROVE  NoForgettingStep
  BY <1>k, <1>2
     DEF ClearFirst, push, CallExecute, execute, Validate, MarkStarted, SpawnThread,
         WaitTest, Return, SpuriousWakeup, shared, statusVars
<1>3. ASSUME NEW e \in Execs, executeThread(e)
      PROVE  NoForgettingStep
  <2>1. CASE AssumeSuccess(e)
    BY <1>3, <2>1, ThreadAliveLemma
       DEF AssumeSuccess, XGoto, NoForgettingStep, PartSteps, Published, ThreadInv
  <2>2. CASE ReportFailed(e)
    BY <2>2 DEF ReportFailed, XGoto, NoForgettingStep, ForgetInv, FailedInv
  <2>3. CASE executePart(e) /\ ~ReportFailed(e)
    BY <1>k, <2>3
       DEF executePart, Inactive, CheckStoppedBeforePart, PublishHandles, SendPart,
           PartSent, AllSent, FillTimeIndex, AwaitPart, ResultSeen, WaitTimesOut,
           CancelLate, ReportLate, CheckStoppedAfterWait, JudgeHandle, CleanUpPart,
           shared, statusVars
  <2>4. CASE \/ CheckStopped(e) \/ NextPart(e) \/ ReportPart(e) \/ ContinueOrBreak(e)
             \/ WaitForRobotToStop(e) \/ MarkComplete(e) \/ NotifyWaiters(e)
             \/ ClearAndExit(e)
    BY <1>k, <2>4
       DEF CheckStopped, NextPart, ReportPart, ContinueOrBreak, WaitForRobotToStop,
           MarkComplete, NotifyWaiters, ClearAndExit, shared, statusVars
  <2> QED
    BY <1>3, <2>1, <2>2, <2>3, <2>4 DEF executeThread
<1>4. ASSUME \/ \E s \in Stoppers : CallStop(s)
             \/ \E c \in Controllers : GoalEnds(c) \/ DoneCallback(c)
             \/ UNCHANGED vars
      PROVE  NoForgettingStep
  BY <1>k, <1>4 DEF CallStop, GoalEnds, DoneCallback, vars, shared, statusVars
<1> QED
  BY <1>1, <1>2, <1>3, <1>4 DEF Next

\* Once an execution was stopped, what goes on in executePart() does not turn its
\* status into a success.
THEOREM StopIsNotForgottenAlways ==
  ASSUME OneClient, "tie" \notin Races, "lag" \notin Races
  PROVE  Spec => StopIsNotForgotten
<1>1. IInv /\ ThreadInv /\ CancelInv /\ ForgetInv /\ [Next]_vars => ForgetInv'
  BY QuietStep, CancelingCallerStep, CancelingStep DEF ForgetInv
<1>2. IInv /\ ThreadInv /\ ForgetInv /\ [Next]_vars => [NoForgettingStep]_vars
  BY ForgettingLemma
<1>3. StopIsNotForgotten <=> [][NoForgettingStep]_vars
  BY DEF StopIsNotForgotten, NoForgettingStep
<1> QED
  BY <1>1, <1>2, <1>3, ForgetInit, CancelInvariance, PTL DEF Spec

-----------------------------------------------------------------------------
(* TrajectoryExecution implements ExecutionManager, for one client.        *)

\* A client that executes nothing has joined the thread, and begins an execution
\* without anything reported.
Joined(c) ==
  \/ pc[c] \in {"idle", "push", "validate", "start", "spawn", "return"}
  \/ pc[c] \in {"stop", "join_lock", "join"} /\ back[c] = "validate"

Fresh(c) ==
  \/ pc[c] \in {"push", "validate", "start", "spawn"}
  \/ pc[c] \in {"stop", "join_lock", "join"} /\ back[c] = "validate"

JoinedInv == \A c \in Clients :
  /\ Joined(c) => execution_thread_ = NoThread
  /\ Fresh(c) => reported = {}

\* A thread reports its parts in order, each when it has succeeded.
ReportedInv == \A e \in Execs :
  /\ xpc[e] \in {"unborn", "begin", "started"} => x[e].i = 0
  /\ xpc[e] \in {"begin", "started"} => reported = {}
  /\ xpc[e] \in PartSteps \cup {"part_done"} =>
       x[e].i >= 1 /\ reported \subseteq 1 .. (x[e].i - 1)
  /\ xpc[e] \in {"loop", "next"} => reported \subseteq 1 .. x[e].i
  /\ xpc[e] = "loop" /\ x[e].i > 0 => x[e].i \in reported
  /\ xpc[e] = "next" => x[e].i >= 1 /\ (x[e].result => x[e].i \in reported)

\* The current index is that of the part whose handles are published.
ContextInv ==
  /\ \A e \in Execs : xpc[e] \in {"send", "sent"} => current_context_ = x[e].i
  /\ \A e \in Execs : xpc[e] \in Published => current_context_ \in {x[e].i, -1}
  /\ current_context_ # -1 => \E e \in Execs : xpc[e] \in Published

\* An execution that is not complete has a thread, or is about to have one.
GoingInv ==
  /\ execution_complete_ \/ Alive # {} \/ \E c \in Clients : pc[c] = "spawn"
  /\ \A e \in Execs : xpc[e] \in {"notify", "clear"} => execution_complete_

ManagerInv == JoinedInv /\ ReportedInv /\ ContextInv /\ GoingInv

\* At first there is neither a thread nor a report.
LEMMA ManagerInit == Init => ManagerInv
  BY DEF Init, ManagerInv, JoinedInv, Joined, Fresh, ReportedInv, ContextInv,
     GoingInv, Locals, Callers,
         PartSteps, Published

\* Only a client that is about to start changes the thread; only threads report.
LEMMA JoinedStep ==
  ASSUME OneClient, IInv, ThreadInv, JoinedInv, [Next]_vars
  PROVE  JoinedInv'
<1>t. /\ pc \in [Callers -> CallerSteps]
      /\ back \in [Clients -> {"validate", "return"}]
  BY DEF IInv, TypeOK
<1>d. Clients \cap Stoppers = {}
  BY TrajectoryExecutionAssumption
<1>c. Clients \subseteq Callers
  BY DEF Callers
<1>k. ASSUME UNCHANGED <<execution_thread_, reported>>,
             \A c \in Clients : pc'[c] = pc[c] /\ back'[c] = back[c]
      PROVE  JoinedInv'
  BY <1>k DEF JoinedInv, Joined, Fresh
<1>1. ASSUME NEW p \in Callers, stopExecution(p)
      PROVE  JoinedInv'
  <2>1. CASE StopTest(p)
    BY <1>t, <1>c, <2>1
       DEF StopTest, StopReturns, Goto, JoinedInv, Joined, Fresh, ThreadInv,
           ClientInv,
                            OneClient, shared, historyVars
  <2>2. CASE StopMark(p) \/ StopCancel(p) \/ StopClear(p)
    BY <1>t, <1>c, <1>k, <2>2
       DEF StopMark, StopCancel, StopClear, Goto, ThreadInv, ClientInv, JoinedInv,
           Joined, Fresh, historyVars
  <2>3. CASE JoinLock(p)
    BY <1>t, <1>c, <2>3
       DEF JoinLock, Goto, JoinedInv, Joined, Fresh, ThreadInv, ClientInv, shared,
           historyVars
  <2>4. CASE JoinThread(p)
    BY <1>t, <1>c, <2>4
       DEF JoinThread, StopReturns, Goto, JoinedInv, Joined, Fresh, ThreadInv,
           ClientInv,
                            historyVars
  <2> QED
    BY <1>1, <2>1, <2>2, <2>3, <2>4 DEF stopExecution
<1>2. ASSUME NEW c \in Clients,
             ClearFirst(c) \/ push(c) \/ CallExecute(c) \/ execute(c) \/ SpuriousWakeup(c)
      PROVE  JoinedInv'
  <2> USE DEF Goto, JoinedInv, Joined, Fresh, OneClient, shared, historyVars, callerVars
  <2>1. CASE ClearFirst(c)
    BY <1>t, <1>c, <1>2, <2>1 DEF ClearFirst
  <2>2. CASE push(c)
    BY <1>t, <1>c, <1>2, <2>2 DEF push
  <2>3. CASE CallExecute(c)
    BY <1>t, <1>c, <1>2, <2>3 DEF CallExecute
  <2>4. CASE Validate(c)
    BY <1>t, <1>c, <1>2, <2>4 DEF Validate
  <2>5. CASE MarkStarted(c)
    BY <1>t, <1>c, <1>2, <2>5 DEF MarkStarted
  <2>6. CASE SpawnThread(c)
    BY <1>t, <1>c, <1>2, <2>6 DEF SpawnThread
  <2>7. CASE WaitTest(c)
    BY <1>t, <1>c, <1>2, <2>7 DEF WaitTest
  <2>8. CASE Return(c)
    BY <1>t, <1>c, <1>2, <2>8 DEF Return
  <2>9. CASE SpuriousWakeup(c)
    BY <1>t, <1>c, <1>2, <2>9 DEF SpuriousWakeup
  <2> QED
    BY <1>2, <2>1, <2>2, <2>3, <2>4, <2>5, <2>6, <2>7, <2>8, <2>9 DEF execute
<1>3. ASSUME NEW s \in Stoppers, CallStop(s)
      PROVE  JoinedInv'
  BY <1>t, <1>d, <1>c, <1>k, <1>3 DEF CallStop, Goto, shared, historyVars
<1>4. ASSUME NEW e \in Execs, executeThread(e)
      PROVE  JoinedInv'
  <2>0. execution_thread_ # NoThread
    BY <1>4, ThreadAliveLemma DEF ThreadInv, LiveInv, Execs, NoThread
  <2>1. /\ UNCHANGED <<execution_thread_, back>>
        /\ UNCHANGED pc \/ pc' = [p \in Callers |-> IF pc[p] = "asleep" THEN "woken" ELSE pc[p]]
    BY <1>4
       DEF executeThread, executePart, CheckStopped, AssumeSuccess, NextPart, Inactive,
           CheckStoppedBeforePart, PublishHandles, SendPart, PartSent, AllSent,
           FillTimeIndex, AwaitPart, ResultSeen, WaitTimesOut, CancelLate, ReportLate,
           CheckStoppedAfterWait, JudgeHandle, ReportFailed, CleanUpPart, ReportPart,
           ContinueOrBreak, WaitForRobotToStop, MarkComplete, NotifyWaiters, ClearAndExit,
           shared, callerVars
  <2> QED
    BY <1>c, <2>0, <2>1 DEF JoinedInv, Joined, Fresh
<1>5. ASSUME NEW c \in Controllers, GoalEnds(c) \/ DoneCallback(c)
      PROVE  JoinedInv'
  BY <1>k, <1>5 DEF GoalEnds, DoneCallback, callerVars, historyVars
<1>6. CASE UNCHANGED vars
  BY <1>k, <1>6 DEF vars, shared, callerVars, historyVars
<1> QED
  BY <1>1, <1>2, <1>3, <1>4, <1>5, <1>6 DEF Next

\* The steps of a thread through its parts.
LEMMA ReportedStep ==
  ASSUME OneClient, IInv, ThreadInv, ManagerInv, [Next]_vars
  PROVE  ReportedInv' /\ ContextInv'
<1>t. /\ pc \in [Callers -> CallerSteps]
      /\ xpc \in [Execs -> ExecSteps]
      /\ x \in [Execs -> LocalsType]
      /\ \A e \in Execs : x[e].i \in Nat
  BY DEF IInv, TypeOK, LocalsType
<1>r. ReportedInv /\ ContextInv /\ JoinedInv
  BY DEF ManagerInv
<1>k. ASSUME UNCHANGED <<xpc, x, reported, current_context_>>
      PROVE  ReportedInv' /\ ContextInv'
  BY <1>r, <1>k DEF ReportedInv, ContextInv
<1>1. ASSUME NEW p \in Callers, stopExecution(p)
      PROVE  ReportedInv' /\ ContextInv'
  BY <1>k, <1>1
     DEF stopExecution, StopTest, StopMark, StopCancel, JoinLock, JoinThread, StopClear,
         shared, partVars, threadVars, historyVars
<1>2. ASSUME NEW c \in Clients,
             ClearFirst(c) \/ push(c) \/ CallExecute(c) \/ execute(c) \/ SpuriousWakeup(c)
      PROVE  ReportedInv' /\ ContextInv'
  <2>1. CASE ClearFirst(c)
    <3>1. \A e \in Execs : xpc[e] \in {"unborn", "exited"}
      BY <1>r, <2>1
         DEF ClearFirst, Goto, JoinedInv, Joined, Fresh, ThreadInv, LiveInv,
             Execs, NoThread
    <3> QED
      BY <1>r, <2>1, <3>1
         DEF ClearFirst, ReportedInv, ContextInv, PartSteps, Published, partVars, threadVars
  <2>2. CASE SpawnThread(c)
    <3>1. \A e \in Execs : xpc[e] \in {"unborn", "exited"}
      BY <1>r, <2>2
         DEF SpawnThread, Goto, JoinedInv, Joined, Fresh, ThreadInv, LiveInv,
             Execs, NoThread
    <3>2. /\ \A e \in Execs : xpc'[e] = xpc[e] \/ (xpc[e] = "unborn" /\ xpc'[e] = "begin")
          /\ UNCHANGED <<x, reported, current_context_>>
          /\ reported = {}
      BY <1>t, <1>r, <2>2
         DEF SpawnThread, Goto, XGoto, JoinedInv, Joined, Fresh, partVars,
             historyVars
    <3> QED
      BY <1>r, <3>1, <3>2 DEF ReportedInv, ContextInv, PartSteps, Published
  <2>3. CASE \/ push(c) \/ CallExecute(c) \/ Validate(c) \/ MarkStarted(c) \/ WaitTest(c)
             \/ Return(c) \/ SpuriousWakeup(c)
    BY <1>k, <2>3
       DEF push, CallExecute, Validate, MarkStarted, WaitTest, Return, SpuriousWakeup,
           shared, partVars, threadVars, historyVars
  <2> QED
    BY <1>2, <2>1, <2>2, <2>3 DEF execute
<1>3. ASSUME \/ \E s \in Stoppers : CallStop(s)
             \/ \E c \in Controllers : GoalEnds(c) \/ DoneCallback(c)
             \/ UNCHANGED vars
      PROVE  ReportedInv' /\ ContextInv'
  BY <1>k, <1>3
     DEF CallStop, GoalEnds, DoneCallback, vars, shared, partVars, threadVars, historyVars
<1>4. ASSUME NEW e \in Execs, executeThread(e)
      PROVE  ReportedInv' /\ ContextInv'
  <2>a. /\ xpc[e] \notin {"unborn", "exited"}
        /\ \A d \in Execs : d # e => xpc[d] \in {"unborn", "exited"}
        /\ \A d \in Execs : d # e => xpc'[d] = xpc[d] /\ x'[d] = x[d]
    BY <1>4, ThreadAliveLemma DEF ThreadInv
  <2>r. ASSUME xpc'[e] # "unborn" /\ xpc'[e] # "begin",
               xpc'[e] = "started" => x'[e].i = 0 /\ reported' = {},
               xpc'[e] \in PartSteps \cup {"part_done"} =>
                 x'[e].i >= 1 /\ reported' \subseteq 1 .. (x'[e].i - 1),
               xpc'[e] \in {"loop", "next"} => reported' \subseteq 1 .. x'[e].i,
               xpc'[e] = "loop" /\ x'[e].i > 0 => x'[e].i \in reported',
               xpc'[e] = "next" => x'[e].i >= 1 /\ (x'[e].result => x'[e].i \in reported')
        PROVE  ReportedInv'
    BY <1>r, <2>a, <2>r DEF ReportedInv, PartSteps, Published
  <2>c. ASSUME xpc'[e] \in {"send", "sent"} => current_context_' = x'[e].i,
               xpc'[e] \in Published => current_context_' \in {x'[e].i, -1},
               xpc'[e] \notin Published => current_context_' = -1
        PROVE  ContextInv'
    BY <2>a, <2>c DEF ContextInv, Published
  <2>b. /\ xpc[e] \in {"send", "sent"} => current_context_ = x[e].i
        /\ xpc[e] \in Published => current_context_ \in {x[e].i, -1}
        /\ xpc[e] \notin Published => current_context_ = -1
    BY <1>r, <2>a DEF ContextInv, Published
  <2>s. /\ xpc[e] \in {"begin", "started"} => x[e].i = 0 /\ reported = {}
        /\ xpc[e] \in PartSteps \cup {"part_done"} =>
             x[e].i >= 1 /\ reported \subseteq 1 .. (x[e].i - 1)
        /\ xpc[e] \in {"loop", "next"} => reported \subseteq 1 .. x[e].i
        /\ xpc[e] = "loop" /\ x[e].i > 0 => x[e].i \in reported
        /\ xpc[e] = "next" => x[e].i >= 1 /\ (x[e].result => x[e].i \in reported)
    BY <1>r DEF ReportedInv
  <2> USE DEF XGoto, PartSteps, Published, LocalsType
  <2>1. CASE CheckStopped(e) \/ AssumeSuccess(e)
    BY <1>t, <2>r, <2>c, <2>b, <2>s, <2>1
       DEF CheckStopped, AssumeSuccess, partVars, historyVars
  <2>2. CASE NextPart(e)
    <3>1. CASE xpc'[e] = "finish"
      BY <1>t, <2>r, <2>c, <2>b, <2>2, <3>1 DEF NextPart, shared, partVars, historyVars
    <3>2. CASE xpc'[e] # "finish"
      <4>1. /\ xpc[e] = "loop" /\ xpc'[e] \in {"inactive", "active"}
            /\ x'[e].i = x[e].i + 1
            /\ UNCHANGED <<reported, current_context_>>
        BY <1>t, <2>2, <3>2 DEF NextPart, Locals, shared, partVars, historyVars
      <4> QED
        BY <1>t, <2>r, <2>c, <2>b, <2>s, <4>1
    <3> QED
      BY <3>1, <3>2
  <2>3. CASE Inactive(e) \/ CheckStoppedBeforePart(e)
    <3>1. /\ xpc[e] \in {"inactive", "active"} /\ xpc'[e] \in {"part_done", "lock"}
          /\ x'[e].i = x[e].i
          /\ UNCHANGED <<reported, current_context_>>
      BY <1>t, <2>3 DEF Inactive, CheckStoppedBeforePart, shared, partVars, historyVars
    <3> QED
      BY <1>t, <2>r, <2>c, <2>b, <2>s, <3>1
  <2>4. CASE PublishHandles(e)
    <3>1. /\ xpc[e] = "lock" /\ x'[e].i = x[e].i /\ UNCHANGED reported
          /\ \/ xpc'[e] = "index" /\ UNCHANGED current_context_
             \/ xpc'[e] = "send" /\ current_context_' = x[e].i
             \/ xpc'[e] = "part_done" /\ current_context_' = -1
      BY <1>t, <2>4 DEF PublishHandles, partVars, historyVars
    <3> QED
      BY <1>t, <2>r, <2>c, <2>b, <2>s, <3>1
  <2>5. CASE SendPart(e) \/ CleanUpPart(e)
    <3>1. /\ xpc[e] \in {"send", "cleanup"} /\ x'[e].i = x[e].i /\ UNCHANGED reported
          /\ \/ xpc[e] = "send" /\ xpc'[e] = "sent" /\ UNCHANGED current_context_
             \/ xpc'[e] = "part_done" /\ current_context_' = -1
      <4>1. CASE SendPart(e)
        BY <1>t, <4>1, SendPartLemma
      <4>2. CASE CleanUpPart(e)
        BY <1>t, <4>2 DEF CleanUpPart, historyVars
      <4> QED
        BY <2>5, <4>1, <4>2
    <3> QED
      BY <1>t, <2>r, <2>c, <2>b, <2>s, <3>1
  <2>6. CASE \/ PartSent(e) \/ AllSent(e) \/ FillTimeIndex(e) \/ AwaitPart(e)
             \/ ResultSeen(e) \/ WaitTimesOut(e) \/ CancelLate(e) \/ ReportLate(e)
             \/ CheckStoppedAfterWait(e) \/ JudgeHandle(e) \/ ReportFailed(e)
    <3>1. /\ xpc[e] \in Published /\ xpc'[e] \in Published /\ x'[e].i = x[e].i
          /\ xpc'[e] \in {"send", "sent"} => xpc[e] = "sent"
          /\ UNCHANGED <<reported, current_context_>>
      BY <1>t, <2>6
         DEF PartSent, AllSent, FillTimeIndex, AwaitPart, ResultSeen, WaitTimesOut,
             CancelLate, ReportLate, CheckStoppedAfterWait, JudgeHandle, ReportFailed,
             shared, partVars, historyVars
    <3> QED
      BY <1>t, <2>r, <2>c, <2>b, <2>s, <3>1
  <2>7. CASE ReportPart(e)
    <3>1. /\ xpc[e] = "part_done" /\ xpc'[e] = "next" /\ UNCHANGED <<x, current_context_>>
          /\ reported' = IF x[e].result THEN reported \cup {x[e].i} ELSE reported
      BY <1>t, <2>7 DEF ReportPart, shared, partVars
    <3>2. reported' \subseteq 1 .. x[e].i
      BY <1>t, <2>s, <3>1
    <3> QED
      BY <1>t, <2>r, <2>c, <2>b, <2>s, <3>1, <3>2
  <2>8. CASE ContinueOrBreak(e)
    BY <1>t, <2>r, <2>c, <2>b, <2>s, <2>8
       DEF ContinueOrBreak, shared, partVars, historyVars
  <2>9. CASE \/ WaitForRobotToStop(e) \/ MarkComplete(e) \/ NotifyWaiters(e)
             \/ ClearAndExit(e)
    BY <1>t, <2>r, <2>c, <2>b, <2>9
       DEF WaitForRobotToStop, MarkComplete, NotifyWaiters, ClearAndExit, shared,
           partVars, historyVars
  <2> QED
    BY <1>4, <2>1, <2>2, <2>3, <2>4, <2>5, <2>6, <2>7, <2>8, <2>9
       DEF executeThread, executePart
<1> QED
  BY <1>1, <1>2, <1>3, <1>4 DEF Next

\* The flag is only cleared by a client that then creates the thread, and a
\* thread that ends has found it set or has set it.
LEMMA GoingStep ==
  ASSUME OneClient, IInv, ThreadInv, ManagerInv, [Next]_vars
  PROVE  GoingInv'
<1>t. /\ pc \in [Callers -> CallerSteps]
      /\ xpc \in [Execs -> ExecSteps]
      /\ back \in [Clients -> {"validate", "return"}]
  BY DEF IInv, TypeOK
<1>d. Clients \cap Stoppers = {} /\ Clients \subseteq Callers
  BY TrajectoryExecutionAssumption DEF Callers
<1>g. GoingInv
  BY DEF ManagerInv
<1> USE DEF Alive
<1>k. ASSUME UNCHANGED xpc, execution_complete_ => execution_complete_',
             \A c \in Clients : pc[c] = "spawn" => pc'[c] = "spawn"
      PROVE  GoingInv'
  BY <1>g, <1>k DEF GoingInv
<1>1. ASSUME NEW p \in Callers, stopExecution(p)
      PROVE  GoingInv'
  BY <1>t, <1>d, <1>k, <1>1
     DEF stopExecution, StopTest, StopMark, StopCancel, JoinLock, JoinThread, StopClear,
         Goto, shared, statusVars, threadVars
<1>2. ASSUME NEW c \in Clients,
             ClearFirst(c) \/ push(c) \/ CallExecute(c) \/ execute(c) \/ SpuriousWakeup(c)
      PROVE  GoingInv'
  <2>1. CASE MarkStarted(c)
    <3>1. \A e \in Execs : xpc[e] \in {"unborn", "exited"}
      BY <2>1 DEF MarkStarted, Goto, ThreadInv, ClientInv, LiveInv, Execs, NoThread
    <3> QED
      BY <1>t, <1>d, <2>1, <3>1 DEF MarkStarted, Goto, GoingInv, threadVars
  <2>2. CASE SpawnThread(c)
    <3>1. PICK e \in Execs : XGoto(e, "unborn", "begin")
      BY <2>2 DEF SpawnThread
    <3>2. xpc'[e] = "begin" /\ \A d \in Execs : d # e => xpc'[d] = xpc[d]
      BY <1>t, <3>1 DEF XGoto
    <3>3. UNCHANGED execution_complete_
      BY <2>2 DEF SpawnThread, statusVars
    <3> QED
      BY <1>g, <3>2, <3>3 DEF GoingInv
  <2>3. CASE \/ ClearFirst(c) \/ push(c) \/ CallExecute(c) \/ Validate(c) \/ WaitTest(c)
             \/ Return(c) \/ SpuriousWakeup(c)
    BY <1>t, <1>d, <1>k, <2>3
       DEF ClearFirst, push, CallExecute, Validate, WaitTest, Return, SpuriousWakeup, Goto,
           shared, statusVars, threadVars
  <2> QED
    BY <1>2, <2>1, <2>2, <2>3 DEF execute
<1>3. ASSUME NEW s \in Stoppers, CallStop(s)
      PROVE  GoingInv'
  BY <1>t, <1>d, <1>k, <1>3 DEF CallStop, Goto, Callers, shared, statusVars, threadVars
<1>4. ASSUME NEW e \in Execs, executeThread(e)
      PROVE  GoingInv'
  <2>1. \A d \in Execs : d # e => xpc'[d] = xpc[d]
    BY <1>4, ThreadAliveLemma DEF ThreadInv
  <2>2. execution_complete_ => execution_complete_'
    BY <1>4
       DEF executeThread, executePart, CheckStopped, AssumeSuccess, NextPart, Inactive,
           CheckStoppedBeforePart, PublishHandles, SendPart, PartSent, AllSent,
           FillTimeIndex, AwaitPart, ResultSeen, WaitTimesOut, CancelLate, ReportLate,
           CheckStoppedAfterWait, JudgeHandle, ReportFailed, CleanUpPart, ReportPart,
           ContinueOrBreak, WaitForRobotToStop, MarkComplete, NotifyWaiters, ClearAndExit,
           shared, statusVars
  <2>3. \/ execution_complete_'
        \/ xpc'[e] \notin {"unborn", "exited", "notify", "clear"}
    <3>1. CASE CheckStopped(e) \/ MarkComplete(e) \/ NotifyWaiters(e) \/ ClearAndExit(e)
      BY <1>t, <1>g, <3>1
         DEF CheckStopped, MarkComplete, NotifyWaiters, ClearAndExit, XGoto, GoingInv,
             shared, statusVars
    <3>2. CASE executePart(e)
      BY <1>t, <3>2
         DEF executePart, Inactive, CheckStoppedBeforePart, PublishHandles, SendPart,
             PartSent, AllSent, FillTimeIndex, AwaitPart, ResultSeen, WaitTimesOut,
             CancelLate, ReportLate, CheckStoppedAfterWait, JudgeHandle, ReportFailed,
             CleanUpPart, XGoto
    <3>3. CASE \/ AssumeSuccess(e) \/ NextPart(e) \/ ReportPart(e) \/ ContinueOrBreak(e)
               \/ WaitForRobotToStop(e)
      BY <1>t, <3>3
         DEF AssumeSuccess, NextPart, ReportPart, ContinueOrBreak, WaitForRobotToStop,
             XGoto
    <3> QED
      BY <1>4, <3>1, <3>2, <3>3 DEF executeThread
  <2> QED
    BY <1>g, <2>1, <2>2, <2>3 DEF GoingInv
<1>5. ASSUME NEW c \in Controllers, GoalEnds(c) \/ DoneCallback(c)
      PROVE  GoingInv'
  BY <1>k, <1>5 DEF GoalEnds, DoneCallback, callerVars, statusVars, threadVars
<1>6. CASE UNCHANGED vars
  BY <1>k, <1>6 DEF vars, shared, callerVars, statusVars, threadVars
<1> QED
  BY <1>1, <1>2, <1>3, <1>4, <1>5, <1>6 DEF Next

\* Every step keeps the invariant.
LEMMA ManagerStep ==
  ASSUME OneClient, IInv, ThreadInv, ManagerInv, [Next]_vars
  PROVE  ManagerInv'
<1>1. JoinedInv'
  BY JoinedStep DEF ManagerInv
<1>2. GoingInv'
  BY GoingStep
<1> QED
  BY <1>1, <1>2, ReportedStep DEF ManagerInv

\* What the abstract manager sees.
Executing == Alive # {} \/ \E c \in Clients : pc[c] = "spawn"
Begun == Part > 0 /\ \A e \in Alive : xpc[e] \notin {"inactive", "active", "lock"}
Finished == IF Alive = {} THEN {} ELSE reported

SameForManager ==
  /\ (Executing' <=> Executing) /\ (Begun' <=> Begun)
  /\ UNCHANGED <<execution_complete_, Part, current_context_, Finished>>

\* While a thread lives, the abstract manager sees its part.
LEMMA SeenLemma ==
  ASSUME LiveInv, NEW e \in Execs, xpc[e] \notin {"unborn", "exited"}
  PROVE  /\ Executing
         /\ Part = x[e].i
         /\ Begun <=> x[e].i > 0 /\ xpc[e] \notin {"inactive", "active", "lock"}
         /\ Finished = reported
<1>1. Alive = {e}
  BY DEF Alive, LiveInv
<1>2. Part = x[e].i
  BY <1>1 DEF Part
<1> QED
  BY <1>1, <1>2 DEF Executing, Begun, Finished

\* Between executions it sees nothing.
LEMMA UnseenLemma ==
  ASSUME \A e \in Execs : xpc[e] \in {"unborn", "exited"}
  PROVE  /\ Executing <=> \E c \in Clients : pc[c] = "spawn"
         /\ Part = 0 /\ ~Begun /\ Finished = {}
<1>1. Alive = {}
  BY DEF Alive
<1> QED
  BY <1>1 DEF Executing, Part, Begun, Finished

\* The same after a step.
LEMMA SeenNextLemma ==
  ASSUME LiveInv', NEW e \in Execs, xpc'[e] \notin {"unborn", "exited"}
  PROVE  /\ Executing'
         /\ Part' = x'[e].i
         /\ Begun' <=> x'[e].i > 0 /\ xpc'[e] \notin {"inactive", "active", "lock"}
         /\ Finished' = reported'
<1>1. Alive' = {e}
  BY DEF Alive, LiveInv
<1>2. Part' = x'[e].i
  BY <1>1 DEF Part
<1> QED
  BY <1>1, <1>2 DEF Executing, Begun, Finished

LEMMA UnseenNextLemma ==
  ASSUME \A e \in Execs : xpc'[e] \in {"unborn", "exited"}
  PROVE  /\ Executing' <=> \E c \in Clients : pc'[c] = "spawn"
         /\ Part' = 0 /\ ~Begun' /\ Finished' = {}
<1>1. Alive' = {}
  BY DEF Alive
<1> QED
  BY <1>1 DEF Executing, Part, Begun, Finished

\* The abstract actions, over what is seen.
LEMMA AbstractLemma ==
  /\ SameForManager => UNCHANGED Manager!managerVars
  /\ (/\ ~Executing /\ Executing' /\ execution_complete_' = FALSE /\ (Begun' <=> Begun)
      /\ UNCHANGED <<Part, current_context_, Finished>>)
     => Manager!Execute
  /\ (/\ Executing /\ current_context_ = -1 /\ (Part > 0 => Part \in Finished)
      /\ Executing' /\ Part' = Part + 1 /\ ~Begun'
      /\ UNCHANGED <<execution_complete_, current_context_, Finished>>)
     => Manager!NextPart
  /\ (/\ Executing /\ ~execution_complete_ /\ Part > 0 /\ ~Begun
      /\ Executing' /\ Begun' /\ current_context_' = Part
      /\ UNCHANGED <<execution_complete_, Part, Finished>>)
     => Manager!BeginPart
  /\ (/\ Executing /\ Part > 0 /\ ~Begun
      /\ Executing' /\ Begun'
      /\ UNCHANGED <<execution_complete_, Part, current_context_, Finished>>)
     => Manager!SkipPart
  /\ (/\ current_context_ # -1 /\ current_context_' = -1
      /\ (Executing' <=> Executing) /\ (Begun' <=> Begun)
      /\ UNCHANGED <<execution_complete_, Part, Finished>>)
     => Manager!EndPart
  /\ (/\ Executing /\ current_context_ = -1 /\ Begun /\ Part \notin Finished
      /\ Executing' /\ Begun' /\ Finished' = Finished \cup {Part}
      /\ UNCHANGED <<execution_complete_, Part, current_context_>>)
     => Manager!ReportPart
  /\ (/\ Executing /\ ~execution_complete_
      /\ Executing' /\ execution_complete_' = TRUE /\ (Begun' <=> Begun)
      /\ UNCHANGED <<Part, current_context_, Finished>>)
     => Manager!Complete
  /\ (/\ Executing /\ execution_complete_ /\ current_context_ = -1
      /\ ~Executing' /\ Part' = 0 /\ ~Begun' /\ Finished' = {}
      /\ UNCHANGED <<execution_complete_, current_context_>>)
     => Manager!Finish
  BY DEF SameForManager, Executing, Begun, Finished, Manager!managerVars,
         Manager!Execute, Manager!NextPart, Manager!BeginPart, Manager!SkipPart,
         Manager!EndPart, Manager!ReportPart, Manager!Complete, Manager!Finish

\* The steps of a thread that goes on are steps of the abstract manager.
LEMMA ThreadImplements ==
  ASSUME IInv, ThreadInv, ManagerInv, ThreadInv', NEW e \in Execs, executeThread(e),
         xpc'[e] # "exited"
  PROVE  Manager!Next \/ UNCHANGED Manager!managerVars
<1>t. /\ xpc \in [Execs -> ExecSteps]
      /\ x \in [Execs -> LocalsType]
      /\ x[e].i \in Nat
      /\ execution_complete_ \in BOOLEAN
  BY DEF IInv, TypeOK, LocalsType
<1>u. xpc'[e] # "unborn"
  BY <1>t DEF executeThread, executePart, XGoto, CheckStopped, AssumeSuccess, NextPart,
         Inactive, CheckStoppedBeforePart, PublishHandles, SendPart, PartSent, AllSent,
         FillTimeIndex, AwaitPart, ResultSeen, WaitTimesOut, CancelLate, ReportLate,
         CheckStoppedAfterWait, JudgeHandle, ReportFailed, CleanUpPart, ReportPart,
         ContinueOrBreak, WaitForRobotToStop, MarkComplete, NotifyWaiters, ClearAndExit
<1>s. /\ Executing /\ Executing'
      /\ Part = x[e].i /\ Part' = x'[e].i
      /\ Begun <=> x[e].i > 0 /\ xpc[e] \notin {"inactive", "active", "lock"}
      /\ Begun' <=> x'[e].i > 0 /\ xpc'[e] \notin {"inactive", "active", "lock"}
      /\ Finished = reported /\ Finished' = reported'
  <2>1. xpc[e] \notin {"unborn", "exited"}
    BY ThreadAliveLemma DEF ThreadInv
  <2> QED
    BY <1>u, <2>1, SeenLemma, SeenNextLemma DEF ThreadInv
<1>r. /\ xpc[e] \in {"begin", "started"} => x[e].i = 0
      /\ xpc[e] \in PartSteps \cup {"part_done"} =>
           x[e].i >= 1 /\ reported \subseteq 1 .. (x[e].i - 1)
      /\ xpc[e] = "loop" /\ x[e].i > 0 => x[e].i \in reported
  BY DEF ManagerInv, ReportedInv
<1>c. /\ xpc[e] = "send" => current_context_ = x[e].i
      /\ xpc[e] \notin Published => current_context_ = -1
  <2>1. \A d \in Execs : d # e => xpc[d] \in {"unborn", "exited"}
    BY ThreadAliveLemma DEF ThreadInv
  <2> QED
    BY <2>1 DEF ManagerInv, ContextInv, Published
<1>k. ASSUME UNCHANGED <<x, reported, execution_complete_, current_context_>>,
             \/ x[e].i = 0
             \/ xpc[e] \in {"inactive", "active", "lock"} /\
                xpc'[e] \in {"inactive", "active", "lock"}
             \/ xpc[e] \notin {"inactive", "active", "lock"} /\
                xpc'[e] \notin {"inactive", "active", "lock"}
      PROVE  SameForManager
  BY <1>t, <1>s, <1>k DEF SameForManager
<1>a. SameForManager => UNCHANGED Manager!managerVars
  BY AbstractLemma
<1> USE DEF XGoto, historyVars, partVars, statusVars, shared
<1>1. CASE \/ CheckStopped(e) \/ AssumeSuccess(e) \/ ContinueOrBreak(e)
           \/ WaitForRobotToStop(e) \/ NotifyWaiters(e)
  <2>1. SameForManager
    BY <1>1, <1>t, <1>s, <1>r
       DEF CheckStopped, AssumeSuccess, ContinueOrBreak, WaitForRobotToStop, NotifyWaiters,
           SameForManager
  <2> QED
    BY <1>a, <2>1
<1>2. CASE NextPart(e)
  <2>1. CASE xpc'[e] = "finish"
    <3>1. SameForManager
      BY <1>2, <1>t, <1>s, <2>1 DEF NextPart, SameForManager
    <3> QED
      BY <1>a, <3>1
  <2>2. CASE xpc'[e] # "finish"
    <3>1. /\ xpc[e] = "loop" /\ xpc'[e] \in {"inactive", "active"}
          /\ x'[e].i = x[e].i + 1
          /\ UNCHANGED <<reported, current_context_, execution_complete_>>
      BY <1>2, <1>t, <2>2 DEF NextPart, Locals
    <3>2. Manager!NextPart
      BY <1>t, <1>s, <1>r, <1>c, <3>1, AbstractLemma DEF Published
    <3> QED
      BY <3>2 DEF Manager!Next
  <2> QED
    BY <2>1, <2>2
<1>3. CASE Inactive(e) \/ CheckStoppedBeforePart(e)
  <2>1. /\ xpc[e] \in {"inactive", "active"} /\ xpc'[e] \in {"part_done", "lock"}
        /\ x'[e].i = x[e].i
        /\ UNCHANGED <<reported, current_context_, execution_complete_>>
    BY <1>3, <1>t DEF Inactive, CheckStoppedBeforePart, LocalsType
  <2>2. CASE xpc'[e] = "lock"
    <3>1. SameForManager
      BY <1>t, <1>s, <2>1, <2>2 DEF SameForManager
    <3> QED
      BY <1>a, <3>1
  <2>3. CASE xpc'[e] = "part_done"
    <3>1. Manager!SkipPart
      BY <1>t, <1>s, <1>r, <2>1, <2>3, AbstractLemma DEF PartSteps
    <3> QED
      BY <3>1 DEF Manager!Next
  <2> QED
    BY <2>1, <2>2, <2>3
<1>4. CASE PublishHandles(e)
  <2>1. /\ xpc[e] = "lock" /\ x'[e].i = x[e].i
        /\ UNCHANGED <<reported, execution_complete_>>
        /\ \/ xpc'[e] = "index" /\ UNCHANGED current_context_
           \/ xpc'[e] = "send" /\ ~execution_complete_ /\ current_context_' = x[e].i
           \/ xpc'[e] = "part_done" /\ current_context_' = -1
    BY <1>4, <1>t DEF PublishHandles, LocalsType
  <2>2. CASE xpc'[e] = "send"
    <3>1. Manager!BeginPart
      BY <1>t, <1>s, <1>r, <2>1, <2>2, AbstractLemma DEF PartSteps
    <3> QED
      BY <3>1 DEF Manager!Next
  <2>3. CASE xpc'[e] # "send"
    <3>1. Manager!SkipPart
      BY <1>t, <1>s, <1>r, <1>c, <2>1, <2>3, AbstractLemma DEF PartSteps, Published
    <3> QED
      BY <3>1 DEF Manager!Next
  <2> QED
    BY <2>2, <2>3
<1>5. CASE SendPart(e) \/ CleanUpPart(e)
  <2>1. /\ xpc[e] \in {"send", "cleanup"} /\ x'[e].i = x[e].i
        /\ xpc'[e] \in {"sent", "part_done"}
        /\ UNCHANGED <<reported, execution_complete_>>
        /\ \/ xpc'[e] = "sent" /\ UNCHANGED current_context_
           \/ xpc'[e] = "part_done" /\ current_context_' = -1
    <3>1. CASE SendPart(e)
      BY <1>t, <3>1, SendPartLemma
    <3>2. CASE CleanUpPart(e)
      BY <1>t, <3>2 DEF CleanUpPart
    <3> QED
      BY <1>5, <3>1, <3>2
  <2>2. CASE current_context_' = current_context_
    <3>1. SameForManager
      BY <1>t, <1>s, <2>1, <2>2 DEF SameForManager
    <3> QED
      BY <1>a, <3>1
  <2>3. CASE current_context_' # current_context_
    <3>1. Manager!EndPart
      BY <1>t, <1>s, <2>1, <2>3, AbstractLemma
    <3> QED
      BY <3>1 DEF Manager!Next
  <2> QED
    BY <2>2, <2>3
<1>6. CASE \/ PartSent(e) \/ AllSent(e) \/ FillTimeIndex(e) \/ AwaitPart(e)
           \/ ResultSeen(e) \/ WaitTimesOut(e) \/ CancelLate(e) \/ ReportLate(e)
           \/ CheckStoppedAfterWait(e) \/ JudgeHandle(e) \/ ReportFailed(e)
  <2>1. /\ xpc[e] \in Published /\ xpc'[e] \in Published /\ x'[e].i = x[e].i
        /\ UNCHANGED <<reported, current_context_, execution_complete_>>
    BY <1>t, <1>6
       DEF PartSent, AllSent, FillTimeIndex, AwaitPart, ResultSeen, WaitTimesOut,
           CancelLate, ReportLate, CheckStoppedAfterWait, JudgeHandle, ReportFailed,
           Published, LocalsType
  <2>2. SameForManager
    BY <1>t, <1>s, <2>1 DEF SameForManager, Published
  <2> QED
    BY <1>a, <2>2
<1>7. CASE ReportPart(e)
  <2>1. /\ xpc[e] = "part_done" /\ xpc'[e] = "next"
        /\ UNCHANGED <<x, current_context_, execution_complete_>>
        /\ reported' = IF x[e].result THEN reported \cup {x[e].i} ELSE reported
    BY <1>t, <1>7 DEF ReportPart
  <2>2. CASE x[e].result
    <3>1. Manager!ReportPart
      BY <1>t, <1>s, <1>r, <1>c, <2>1, <2>2, AbstractLemma DEF Published
    <3> QED
      BY <3>1 DEF Manager!Next
  <2>3. CASE ~x[e].result
    <3>1. SameForManager
      BY <1>t, <1>s, <2>1, <2>3 DEF SameForManager
    <3> QED
      BY <1>a, <3>1
  <2> QED
    BY <2>2, <2>3
<1>8. CASE MarkComplete(e)
  <2>1. /\ xpc[e] = "complete" /\ xpc'[e] = "notify" /\ execution_complete_' = TRUE
        /\ UNCHANGED <<x, reported, current_context_>>
    BY <1>t, <1>8 DEF MarkComplete
  <2>2. CASE execution_complete_
    <3>1. SameForManager
      BY <1>t, <1>s, <2>1, <2>2 DEF SameForManager
    <3> QED
      BY <1>a, <3>1
  <2>3. CASE ~execution_complete_
    <3>1. Manager!Complete
      BY <1>t, <1>s, <2>1, <2>3, AbstractLemma
    <3> QED
      BY <3>1 DEF Manager!Next
  <2> QED
    BY <2>2, <2>3
<1>9. ~ ClearAndExit(e)
  BY <1>t DEF ClearAndExit
<1> QED
  BY <1>1, <1>2, <1>3, <1>4, <1>5, <1>6, <1>7, <1>8, <1>9 DEF executeThread, executePart

\* The end of a thread ends the execution.
LEMMA ExitImplements ==
  ASSUME IInv, ThreadInv, ManagerInv, ThreadInv', NEW e \in Execs, executeThread(e),
         xpc'[e] = "exited"
  PROVE  Manager!Finish
<1>t. xpc \in [Execs -> ExecSteps] /\ pc \in [Callers -> CallerSteps]
  BY DEF IInv, TypeOK
<1>1. CheckStopped(e) \/ ClearAndExit(e)
  BY <1>t DEF executeThread, executePart, XGoto, CheckStopped, AssumeSuccess, NextPart,
         Inactive, CheckStoppedBeforePart, PublishHandles, SendPart, PartSent, AllSent,
         FillTimeIndex, AwaitPart, ResultSeen, WaitTimesOut, CancelLate, ReportLate,
         CheckStoppedAfterWait, JudgeHandle, ReportFailed, CleanUpPart, ReportPart,
         ContinueOrBreak, WaitForRobotToStop, MarkComplete, NotifyWaiters, ClearAndExit
<1>2. /\ xpc[e] \in {"begin", "clear"} /\ execution_complete_
      /\ UNCHANGED <<execution_complete_, current_context_, pc>>
  BY <1>t, <1>1
     DEF CheckStopped, ClearAndExit, XGoto, partVars, statusVars, callerVars, ManagerInv,
         GoingInv
<1>3. \A d \in Execs : d # e => xpc[d] \in {"unborn", "exited"} /\ xpc'[d] = xpc[d]
  BY ThreadAliveLemma DEF ThreadInv
<1>4. current_context_ = -1
  BY <1>2, <1>3 DEF ManagerInv, ContextInv, Published
<1>5. \A c \in Clients : pc[c] # "spawn"
  BY <1>2 DEF ThreadInv, ClientInv, LiveInv, Execs, NoThread
<1>6. Executing
  BY <1>2, SeenLemma DEF ThreadInv
<1>7. /\ ~Executing'
      /\ Part' = 0 /\ ~Begun' /\ Finished' = {}
  BY <1>2, <1>3, <1>5, UnseenNextLemma
<1> QED
  BY <1>2, <1>4, <1>6, <1>7, AbstractLemma

\* A step that changes no thread and no report is seen only if it changes the flag.
LEMMA SameSeenLemma ==
  ASSUME UNCHANGED <<xpc, x, reported>>
  PROVE  /\ UNCHANGED <<Part, Finished, Alive>>
         /\ Begun' <=> Begun
<1>1. Alive' = Alive
  BY DEF Alive
<1> QED
  BY <1>1 DEF Part, Finished, Begun

\* The steps of those who stop.
LEMMA StopImplements ==
  ASSUME IInv, ThreadInv, ManagerInv, NEW p \in Callers, stopExecution(p)
  PROVE  Manager!Complete \/ UNCHANGED Manager!managerVars
<1>t. /\ pc \in [Callers -> CallerSteps]
      /\ back \in [Clients -> {"validate", "return"}]
      /\ execution_complete_ \in BOOLEAN
  BY DEF IInv, TypeOK
<1>1. UNCHANGED <<xpc, x, reported, current_context_>>
  BY DEF stopExecution, StopTest, StopMark, StopCancel, JoinLock, JoinThread, StopClear,
         shared, partVars, threadVars, historyVars
<1>2. \A c \in Clients : pc'[c] = "spawn" <=> pc[c] = "spawn"
  BY <1>t DEF stopExecution, StopTest, StopMark, StopCancel, JoinLock, JoinThread,
              StopClear, StopReturns, Goto, Callers
<1>3. /\ Executing' <=> Executing
      /\ Begun' <=> Begun
      /\ UNCHANGED <<Part, Finished>>
  BY <1>1, <1>2, SameSeenLemma DEF Executing
<1>4. execution_complete_' = execution_complete_ \/ execution_complete_' = TRUE
  BY DEF stopExecution, StopTest, StopMark, StopCancel, JoinLock, JoinThread, StopClear,
         shared, statusVars
<1>5. execution_complete_ \/ Executing
  BY DEF ManagerInv, GoingInv, Executing
<1>6. CASE execution_complete_' = execution_complete_
  BY <1>1, <1>3, <1>6, AbstractLemma DEF SameForManager
<1>7. CASE execution_complete_' # execution_complete_
  BY <1>t, <1>1, <1>3, <1>4, <1>5, <1>7, AbstractLemma
<1> QED
  BY <1>6, <1>7

\* The steps of the client.
LEMMA ClientImplements ==
  ASSUME OneClient, IInv, ThreadInv, ManagerInv, ThreadInv', ManagerInv',
         NEW c \in Clients,
         ClearFirst(c) \/ push(c) \/ CallExecute(c) \/ execute(c) \/ SpuriousWakeup(c)
  PROVE  Manager!Execute \/ UNCHANGED Manager!managerVars
<1>t. /\ pc \in [Callers -> CallerSteps]
      /\ xpc \in [Execs -> ExecSteps]
  BY DEF IInv, TypeOK
<1>c. Clients \subseteq Callers
  BY DEF Callers
<1>i. ASSUME pc[c] \in {"idle", "start", "spawn"}
      PROVE  /\ \A e \in Execs : xpc[e] \in {"unborn", "exited"}
             /\ Part = 0 /\ ~Begun /\ Finished = {}
  <2>1. \A e \in Execs : xpc[e] \in {"unborn", "exited"}
    BY <1>i DEF ManagerInv, JoinedInv, Joined, ThreadInv, LiveInv, Execs, NoThread
  <2> QED
    BY <2>1, UnseenLemma
<1>1. CASE ClearFirst(c)
  <2>1. /\ \A e \in Execs : xpc[e] \in {"unborn", "exited"}
        /\ Part = 0 /\ ~Begun /\ Finished = {}
    BY <1>1, <1>i DEF ClearFirst, Goto
  <2>2. /\ UNCHANGED <<xpc, execution_complete_, current_context_>>
        /\ \A d \in Clients : pc'[d] = "spawn" <=> pc[d] = "spawn"
    BY <1>t, <1>c, <1>1 DEF ClearFirst, Goto, threadVars, statusVars, partVars
  <2>3. /\ Executing' <=> Executing
        /\ Part' = 0 /\ ~Begun' /\ Finished' = {}
    BY <2>1, <2>2, UnseenLemma, UnseenNextLemma
  <2> QED
    BY <2>1, <2>2, <2>3, AbstractLemma DEF SameForManager
<1>2. CASE MarkStarted(c)
  <2>1. /\ \A e \in Execs : xpc[e] \in {"unborn", "exited"}
        /\ Part = 0 /\ ~Begun /\ Finished = {}
        /\ pc[c] = "start"
    BY <1>2, <1>i DEF MarkStarted, Goto
  <2>2. /\ UNCHANGED <<xpc, current_context_>> /\ execution_complete_' = FALSE
        /\ pc'[c] = "spawn"
    BY <1>t, <1>c, <1>2 DEF MarkStarted, Goto, threadVars, partVars
  <2>3. ~Executing
    BY <2>1, UnseenLemma DEF OneClient
  <2>4. Executing' /\ Part' = 0 /\ ~Begun' /\ Finished' = {}
    BY <2>1, <2>2, UnseenNextLemma
  <2> QED
    BY <2>1, <2>2, <2>3, <2>4, AbstractLemma
<1>3. CASE SpawnThread(c)
  <2>1. /\ Part = 0 /\ ~Begun /\ Finished = {}
        /\ pc[c] = "spawn"
    BY <1>3, <1>i DEF SpawnThread, Goto
  <2>2. Executing
    BY <2>1 DEF Executing
  <2>3. PICK e \in Execs : XGoto(e, "unborn", "begin")
    BY <1>3 DEF SpawnThread
  <2>4. xpc'[e] = "begin"
    BY <1>t, <2>3 DEF XGoto
  <2>5. x'[e].i = 0 /\ reported' = {}
    BY <2>4 DEF ManagerInv, ReportedInv
  <2>6. Executing' /\ Part' = 0 /\ ~Begun' /\ Finished' = {}
    BY <2>4, <2>5, SeenNextLemma DEF ThreadInv
  <2>7. UNCHANGED <<execution_complete_, current_context_>>
    BY <1>3 DEF SpawnThread, statusVars, partVars
  <2> QED
    BY <2>1, <2>2, <2>6, <2>7, AbstractLemma DEF SameForManager
<1>4. CASE \/ push(c) \/ CallExecute(c) \/ Validate(c) \/ WaitTest(c)
           \/ Return(c) \/ SpuriousWakeup(c)
  <2>1. UNCHANGED <<xpc, x, reported, current_context_, execution_complete_>>
    BY <1>4
       DEF push, CallExecute, Validate, WaitTest, Return, SpuriousWakeup, shared,
           statusVars, partVars, threadVars, historyVars
  <2>2. \A d \in Clients : pc'[d] = "spawn" <=> pc[d] = "spawn"
    BY <1>t, <1>c, <1>4
       DEF push, CallExecute, Validate, WaitTest, Return, SpuriousWakeup, Goto
  <2>3. /\ Executing' <=> Executing
        /\ Begun' <=> Begun
        /\ UNCHANGED <<Part, Finished>>
    BY <2>1, <2>2, SameSeenLemma DEF Executing
  <2> QED
    BY <2>1, <2>3, AbstractLemma DEF SameForManager
<1> QED
  BY <1>1, <1>2, <1>3, <1>4 DEF execute

\* The others are not seen.
LEMMA OthersImplement ==
  ASSUME IInv,
         \/ \E s \in Stoppers : CallStop(s)
         \/ \E c \in Controllers : GoalEnds(c) \/ DoneCallback(c)
         \/ UNCHANGED vars
  PROVE  UNCHANGED Manager!managerVars
<1>t. pc \in [Callers -> CallerSteps]
  BY DEF IInv, TypeOK
<1>1. UNCHANGED <<xpc, x, reported, current_context_, execution_complete_>>
  BY DEF CallStop, GoalEnds, DoneCallback, vars, shared, statusVars, partVars, threadVars,
         historyVars
<1>2. \A c \in Clients : pc'[c] = "spawn" <=> pc[c] = "spawn"
  BY <1>t DEF CallStop, Goto, GoalEnds, DoneCallback, vars, callerVars, Callers
<1>3. /\ Executing' <=> Executing
      /\ Begun' <=> Begun
      /\ UNCHANGED <<Part, Finished>>
  BY <1>1, <1>2, SameSeenLemma DEF Executing
<1> QED
  BY <1>1, <1>3, AbstractLemma DEF SameForManager

\* At first nothing is executed.
LEMMA InitImplements == Init => Manager!Init
<1> SUFFICES ASSUME Init PROVE Manager!Init
  OBVIOUS
<1>1. \A e \in Execs : xpc[e] \in {"unborn", "exited"}
  BY DEF Init
<1>2. ~Executing /\ Part = 0 /\ ~Begun /\ Finished = {}
  BY <1>1, UnseenLemma DEF Init, Callers
<1> QED
  BY <1>2 DEF Init, Manager!Init, Executing, Begun, Finished

\* For one client the manager does what ExecutionManager says: every step of its
\* threads is a step of the abstract manager, or is not seen by those it calls back.
THEOREM Implementation ==
  ASSUME OneClient
  PROVE  Spec => ImplementsExecutionManager
<1>1. IInv /\ ThreadInv /\ ManagerInv /\ [Next]_vars => ManagerInv'
  BY ManagerStep
<1>2. IInv /\ ThreadInv /\ [Next]_vars => ThreadInv'
  BY ThreadStep
<1>3. ASSUME IInv, ThreadInv, ManagerInv, ThreadInv', ManagerInv', [Next]_vars
      PROVE  [Manager!Next]_Manager!managerVars
  <2>1. ASSUME NEW e \in Execs, executeThread(e)
        PROVE  Manager!Next \/ UNCHANGED Manager!managerVars
    BY <1>3, <2>1, ThreadImplements, ExitImplements DEF Manager!Next
  <2>2. ASSUME NEW p \in Callers, stopExecution(p)
        PROVE  Manager!Next \/ UNCHANGED Manager!managerVars
    BY <1>3, <2>2, StopImplements DEF Manager!Next
  <2>3. ASSUME NEW c \in Clients,
               \/ ClearFirst(c) \/ push(c) \/ CallExecute(c) \/ execute(c)
               \/ SpuriousWakeup(c)
        PROVE  Manager!Next \/ UNCHANGED Manager!managerVars
    BY <1>3, <2>3, ClientImplements DEF Manager!Next
  <2>4. ASSUME \/ \E s \in Stoppers : CallStop(s)
               \/ \E c \in Controllers : GoalEnds(c) \/ DoneCallback(c)
               \/ UNCHANGED vars
        PROVE  UNCHANGED Manager!managerVars
    BY <1>3, <2>4, OthersImplement
  <2> QED
    BY <1>3, <2>1, <2>2, <2>3, <2>4 DEF Next
<1> QED
  BY <1>1, <1>2, <1>3, InitImplements, ThreadInit, ManagerInit, Invariance, PTL
     DEF Spec, ImplementsExecutionManager, Manager!Spec

-----------------------------------------------------------------------------
(* Success means executed, for one client, nobody who stops, and timings   *)
(* without "lag" and "tie".                                                *)

NotComplete == PartSteps \cup
  {"begin", "started", "loop", "part_done", "next", "finish", "complete"}

\* Nobody but the thread itself ends the execution, and it takes up what was pushed.
QueueInv ==
  /\ \A e \in Execs : xpc[e] \in NotComplete => ~execution_complete_
  /\ \A c \in Clients : pc[c] = "spawn" => ~execution_complete_
  /\ \A e \in Execs : xpc[e] \notin {"unborn", "exited"} => trajectories_ = pushed
  /\ \A c \in Clients : Fresh(c) => trajectories_ = pushed /\ executed = {}

\* A handle whose status is a success has accomplished its goal, if it had one.
Reached(h) == h.last_exec_ = "SUCCEEDED" => h.goal \in {"none", "SUCCEEDED"}

\* A goal was sent to every handle before its status is looked at, and the status
\* is that of this goal, but for the moment before sendTrajectory() has reset it.
AccomplishedInv ==
  /\ \A e \in Execs : \A j \in 1 .. Len(x[e].handles) :
       Sent(e, j) => handle[x[e].handles[j]].goal # "none"
  /\ \A c \in Controllers :
       \/ Reached(handle[c])
       \/ \E e \in Execs : xpc[e] = "sent" /\ x[e].handles[x[e].k] = c

\* As long as the result of a part is good its handles up to the one that is
\* waited for have accomplished their goals.
JudgedInv == \A e \in Execs :
  /\ xpc[e] \in Published => x[e].handles = x[e].context
  /\ xpc[e] \in {"await", "blocked", "ended", "judge"} /\ x[e].result =>
       \A j \in 1 .. Len(x[e].handles) :
         j < x[e].k => handle[x[e].handles[j]].goal = "SUCCEEDED"
  /\ xpc[e] = "cleanup" /\ x[e].result =>
       \A j \in 1 .. Len(x[e].handles) : handle[x[e].handles[j]].goal = "SUCCEEDED"

Done == last_execution_status_ = "SUCCEEDED" => executed = 1 .. Len(pushed)

\* What was executed follows the index of the part.
ProgressInv == \A e \in Execs :
  /\ xpc[e] \in {"begin", "started"} => executed = {}
  /\ xpc[e] = "loop" => executed = 1 .. x[e].i
  /\ xpc[e] \in PartSteps => executed = 1 .. (x[e].i - 1)
  /\ xpc[e] \in {"part_done", "next"} /\ x[e].result => executed = 1 .. x[e].i
  /\ xpc[e] \in PartSteps \cup {"loop", "part_done", "next"} => x[e].i <= Len(pushed)
  /\ xpc[e] \in PartSteps \cup {"part_done", "next"} =>
       (last_execution_status_ = "SUCCEEDED" => x[e].result)
  /\ xpc[e] \in {"finish", "complete", "notify", "clear"} => Done

\* The client that waits for an execution that has ended.
Ended(c) ==
  /\ \A e \in Execs : xpc[e] \in {"unborn", "exited"}
  /\ \/ pc[c] \in {"wait", "asleep", "woken", "return"}
     \/ pc[c] \in {"stop", "join_lock", "join"} /\ back[c] = "return"

EndedInv == \A c \in Clients : Ended(c) => Done

SuccessInv == QueueInv /\ AccomplishedInv /\ JudgedInv /\ ProgressInv /\ EndedInv

\* At first nothing is pushed.
LEMMA SuccessInit == Init => SuccessInv
  BY DEF Init, SuccessInv, QueueInv, NotComplete, Fresh, AccomplishedInv, Sent,
     Reached, NewHandle,
         Locals, JudgedInv, ProgressInv, EndedInv, Ended, Done, Published, PartSteps, Callers

\* Where nobody stops, a client that stops only joins.
LEMMA NoStopLemma ==
  ASSUME Stoppers = {}, ThreadInv, NEW p \in Callers, stopExecution(p)
  PROVE  /\ p \in Clients
         /\ StopTest(p) \/ JoinLock(p) \/ JoinThread(p)
         /\ UNCHANGED <<trajectories_, statusVars, partVars, handle, xpc, x, historyVars,
                        back>>
  BY DEF Callers, ThreadInv, ClientInv, stopExecution, StopTest, StopMark, StopCancel,
         JoinLock, JoinThread, StopClear, Goto, shared, threadVars

\* A client that has joined finds no thread.
LEMMA JoinedLemma ==
  ASSUME ThreadInv, JoinedInv, NEW c \in Clients, Joined(c)
  PROVE  \A e \in Execs : xpc[e] \in {"unborn", "exited"}
  BY DEF ThreadInv, LiveInv, JoinedInv, Execs, NoThread

\* The trajectories are those that were pushed, until the thread clears them.
LEMMA QueueStep ==
  ASSUME OneClient, Stoppers = {}, IInv, ThreadInv, ManagerInv, QueueInv, [Next]_vars
  PROVE  QueueInv'
<1>t. /\ pc \in [Callers -> CallerSteps]
      /\ xpc \in [Execs -> ExecSteps]
      /\ back \in [Clients -> {"validate", "return"}]
      /\ trajectories_ \in Seq(Trajectories) /\ pushed \in Seq(Trajectories)
  BY DEF IInv, TypeOK
<1>c. Clients \subseteq Callers
  BY DEF Callers
<1>j. JoinedInv
  BY DEF ManagerInv
<1>k. ASSUME UNCHANGED <<xpc, execution_complete_, trajectories_, pushed, executed>>,
             \A c \in Clients : /\ pc'[c] = "spawn" => pc[c] = "spawn"
                                /\ Fresh(c)' => Fresh(c)
      PROVE  QueueInv'
  BY <1>k DEF QueueInv
<1>1. ASSUME NEW p \in Callers, stopExecution(p)
      PROVE  QueueInv'
  <2>1. /\ p \in Clients
        /\ StopTest(p) \/ JoinLock(p) \/ JoinThread(p)
        /\ UNCHANGED <<xpc, execution_complete_, trajectories_, pushed, executed, back>>
    BY <1>1, NoStopLemma DEF statusVars, historyVars
  <2> QED
    BY <1>t, <1>c, <1>k, <2>1
       DEF StopTest, JoinLock, JoinThread, StopReturns, Goto, Fresh, ThreadInv, ClientInv
<1>2. ASSUME NEW c \in Clients,
             ClearFirst(c) \/ push(c) \/ CallExecute(c) \/ execute(c) \/ SpuriousWakeup(c)
      PROVE  QueueInv'
  <2>a. ASSUME pc[c] \in {"idle", "push", "validate", "start", "spawn"}
        PROVE  \A e \in Execs : xpc[e] \in {"unborn", "exited"}
    BY <1>j, <2>a, JoinedLemma DEF Joined
  <2> USE DEF Goto, QueueInv, Fresh, OneClient, statusVars, threadVars, historyVars, shared,
              callerVars
  <2>1. CASE ClearFirst(c)
    BY <1>t, <1>c, <2>a, <2>1
       DEF ClearFirst, clear, ThreadInv, ClientInv, NotComplete, PartSteps,
           Published
  <2>2. CASE push(c)
    BY <1>t, <1>c, <2>a, <2>2 DEF push, NotComplete, PartSteps, Published
  <2>3. CASE CallExecute(c)
    BY <1>t, <1>c, <2>3 DEF CallExecute
  <2>4. CASE Validate(c)
    BY <1>t, <1>c, <2>a, <2>4 DEF Validate, NotComplete, PartSteps, Published
  <2>5. CASE MarkStarted(c)
    BY <1>t, <1>c, <2>a, <2>5 DEF MarkStarted, NotComplete, PartSteps, Published
  <2>6. CASE SpawnThread(c)
    <3>1. /\ \A e \in Execs : xpc[e] \in {"unborn", "exited"}
          /\ pc[c] = "spawn" /\ pc' = [pc EXCEPT ![c] = "wait"]
          /\ UNCHANGED <<execution_complete_, trajectories_, pushed, executed, back>>
      BY <2>a, <2>6 DEF SpawnThread
    <3>2. ~execution_complete_ /\ trajectories_ = pushed
      BY <3>1
    <3> QED
      BY <1>t, <1>c, <3>1, <3>2
  <2>7. CASE WaitTest(c)
    BY <1>t, <1>c, <2>7 DEF WaitTest
  <2>8. CASE Return(c) \/ SpuriousWakeup(c)
    BY <1>t, <1>c, <2>8 DEF Return, SpuriousWakeup
  <2> QED
    BY <1>2, <2>1, <2>2, <2>3, <2>4, <2>5, <2>6, <2>7, <2>8 DEF execute
<1>4. ASSUME NEW e \in Execs, executeThread(e)
      PROVE  QueueInv'
  <2>1. /\ xpc[e] \notin {"unborn", "exited"}
        /\ \A d \in Execs : d # e => xpc[d] \in {"unborn", "exited"} /\ xpc'[d] = xpc[d]
    BY <1>4, ThreadAliveLemma DEF ThreadInv
  <2>2. \A c \in Clients : ~ Joined(c)
    BY <1>j, <2>1, JoinedLemma
  <2>3. /\ UNCHANGED <<pushed, back>>
        /\ UNCHANGED pc \/ pc' = [p \in Callers |-> IF pc[p] = "asleep" THEN "woken" ELSE pc[p]]
        /\ trajectories_' = trajectories_ \/ xpc'[e] = "exited"
    BY <1>t, <1>4
       DEF executeThread, executePart, CheckStopped, AssumeSuccess, NextPart, Inactive,
           CheckStoppedBeforePart, PublishHandles, SendPart, PartSent, AllSent,
           FillTimeIndex, AwaitPart, ResultSeen, WaitTimesOut, CancelLate, ReportLate,
           CheckStoppedAfterWait, JudgeHandle, ReportFailed, CleanUpPart, ReportPart,
           ContinueOrBreak, WaitForRobotToStop, MarkComplete, NotifyWaiters, ClearAndExit,
           shared, callerVars, historyVars, XGoto
  <2>4. xpc'[e] \in NotComplete => ~execution_complete_'
    <3>1. CASE MarkComplete(e) \/ NotifyWaiters(e) \/ ClearAndExit(e)
      BY <1>t, <3>1
         DEF MarkComplete, NotifyWaiters, ClearAndExit, XGoto, NotComplete, PartSteps,
             Published
    <3>2. CASE ~ (MarkComplete(e) \/ NotifyWaiters(e) \/ ClearAndExit(e))
      <4>1. xpc[e] \in NotComplete /\ UNCHANGED execution_complete_
        BY <1>4, <3>2
           DEF executeThread, executePart, CheckStopped, AssumeSuccess, NextPart, Inactive,
               CheckStoppedBeforePart, PublishHandles, SendPart, PartSent, AllSent,
               FillTimeIndex, AwaitPart, ResultSeen, WaitTimesOut, CancelLate, ReportLate,
               CheckStoppedAfterWait, JudgeHandle, ReportFailed, CleanUpPart, ReportPart,
               ContinueOrBreak, WaitForRobotToStop, shared, statusVars, XGoto, NotComplete,
               PartSteps, Published
      <4> QED
        BY <4>1 DEF QueueInv
    <3> QED
      BY <3>1, <3>2
  <2>5. \A c \in Clients : pc'[c] # "spawn" /\ ~ Fresh(c)'
    BY <1>c, <2>2, <2>3 DEF Joined, Fresh
  <2> QED
    BY <2>1, <2>3, <2>4, <2>5 DEF QueueInv, NotComplete, PartSteps, Published
<1>5. ASSUME NEW c \in Controllers, GoalEnds(c) \/ DoneCallback(c)
      PROVE  QueueInv'
  BY <1>k, <1>5
     DEF GoalEnds, DoneCallback, statusVars, callerVars, threadVars, historyVars, Fresh
<1>6. CASE UNCHANGED vars
  BY <1>k, <1>6 DEF vars, shared, statusVars, callerVars, threadVars, historyVars, Fresh
<1> QED
  BY <1>1, <1>2, <1>4, <1>5, <1>6 DEF Next

\* A handle that was used stays used, and an accomplished goal stays accomplished
\* until the next one is sent.
LEMMA GoalsLemma ==
  ASSUME IInv, [Next]_vars, NEW c \in Controllers
  PROVE  /\ handle'[c].goal = "none" => handle[c].goal = "none"
         /\ handle[c].goal = "SUCCEEDED" =>
              \/ handle'[c].goal = "SUCCEEDED"
              \/ \E e \in Execs : xpc[e] = "send" /\ xpc'[e] = "sent"
<1>t. /\ handle \in [Controllers -> Handles]
      /\ xpc \in [Execs -> ExecSteps]
  BY DEF IInv, TypeOK
<1>c. /\ CancelExecution(handle[c]).goal = "none" => handle[c].goal = "none"
      /\ handle[c].goal = "SUCCEEDED" => CancelExecution(handle[c]).goal = "SUCCEEDED"
  BY <1>t DEF CancelExecution, Handles
<1>s. stopExecutionInternal[c] \in {handle[c], CancelExecution(handle[c])}
  BY DEF stopExecutionInternal
<1>1. ASSUME NEW p \in Callers, stopExecution(p)
      PROVE  handle'[c] \in {handle[c], CancelExecution(handle[c])}
  BY <1>1, <1>s
     DEF stopExecution, StopTest, StopMark, StopCancel, JoinLock, JoinThread, StopClear,
         shared
<1>2. ASSUME \/ \E d \in Clients : ClearFirst(d) \/ push(d) \/ CallExecute(d)
                                    \/ execute(d) \/ SpuriousWakeup(d)
             \/ \E s \in Stoppers : CallStop(s)
             \/ UNCHANGED vars
      PROVE  handle'[c] = handle[c]
  BY <1>2
     DEF ClearFirst, push, CallExecute, execute, Validate, MarkStarted, SpawnThread,
         WaitTest, Return, SpuriousWakeup, CallStop, vars, shared
<1>3. ASSUME NEW e \in Execs, executeThread(e)
      PROVE  \/ handle'[c] \in {handle[c], CancelExecution(handle[c]), MarkSent(handle[c])}
             \/ /\ xpc[e] = "send" /\ xpc'[e] = "sent"
                /\ handle'[c] \in {handle[c], SendGoal(handle[c])}
  <2>1. CASE SendPart(e)
    <3>1. CASE /\ XGoto(e, "send", "sent")
               /\ handle' = [handle EXCEPT ![x[e].handles[x[e].k]] = SendGoal(@)]
      BY <1>t, <3>1 DEF XGoto
    <3>2. CASE handle' = [d \in Controllers |->
                            IF \E j \in 1 .. (x[e].k - 1) : x[e].handles[j] = d
                            THEN CancelExecution(handle[d]) ELSE handle[d]]
      BY <3>2
    <3> QED
      BY <2>1, <3>1, <3>2 DEF SendPart
  <2>2. CASE PartSent(e)
    BY <1>t, <2>2 DEF PartSent
  <2>3. CASE CancelLate(e)
    BY <1>s, <2>3 DEF CancelLate
  <2>4. CASE \/ CheckStopped(e) \/ AssumeSuccess(e) \/ NextPart(e) \/ Inactive(e)
             \/ CheckStoppedBeforePart(e) \/ PublishHandles(e) \/ AllSent(e)
             \/ FillTimeIndex(e) \/ AwaitPart(e) \/ ResultSeen(e) \/ WaitTimesOut(e)
             \/ ReportLate(e) \/ CheckStoppedAfterWait(e) \/ JudgeHandle(e)
             \/ ReportFailed(e) \/ CleanUpPart(e) \/ ReportPart(e)
             \/ ContinueOrBreak(e) \/ WaitForRobotToStop(e) \/ MarkComplete(e)
             \/ NotifyWaiters(e) \/ ClearAndExit(e)
    BY <2>4
       DEF CheckStopped, AssumeSuccess, NextPart, Inactive, CheckStoppedBeforePart,
           PublishHandles, AllSent, FillTimeIndex, AwaitPart, ResultSeen, WaitTimesOut,
           ReportLate, CheckStoppedAfterWait, JudgeHandle, ReportFailed, CleanUpPart,
           ReportPart, ContinueOrBreak, WaitForRobotToStop, MarkComplete, NotifyWaiters,
           ClearAndExit, shared
  <2> QED
    BY <1>3, <2>1, <2>2, <2>3, <2>4 DEF executeThread, executePart
<1>4. ASSUME NEW d \in Controllers, GoalEnds(d) \/ DoneCallback(d)
      PROVE  /\ handle'[c].goal = "none" => handle[c].goal = "none"
             /\ handle[c].goal = "SUCCEEDED" => handle'[c].goal = "SUCCEEDED"
  <2>1. CASE GoalEnds(d)
    <3>1. PICK outcome \in Outcomes :
            handle' = [handle EXCEPT ![d] =
                         IF "lag" \in Races THEN ResultArrives(@, outcome)
                         ELSE FinishControllerExecution(ResultArrives(@, outcome))]
      BY <2>1 DEF GoalEnds
    <3>2. /\ ResultArrives(handle[d], outcome).goal = outcome
          /\ FinishControllerExecution(ResultArrives(handle[d], outcome)).goal = outcome
      BY <1>t DEF ResultArrives, FinishControllerExecution, Handles
    <3>3. handle'[d].goal = outcome /\ (d # c => handle'[c] = handle[c])
      BY <1>t, <3>1, <3>2
    <3>4. handle[d].goal \in {"active", "canceling"}
      BY <2>1 DEF GoalEnds, Running
    <3> QED
      BY <3>3, <3>4 DEF Outcomes
  <2>2. CASE DoneCallback(d)
    <3>1. FinishControllerExecution(handle[d]).goal = handle[d].goal
      BY <1>t, <2>2, CallbackLemma DEF DoneCallback
    <3>2. handle'[c].goal = handle[c].goal
      BY <1>t, <2>2, <3>1 DEF DoneCallback
    <3> QED
      BY <3>2
  <2> QED
    BY <1>4, <2>1, <2>2
<1>5. /\ MarkSent(handle[c]).goal = handle[c].goal
      /\ SendGoal(handle[c]).goal # "none"
  BY <1>t, SendLemma DEF SendGoal, Handles
<1> QED
  BY <1>c, <1>1, <1>2, <1>3, <1>4, <1>5 DEF Next

\* Canceling makes no status a success.
LEMMA CancelReachedLemma ==
  ASSUME NEW h \in Handles, Reached(h)
  PROVE  Reached(CancelExecution(h))
  BY DEF Reached, CancelExecution, Handles

\* The steps of a thread, and the ends of goals, keep what the statuses say.
LEMMA AccomplishedStep ==
  ASSUME Stoppers = {}, "lag" \notin Races, IInv, ThreadInv, CancelInv, QuietInv,
         QueueInv, AccomplishedInv, [Next]_vars
  PROVE  AccomplishedInv'
<1>t. /\ xpc \in [Execs -> ExecSteps]
      /\ x \in [Execs -> LocalsType]
      /\ handle \in [Controllers -> Handles]
  BY DEF IInv, TypeOK
<1>h. \A e \in Execs : /\ x[e].handles \in Seq(Controllers)
                       /\ x[e].k \in Nat
                       /\ x[e].k >= 1
  BY <1>t DEF LocalsType, IInv, LoopInv
<1>l. \A e \in Execs : xpc[e] = "sent" =>
        /\ x[e].k \in 1 .. Len(x[e].handles)
        /\ x[e].handles[x[e].k] \in Controllers
  BY <1>h DEF IInv, LoopInv
<1>k. ASSUME UNCHANGED <<handle, x>>,
             \A e \in Execs : \/ xpc'[e] = xpc[e]
                              \/ xpc[e] = "unborn" /\ xpc'[e] = "begin"
      PROVE  AccomplishedInv'
  BY <1>k DEF AccomplishedInv, Sent
<1>1. ASSUME NEW p \in Callers, stopExecution(p)
      PROVE  AccomplishedInv'
  BY <1>k, <1>1, NoStopLemma
<1>2. ASSUME NEW c \in Clients,
             ClearFirst(c) \/ push(c) \/ CallExecute(c) \/ execute(c) \/ SpuriousWakeup(c)
      PROVE  AccomplishedInv'
  BY <1>t, <1>k, <1>2
     DEF ClearFirst, push, CallExecute, execute, Validate, MarkStarted, SpawnThread,
         WaitTest, Return, SpuriousWakeup, XGoto, shared, threadVars
<1>3. ASSUME NEW e \in Execs, executeThread(e)
      PROVE  AccomplishedInv'
  <2>a. /\ xpc[e] \notin {"unborn", "exited"}
        /\ \A d \in Execs : d # e => xpc[d] \in {"unborn", "exited"}
        /\ \A d \in Execs : d # e => xpc'[d] \in {"unborn", "exited"}
    BY <1>3, ThreadAliveLemma DEF ThreadInv
  <2>n. \A c \in Controllers : handle'[c].goal = "none" => handle[c].goal = "none"
    BY GoalsLemma
  <2>r. xpc[e] # "sent" => \A c \in Controllers : Reached(handle[c])
    BY <2>a DEF AccomplishedInv
  <2>o. ASSUME \A j \in 1 .. Len(x'[e].handles) :
                 Sent(e, j)' => handle'[x'[e].handles[j]].goal # "none",
               \A c \in Controllers :
                 \/ Reached(handle'[c])
                 \/ xpc'[e] = "sent" /\ x'[e].handles[x'[e].k] = c
        PROVE  AccomplishedInv'
    BY <2>a, <2>o DEF AccomplishedInv, Sent
\* Steps that send nothing.
  <2>u. ASSUME x'[e].handles = x[e].handles,
               \A j \in 1 .. Len(x[e].handles) : Sent(e, j)' => Sent(e, j)
        PROVE  \A j \in 1 .. Len(x'[e].handles) :
                 Sent(e, j)' => handle'[x'[e].handles[j]].goal # "none"
    BY <1>h, <2>n, <2>u DEF AccomplishedInv
  <2>1. CASE SendPart(e) /\ xpc'[e] # "part_done"
    <3>1. /\ xpc[e] = "send" /\ x[e].k <= Len(x[e].handles)
          /\ xpc' = [xpc EXCEPT ![e] = "sent"]
          /\ handle' = [handle EXCEPT ![x[e].handles[x[e].k]] = SendGoal(@)]
          /\ UNCHANGED x
      BY <1>t, <2>1 DEF SendPart, XGoto
    <3>2. x[e].handles[x[e].k] \in Controllers /\ xpc'[e] = "sent"
      BY <1>t, <1>h, <3>1
    <3>3. \A c \in Controllers : \/ Reached(handle'[c])
                                 \/ xpc'[e] = "sent" /\ x'[e].handles[x'[e].k] = c
      BY <1>t, <2>r, <3>1, <3>2
    <3>4. handle'[x[e].handles[x[e].k]].goal = "active"
      BY <1>t, <3>1, <3>2 DEF SendGoal, Handles
    <3>5. ASSUME NEW j \in 1 .. Len(x[e].handles), Sent(e, j)'
          PROVE  handle'[x[e].handles[j]].goal # "none"
      <4>1. j = x[e].k \/ Sent(e, j)
        BY <1>h, <3>1, <3>2, <3>5 DEF Sent
      <4>2. x[e].handles[j] \in Controllers
        BY <1>h
      <4> QED
        BY <2>n, <3>4, <4>1, <4>2 DEF AccomplishedInv
    <3> QED
      BY <2>o, <3>1, <3>3, <3>5
  <2>2. CASE SendPart(e) /\ xpc'[e] = "part_done"
    <3>1. /\ xpc[e] = "send" /\ x'[e].handles = x[e].handles
          /\ \A c \in Controllers : handle'[c] \in {handle[c], CancelExecution(handle[c])}
      BY <1>t, <2>2 DEF SendPart, XGoto, LocalsType
    <3>2. \A c \in Controllers : Reached(handle'[c])
      BY <1>t, <2>r, <3>1, CancelReachedLemma
    <3> QED
      BY <2>o, <2>2, <3>2 DEF Sent
  <2>3. CASE PartSent(e)
    <3>1. /\ xpc[e] = "sent" /\ xpc'[e] = "send"
          /\ handle' = [handle EXCEPT ![x[e].handles[x[e].k]] = MarkSent(@)]
          /\ x'[e].k = x[e].k + 1 /\ x'[e].handles = x[e].handles
      BY <1>t, <2>3 DEF PartSent, XGoto, LocalsType
    <3>2. \A j \in 1 .. Len(x[e].handles) : Sent(e, j)' => Sent(e, j)
      BY <1>h, <3>1 DEF Sent
    <3>3. ASSUME NEW c \in Controllers
          PROVE  Reached(handle'[c])
      <4>1. CASE c = x[e].handles[x[e].k]
        BY <1>t, <3>1, <4>1 DEF MarkSent, Reached, Handles
      <4>2. CASE c # x[e].handles[x[e].k]
        BY <1>t, <2>a, <3>1, <4>2 DEF AccomplishedInv
      <4> QED
        BY <4>1, <4>2
    <3> QED
      BY <2>o, <2>u, <3>1, <3>2, <3>3
  <2>4. CASE CancelLate(e)
    <3>1. /\ xpc[e] = "late" /\ xpc'[e] = "timed_out"
          /\ \A c \in Controllers : handle'[c] \in {handle[c], CancelExecution(handle[c])}
      BY <1>t, <2>4 DEF CancelLate, XGoto, stopExecutionInternal
    <3>2. \A c \in Controllers : Reached(handle'[c])
      BY <1>t, <2>r, <3>1, CancelReachedLemma
    <3> QED
      BY <2>o, <3>1, <3>2 DEF Sent
  <2>5. CASE PublishHandles(e)
    <3>1. /\ xpc[e] = "lock" /\ UNCHANGED handle
          /\ \/ xpc'[e] = "part_done"
             \/ xpc'[e] = "send" /\ x'[e].k = 1
      <4>1. xpc[e] = "lock"
        BY <2>5 DEF PublishHandles, XGoto
      <4>2. ~execution_complete_ /\ x[e].k = 1
        BY <4>1 DEF QueueInv, NotComplete, PartSteps, CancelInv, FirstInv
      <4> QED
        BY <1>t, <2>5, <4>1, <4>2, PublishLemma
    <3> QED
      BY <2>o, <2>r, <3>1 DEF Sent
  <2>6. CASE AllSent(e)
    <3>1. /\ xpc[e] = "send" /\ xpc'[e] = "index" /\ x[e].k > Len(x[e].handles)
          /\ x'[e].handles = x[e].handles
          /\ UNCHANGED handle
      BY <1>t, <2>6 DEF AllSent, XGoto, LocalsType, shared
    <3>2. \A j \in 1 .. Len(x[e].handles) : Sent(e, j)' => Sent(e, j)
      BY <1>h, <3>1 DEF Sent
    <3> QED
      BY <2>o, <2>r, <2>u, <3>1, <3>2
  <2>7. CASE \/ FillTimeIndex(e) \/ AwaitPart(e) \/ ResultSeen(e) \/ WaitTimesOut(e)
             \/ CheckStoppedAfterWait(e) \/ JudgeHandle(e) \/ ReportFailed(e)
    <3>1. /\ xpc[e] \in {"index", "await", "blocked", "ended", "judge", "failed"}
          /\ x'[e].handles = x[e].handles
          /\ UNCHANGED handle
          /\ xpc'[e] # "sent"
      BY <1>t, <2>7
         DEF FillTimeIndex, AwaitPart, ResultSeen, WaitTimesOut, CheckStoppedAfterWait,
             JudgeHandle, ReportFailed, XGoto, LocalsType, shared
    <3>2. \A j \in 1 .. Len(x[e].handles) : Sent(e, j)' => Sent(e, j)
      BY <3>1 DEF Sent
    <3> QED
      BY <2>o, <2>r, <2>u, <3>1, <3>2
  <2>8. CASE \/ CheckStopped(e) \/ AssumeSuccess(e) \/ NextPart(e) \/ Inactive(e)
             \/ CheckStoppedBeforePart(e) \/ ReportLate(e) \/ CleanUpPart(e)
             \/ ReportPart(e) \/ ContinueOrBreak(e) \/ WaitForRobotToStop(e)
             \/ MarkComplete(e) \/ NotifyWaiters(e) \/ ClearAndExit(e)
    <3>1. /\ xpc[e] # "sent" /\ UNCHANGED handle
          /\ xpc'[e] \notin {"send", "sent", "index", "await", "blocked", "ended", "judge",
                             "failed"}
      BY <1>t, <2>8
         DEF CheckStopped, AssumeSuccess, NextPart, Inactive, CheckStoppedBeforePart,
             ReportLate, CleanUpPart, ReportPart, ContinueOrBreak, WaitForRobotToStop,
             MarkComplete, NotifyWaiters, ClearAndExit, XGoto, shared
    <3> QED
      BY <2>o, <2>r, <3>1 DEF Sent
  <2> QED
    BY <1>3, <2>1, <2>2, <2>3, <2>4, <2>5, <2>6, <2>7, <2>8 DEF executeThread, executePart
<1>4. ASSUME NEW c \in Controllers, GoalEnds(c)
      PROVE  AccomplishedInv'
  <2>1. /\ UNCHANGED <<x, xpc>>
        /\ \A d \in Controllers : d # c => handle'[d] = handle[d]
    BY <1>t, <1>4 DEF GoalEnds, threadVars
  <2>2. Reached(handle'[c])
    BY <1>t, <1>4 DEF GoalEnds, ResultArrives, FinishControllerExecution, Reached, Handles,
                      Outcomes
  <2>3. \A d \in Controllers : handle'[d].goal = "none" => handle[d].goal = "none"
    BY GoalsLemma
  <2> QED
    BY <1>h, <2>1, <2>2, <2>3 DEF AccomplishedInv, Sent
<1>5. ASSUME NEW c \in Controllers, DoneCallback(c)
      PROVE  AccomplishedInv'
  BY <1>5 DEF DoneCallback, CallbackPending, QuietInv
<1>6. CASE UNCHANGED vars
  BY <1>k, <1>6 DEF vars, shared, threadVars
<1> QED
  BY <1>1, <1>2, <1>3, <1>4, <1>5, <1>6 DEF Next

\* A good result means that the goals up to here were accomplished.
LEMMA JudgedStep ==
  ASSUME Stoppers = {}, IInv, ThreadInv, CancelInv, QueueInv, AccomplishedInv, JudgedInv,
         [Next]_vars
  PROVE  JudgedInv'
<1>t. /\ xpc \in [Execs -> ExecSteps]
      /\ x \in [Execs -> LocalsType]
  BY DEF IInv, TypeOK
<1>h. \A e \in Execs : /\ x[e].handles \in Seq(Controllers)
                       /\ x[e].k \in Nat
                       /\ x[e].k >= 1
                       /\ \A j \in 1 .. Len(x[e].handles) : x[e].handles[j] \in Controllers
  BY <1>t DEF LocalsType, IInv, LoopInv
<1>k. ASSUME UNCHANGED x,
             \A c \in Controllers :
               handle[c].goal = "SUCCEEDED" => handle'[c].goal = "SUCCEEDED",
             \A e \in Execs : \/ xpc'[e] = xpc[e]
                              \/ xpc[e] = "unborn" /\ xpc'[e] = "begin"
      PROVE  JudgedInv'
  BY <1>h, <1>k DEF JudgedInv, Published
<1>1. ASSUME NEW p \in Callers, stopExecution(p)
      PROVE  JudgedInv'
  BY <1>k, <1>1, NoStopLemma
<1>2. ASSUME NEW c \in Clients,
             ClearFirst(c) \/ push(c) \/ CallExecute(c) \/ execute(c) \/ SpuriousWakeup(c)
      PROVE  JudgedInv'
  BY <1>t, <1>k, <1>2
     DEF ClearFirst, push, CallExecute, execute, Validate, MarkStarted, SpawnThread,
         WaitTest, Return, SpuriousWakeup, XGoto, shared, threadVars
<1>3. ASSUME NEW e \in Execs, executeThread(e)
      PROVE  JudgedInv'
  <2>a. /\ xpc[e] \notin {"unborn", "exited"}
        /\ \A d \in Execs : d # e => xpc[d] \in {"unborn", "exited"}
        /\ \A d \in Execs : d # e => xpc'[d] \in {"unborn", "exited"}
    BY <1>3, ThreadAliveLemma DEF ThreadInv
  <2>j. /\ xpc[e] \in Published => x[e].handles = x[e].context
        /\ xpc[e] \in {"await", "blocked", "ended", "judge"} /\ x[e].result =>
             \A j \in 1 .. Len(x[e].handles) :
               j < x[e].k => handle[x[e].handles[j]].goal = "SUCCEEDED"
    BY DEF JudgedInv
  <2>c. xpc[e] \in PartSteps => ~execution_complete_
    BY DEF QueueInv, NotComplete
  <2>o. ASSUME xpc'[e] \in Published => x'[e].handles = x'[e].context,
               xpc'[e] \in {"await", "blocked", "ended", "judge"} /\ x'[e].result =>
                 \A j \in 1 .. Len(x'[e].handles) :
                   j < x'[e].k => handle'[x'[e].handles[j]].goal = "SUCCEEDED",
               xpc'[e] = "cleanup" /\ x'[e].result =>
                 \A j \in 1 .. Len(x'[e].handles) :
                   handle'[x'[e].handles[j]].goal = "SUCCEEDED"
        PROVE  JudgedInv'
    BY <2>a, <2>o DEF JudgedInv, Published
  <2>1. CASE \/ CheckStopped(e) \/ AssumeSuccess(e) \/ NextPart(e) \/ Inactive(e)
             \/ CheckStoppedBeforePart(e) \/ CleanUpPart(e) \/ ReportPart(e)
             \/ ContinueOrBreak(e) \/ WaitForRobotToStop(e) \/ MarkComplete(e)
             \/ NotifyWaiters(e) \/ ClearAndExit(e)
    <3>1. xpc'[e] \notin Published
      BY <1>t, <2>1
         DEF CheckStopped, AssumeSuccess, NextPart, Inactive, CheckStoppedBeforePart,
             CleanUpPart, ReportPart, ContinueOrBreak, WaitForRobotToStop, MarkComplete,
             NotifyWaiters, ClearAndExit, XGoto, Published
    <3> QED
      BY <2>o, <3>1 DEF Published
  <2>2. CASE PublishHandles(e)
    <3>1. xpc[e] = "lock"
      BY <2>2 DEF PublishHandles, XGoto
    <3>2. \/ xpc'[e] = "part_done"
          \/ xpc'[e] = "send" /\ x'[e].handles = x'[e].context
      BY <1>t, <2>c, <2>2, <3>1 DEF PublishHandles, XGoto, LocalsType, PartSteps
    <3> QED
      BY <2>o, <3>2 DEF Published
  <2>3. CASE SendPart(e) \/ PartSent(e) \/ AllSent(e) \/ CancelLate(e)
    <3>1. /\ xpc[e] \in Published
          /\ xpc'[e] \in {"send", "sent", "index", "timed_out", "part_done"}
          /\ x'[e].handles = x[e].handles /\ x'[e].context = x[e].context
      <4>1. CASE SendPart(e)
        BY <1>t, <4>1, SendPartLemma DEF Published
      <4>2. CASE PartSent(e) \/ AllSent(e) \/ CancelLate(e)
        BY <1>t, <4>2 DEF PartSent, AllSent, CancelLate, XGoto, LocalsType, Published
      <4> QED
        BY <2>3, <4>1, <4>2
    <3> QED
      BY <2>o, <2>j, <3>1
  <2>4. CASE FillTimeIndex(e)
    <3>1. xpc[e] = "index" /\ xpc'[e] = "await" /\ UNCHANGED x
      BY <1>t, <2>4 DEF FillTimeIndex, XGoto
    <3>2. x[e].k = 1
      BY <3>1 DEF CancelInv, FirstInv
    <3> QED
      BY <2>o, <2>j, <3>1, <3>2 DEF Published
  <2>5. CASE AwaitPart(e) \/ ResultSeen(e) \/ WaitTimesOut(e)
    <3>1. /\ xpc[e] \in {"await", "blocked"}
          /\ xpc'[e] \in {"blocked", "ended", "late", "cleanup"}
          /\ xpc'[e] = "cleanup" => x[e].k > Len(x[e].handles)
          /\ UNCHANGED <<x, handle>>
      BY <1>t, <2>5 DEF AwaitPart, ResultSeen, WaitTimesOut, XGoto, shared
    <3>2. ASSUME xpc'[e] = "cleanup", NEW j \in 1 .. Len(x[e].handles)
          PROVE  j < x[e].k
      BY <1>h, <3>1, <3>2
    <3> QED
      BY <2>o, <2>j, <3>1, <3>2 DEF Published
  <2>6. CASE CheckStoppedAfterWait(e)
    <3>1. /\ xpc[e] = "ended" /\ xpc'[e] = "judge" /\ UNCHANGED handle
          /\ x'[e].handles = x[e].handles /\ x'[e].context = x[e].context
          /\ x'[e].k = x[e].k /\ (x'[e].result => x[e].result)
      <4>1. xpc[e] = "ended"
        BY <2>6 DEF CheckStoppedAfterWait, XGoto
      <4>2. ~execution_complete_
        BY <2>c, <4>1 DEF PartSteps, Published
      <4> QED
        BY <1>t, <2>6, <4>2 DEF CheckStoppedAfterWait, XGoto, LocalsType, shared
    <3> QED
      BY <2>o, <2>j, <3>1 DEF Published
  <2>7. CASE ReportLate(e) \/ ReportFailed(e)
    <3>1. /\ xpc[e] \in Published /\ ~ x'[e].result
          /\ x'[e].handles = x[e].handles /\ x'[e].context = x[e].context
          /\ xpc'[e] \in Published
      BY <1>t, <2>7 DEF ReportLate, ReportFailed, XGoto, LocalsType, Published
    <3> QED
      BY <2>o, <2>j, <3>1
  <2>8. CASE JudgeHandle(e)
    <3>1. /\ xpc[e] = "judge" /\ UNCHANGED handle
          /\ x'[e].handles = x[e].handles /\ x'[e].context = x[e].context
          /\ x'[e].result = x[e].result
          /\ \/ /\ xpc'[e] = "await" /\ x'[e].k = x[e].k + 1
                /\ Awaited(e).last_exec_ = "SUCCEEDED"
             \/ xpc'[e] = "failed"
      BY <1>t, <2>8 DEF JudgeHandle, XGoto, LocalsType, shared
    <3>2. CASE xpc'[e] = "failed"
      BY <2>o, <2>j, <3>1, <3>2 DEF Published
    <3>3. CASE xpc'[e] = "await"
      <4>1. x[e].k \in 1 .. Len(x[e].handles)
        BY <1>h, <3>1 DEF IInv, LoopInv
      <4>2. Awaited(e).goal # "none"
        BY <3>1, <4>1 DEF AccomplishedInv, Sent, Awaited
      <4>3. Reached(Awaited(e))
        BY <1>h, <2>a, <3>1, <4>1 DEF AccomplishedInv, Awaited
      <4>4. handle[x[e].handles[x[e].k]].goal = "SUCCEEDED"
        BY <3>1, <3>3, <4>2, <4>3 DEF Reached, Awaited
      <4>5. ASSUME x[e].result, NEW j \in 1 .. Len(x[e].handles), j < x[e].k + 1
            PROVE  handle[x[e].handles[j]].goal = "SUCCEEDED"
        <5>1. j < x[e].k \/ j = x[e].k
          BY <1>h, <4>5
        <5> QED
          BY <2>j, <3>1, <4>4, <4>5, <5>1
      <4> QED
        BY <2>o, <2>j, <3>1, <3>3, <4>5 DEF Published
    <3> QED
      BY <3>1, <3>2, <3>3
  <2> QED
    BY <1>3, <2>1, <2>2, <2>3, <2>4, <2>5, <2>6, <2>7, <2>8 DEF executeThread, executePart
<1>4. ASSUME NEW c \in Controllers, GoalEnds(c) \/ DoneCallback(c)
      PROVE  JudgedInv'
  <2>1. UNCHANGED <<x, xpc>>
    BY <1>4 DEF GoalEnds, DoneCallback, threadVars
  <2>2. \A d \in Controllers :
          handle[d].goal = "SUCCEEDED" => handle'[d].goal = "SUCCEEDED"
    BY <2>1, GoalsLemma
  <2> QED
    BY <1>k, <2>1, <2>2
<1>5. CASE UNCHANGED vars
  BY <1>k, <1>5 DEF vars, shared, threadVars
<1> QED
  BY <1>1, <1>2, <1>3, <1>4, <1>5 DEF Next

\* What a thread has executed follows the parts it has come through.
LEMMA ProgressStep ==
  ASSUME Stoppers = {}, IInv, ThreadInv, ManagerInv, FailedInv, QueueInv, JudgedInv,
         ProgressInv, [Next]_vars
  PROVE  ProgressInv'
<1>t. /\ xpc \in [Execs -> ExecSteps]
      /\ x \in [Execs -> LocalsType]
      /\ trajectories_ \in Seq(Trajectories)
      /\ pushed \in Seq(Trajectories)
      /\ \A e \in Execs : x[e].i \in Nat /\ x[e].handles \in Seq(Controllers)
      /\ Len(pushed) \in Nat
  BY DEF IInv, TypeOK, LocalsType
<1>k. ASSUME UNCHANGED <<xpc, x, executed, pushed, last_execution_status_>>
      PROVE  ProgressInv'
  BY <1>k DEF ProgressInv, Done
<1>1. ASSUME NEW p \in Callers, stopExecution(p)
      PROVE  ProgressInv'
  BY <1>k, <1>1, NoStopLemma DEF statusVars, historyVars
<1>2. ASSUME NEW c \in Clients,
             ClearFirst(c) \/ push(c) \/ CallExecute(c) \/ execute(c) \/ SpuriousWakeup(c)
      PROVE  ProgressInv'
  <2>1. CASE ClearFirst(c) \/ push(c) \/ Validate(c)
    <3>1. Joined(c) /\ UNCHANGED xpc
      BY <2>1 DEF ClearFirst, push, Validate, Goto, Joined, threadVars
    <3>2. \A e \in Execs : xpc'[e] \in {"unborn", "exited"}
      BY <3>1, JoinedLemma DEF ManagerInv
    <3> QED
      BY <3>2 DEF ProgressInv, PartSteps, Published
  <2>2. CASE SpawnThread(c)
    <3>1. Joined(c) /\ Fresh(c)
      BY <2>2 DEF SpawnThread, Goto, Joined, Fresh
    <3>2. executed = {} /\ \A e \in Execs : xpc[e] \in {"unborn", "exited"}
      BY <3>1, JoinedLemma DEF QueueInv, ManagerInv
    <3>3. /\ \A e \in Execs : xpc'[e] \in {"unborn", "exited", "begin"}
          /\ UNCHANGED executed
      BY <1>t, <2>2, <3>2 DEF SpawnThread, XGoto, historyVars
    <3> QED
      BY <3>2, <3>3 DEF ProgressInv, PartSteps, Published
  <2>3. CASE CallExecute(c) \/ MarkStarted(c) \/ WaitTest(c) \/ Return(c) \/ SpuriousWakeup(c)
    BY <1>k, <2>3
       DEF CallExecute, MarkStarted, WaitTest, Return, SpuriousWakeup, shared, statusVars,
           threadVars, historyVars
  <2> QED
    BY <1>2, <2>1, <2>2, <2>3 DEF execute
<1>3. ASSUME NEW e \in Execs, executeThread(e)
      PROVE  ProgressInv'
  <2>a. /\ xpc[e] \notin {"unborn", "exited"}
        /\ \A d \in Execs : d # e => xpc'[d] \in {"unborn", "exited"}
    BY <1>3, ThreadAliveLemma DEF ThreadInv
  <2>q. /\ trajectories_ = pushed
        /\ xpc[e] \in NotComplete => ~execution_complete_
    BY <2>a DEF QueueInv
  <2>p. /\ xpc[e] \in {"begin", "started"} => executed = {} /\ x[e].i = 0
        /\ xpc[e] = "loop" => executed = 1 .. x[e].i
        /\ xpc[e] \in PartSteps => executed = 1 .. (x[e].i - 1) /\ x[e].i >= 1
        /\ xpc[e] \in {"part_done", "next"} /\ x[e].result => executed = 1 .. x[e].i
        /\ xpc[e] \in PartSteps \cup {"loop", "part_done", "next"} => x[e].i <= Len(pushed)
        /\ xpc[e] \in PartSteps \cup {"part_done", "next"} =>
             (last_execution_status_ = "SUCCEEDED" => x[e].result)
        /\ xpc[e] \in {"finish", "complete", "notify", "clear"} => Done
    BY DEF ProgressInv, ManagerInv, ReportedInv
  <2>o. ASSUME xpc'[e] \in {"begin", "started"} => executed' = {},
               xpc'[e] = "loop" => executed' = 1 .. x'[e].i,
               xpc'[e] \in PartSteps => executed' = 1 .. (x'[e].i - 1),
               xpc'[e] \in {"part_done", "next"} /\ x'[e].result => executed' = 1 .. x'[e].i,
               xpc'[e] \in PartSteps \cup {"loop", "part_done", "next"} =>
                 x'[e].i <= Len(pushed'),
               xpc'[e] \in PartSteps \cup {"part_done", "next"} =>
                 (last_execution_status_' = "SUCCEEDED" => x'[e].result),
               xpc'[e] \in {"finish", "complete", "notify", "clear"} => Done'
        PROVE  ProgressInv'
    BY <2>a, <2>o DEF ProgressInv, PartSteps, Published
  <2> USE DEF XGoto, PartSteps, Published, LocalsType, historyVars, statusVars, shared
  <2>1. CASE CheckStopped(e)
    <3>1. /\ xpc[e] = "begin" /\ xpc'[e] = "started" /\ UNCHANGED executed
      <4>1. xpc[e] = "begin"
        BY <2>1 DEF CheckStopped
      <4> QED
        BY <1>t, <2>1, <2>q, <4>1 DEF CheckStopped, NotComplete
    <3> QED
      BY <2>o, <2>p, <3>1
  <2>2. CASE AssumeSuccess(e)
    <3>1. /\ xpc[e] = "started" /\ xpc'[e] = "loop" /\ UNCHANGED <<executed, x, pushed>>
      BY <1>t, <2>2 DEF AssumeSuccess
    <3>2. executed = 1 .. x[e].i /\ x[e].i <= Len(pushed)
      <4>1. executed = {} /\ x[e].i = 0
        BY <2>p, <3>1
      <4>2. 1 .. 0 = {} /\ 0 <= Len(pushed)
        BY <1>t
      <4> QED
        BY <4>1, <4>2
    <3> QED
      BY <2>o, <3>1, <3>2
  <2>3. CASE NextPart(e)
    <3>1. xpc[e] = "loop" /\ UNCHANGED <<executed, pushed, last_execution_status_>>
      BY <2>3 DEF NextPart
    <3>2. CASE x[e].i < Len(trajectories_)
      <4>1. /\ xpc'[e] \in {"inactive", "active"}
            /\ x'[e].i = x[e].i + 1 /\ x'[e].result = TRUE
        BY <1>t, <2>3, <3>2 DEF NextPart, Locals
      <4> QED
        BY <1>t, <2>o, <2>p, <2>q, <3>1, <3>2, <4>1
    <3>3. CASE ~ (x[e].i < Len(trajectories_))
      <4>1. xpc'[e] = "finish"
        BY <1>t, <2>3, <3>3 DEF NextPart
      <4>2. x[e].i = Len(pushed)
        BY <1>t, <2>p, <2>q, <3>1, <3>3
      <4>3. Done'
        BY <2>p, <3>1, <4>2 DEF Done
      <4> QED
        BY <2>o, <4>1, <4>3
    <3> QED
      BY <3>2, <3>3
  <2>4. CASE CheckStoppedBeforePart(e)
    <3>1. xpc[e] = "active"
      BY <2>4 DEF CheckStoppedBeforePart
    <3>2. ~execution_complete_
      BY <2>q, <3>1 DEF NotComplete
    <3>3. /\ xpc'[e] = "lock" /\ x'[e].i = x[e].i /\ x'[e].result = TRUE
          /\ UNCHANGED <<executed, pushed>>
      BY <1>t, <2>4, <3>2 DEF CheckStoppedBeforePart
    <3> QED
      BY <2>o, <2>p, <3>1, <3>3
\* Steps on which a part goes on, or ends with a failure.
  <2>g. ASSUME xpc[e] \in PartSteps, xpc'[e] \in PartSteps \cup {"part_done"},
               x'[e].i = x[e].i, UNCHANGED <<executed, pushed>>,
               last_execution_status_' = "SUCCEEDED" =>
                 last_execution_status_ = "SUCCEEDED" /\ (x[e].result => x'[e].result),
               xpc'[e] = "part_done" => ~ x'[e].result
        PROVE  ProgressInv'
    BY <2>o, <2>p, <2>g
  <2>5. CASE Inactive(e) \/ ReportLate(e)
    <3>1. /\ xpc[e] \in {"inactive", "timed_out"} /\ xpc'[e] \in {"part_done", "cleanup"}
          /\ x'[e].i = x[e].i /\ ~ x'[e].result /\ UNCHANGED <<executed, pushed>>
          /\ last_execution_status_' \in {"ABORTED", "TIMED_OUT"}
      BY <1>t, <2>5 DEF Inactive, ReportLate
    <3> QED
      BY <2>g, <3>1
  <2>6. CASE PublishHandles(e)
    <3>1. /\ xpc[e] = "lock" /\ x'[e].i = x[e].i /\ UNCHANGED <<executed, pushed>>
          /\ \/ /\ xpc'[e] \in {"send", "index"} /\ UNCHANGED last_execution_status_
                /\ x'[e].result = x[e].result
             \/ /\ xpc'[e] = "part_done" /\ last_execution_status_' = "ABORTED"
                /\ ~ x'[e].result
      BY <1>t, <2>6, PublishLemma
    <3> QED
      BY <2>g, <3>1
  <2>7. CASE SendPart(e)
    <3>1. /\ xpc[e] = "send" /\ x'[e].i = x[e].i /\ UNCHANGED <<executed, pushed>>
          /\ \/ /\ xpc'[e] = "sent" /\ UNCHANGED <<last_execution_status_, x>>
             \/ /\ xpc'[e] = "part_done" /\ last_execution_status_' = "ABORTED"
                /\ ~ x'[e].result
      BY <1>t, <2>7, SendPartLemma
    <3> QED
      BY <2>g, <3>1
  <2>8. CASE \/ PartSent(e) \/ AllSent(e) \/ FillTimeIndex(e) \/ AwaitPart(e)
             \/ ResultSeen(e) \/ WaitTimesOut(e) \/ CancelLate(e) \/ JudgeHandle(e)
    <3>1. /\ xpc[e] \in Published /\ xpc'[e] \in Published
          /\ x'[e].i = x[e].i /\ x'[e].result = x[e].result
          /\ UNCHANGED <<executed, pushed, last_execution_status_>>
      BY <1>t, <2>8
         DEF PartSent, AllSent, FillTimeIndex, AwaitPart, ResultSeen, WaitTimesOut,
             CancelLate, JudgeHandle
    <3> QED
      BY <2>g, <3>1
  <2>9. CASE CheckStoppedAfterWait(e)
    <3>1. xpc[e] = "ended"
      BY <2>9 DEF CheckStoppedAfterWait
    <3>2. ~execution_complete_
      BY <2>q, <3>1 DEF NotComplete
    <3>3. /\ xpc'[e] = "judge" /\ x'[e].i = x[e].i /\ (x[e].result => x'[e].result)
          /\ UNCHANGED <<executed, pushed, last_execution_status_>>
      BY <1>t, <2>9, <3>2 DEF CheckStoppedAfterWait
    <3> QED
      BY <2>g, <3>1, <3>3
  <2>10. CASE ReportFailed(e)
    <3>1. /\ xpc[e] = "failed" /\ xpc'[e] = "await" /\ x'[e].i = x[e].i
          /\ last_execution_status_' = Awaited(e).last_exec_
          /\ UNCHANGED <<executed, pushed>>
      BY <1>t, <2>10 DEF ReportFailed
    <3>2. last_execution_status_' # "SUCCEEDED"
      BY <3>1 DEF FailedInv
    <3> QED
      BY <2>g, <3>1, <3>2
  <2>11. CASE CleanUpPart(e)
    <3>1. /\ xpc[e] = "cleanup" /\ xpc'[e] = "part_done"
          /\ UNCHANGED <<x, pushed, last_execution_status_>>
          /\ executed' = IF Accomplished(e) THEN executed \cup {x[e].i} ELSE executed
      BY <1>t, <2>11 DEF CleanUpPart
    <3>2. x[e].result => Accomplished(e)
      <4> SUFFICES ASSUME x[e].result PROVE Accomplished(e)
        OBVIOUS
      <4>1. x[e].handles = x[e].context
        BY <3>1 DEF JudgedInv
      <4>2. \A j \in 1 .. Len(x[e].handles) : handle[x[e].handles[j]].goal = "SUCCEEDED"
        BY <3>1 DEF JudgedInv
      <4> QED
        BY <4>1, <4>2 DEF Accomplished, Set
    <3>3. x[e].result => executed' = 1 .. x[e].i
      <4>1. executed = 1 .. (x[e].i - 1) /\ x[e].i \in Nat /\ x[e].i >= 1
        BY <1>t, <2>p, <3>1
      <4>2. (1 .. (x[e].i - 1)) \cup {x[e].i} = 1 .. x[e].i
        BY <4>1
      <4> QED
        BY <3>1, <3>2, <4>1, <4>2
    <3> QED
      BY <2>o, <2>p, <3>1, <3>3
  <2>12. CASE ReportPart(e)
    <3>1. /\ xpc[e] = "part_done" /\ xpc'[e] = "next"
          /\ UNCHANGED <<x, executed, pushed, last_execution_status_>>
      BY <1>t, <2>12 DEF ReportPart
    <3> QED
      BY <2>o, <2>p, <3>1
  <2>13. CASE ContinueOrBreak(e)
    <3>1. xpc[e] = "next" /\ UNCHANGED <<x, executed, pushed, last_execution_status_>>
      BY <2>13 DEF ContinueOrBreak
    <3>2. ~execution_complete_
      BY <2>q, <3>1 DEF NotComplete
    <3>3. xpc'[e] = IF x[e].result THEN "loop" ELSE "finish"
      BY <1>t, <2>13, <3>2 DEF ContinueOrBreak
    <3> QED
      BY <2>o, <2>p, <3>1, <3>3 DEF Done
  <2>14. CASE \/ WaitForRobotToStop(e) \/ MarkComplete(e) \/ NotifyWaiters(e)
              \/ ClearAndExit(e)
    <3>1. /\ xpc[e] \in {"finish", "complete", "notify", "clear"}
          /\ xpc'[e] \in {"complete", "notify", "clear", "exited"}
          /\ UNCHANGED <<executed, pushed, last_execution_status_>>
      BY <1>t, <2>14 DEF WaitForRobotToStop, MarkComplete, NotifyWaiters, ClearAndExit
    <3> QED
      BY <2>o, <2>p, <3>1 DEF Done
  <2> QED
    BY <1>3, <2>1, <2>2, <2>3, <2>4, <2>5, <2>6, <2>7, <2>8, <2>9, <2>10, <2>11,
       <2>12, <2>13, <2>14
       DEF executeThread, executePart
<1>4. ASSUME NEW c \in Controllers, GoalEnds(c) \/ DoneCallback(c)
      PROVE  ProgressInv'
  BY <1>k, <1>4 DEF GoalEnds, DoneCallback, statusVars, threadVars, historyVars
<1>5. CASE UNCHANGED vars
  BY <1>k, <1>5 DEF vars, shared, statusVars, threadVars, historyVars
<1> QED
  BY <1>1, <1>2, <1>3, <1>4, <1>5 DEF Next

\* What the client finds when the execution has ended.
LEMMA EndedStep ==
  ASSUME OneClient, Stoppers = {}, IInv, ThreadInv, ManagerInv, QueueInv, ProgressInv,
         EndedInv, [Next]_vars
  PROVE  EndedInv'
<1>t. /\ xpc \in [Execs -> ExecSteps]
      /\ pc \in [Callers -> CallerSteps]
      /\ back \in [Clients -> {"validate", "return"}]
      /\ trajectories_ \in Seq(Trajectories) /\ pushed \in Seq(Trajectories)
  BY DEF IInv, TypeOK
<1>c. Clients \subseteq Callers
  BY DEF Callers
<1>k. ASSUME UNCHANGED <<xpc, executed, pushed, last_execution_status_>>,
             \A c \in Clients : Ended(c)' => Ended(c)
      PROVE  EndedInv'
  BY <1>k DEF EndedInv, Done
<1>1. ASSUME NEW p \in Callers, stopExecution(p)
      PROVE  EndedInv'
  <2>1. /\ p \in Clients
        /\ StopTest(p) \/ JoinLock(p) \/ JoinThread(p)
        /\ UNCHANGED <<xpc, executed, pushed, last_execution_status_, back>>
    BY <1>1, NoStopLemma DEF statusVars, historyVars
  <2> QED
    BY <1>t, <1>c, <1>k, <2>1
       DEF StopTest, JoinLock, JoinThread, StopReturns, Goto, Ended, ThreadInv, ClientInv
<1>2. ASSUME NEW c \in Clients,
             ClearFirst(c) \/ push(c) \/ CallExecute(c) \/ execute(c) \/ SpuriousWakeup(c)
      PROVE  EndedInv'
  <2>o. ASSUME Done' \/ ~ Ended(c)'
        PROVE  EndedInv'
    BY <2>o DEF EndedInv, OneClient
  <2>1. CASE ClearFirst(c) \/ push(c) \/ MarkStarted(c) \/ Return(c)
    <3>1. pc'[c] \in {"idle", "push", "spawn"}
      BY <1>t, <1>c, <2>1 DEF ClearFirst, push, MarkStarted, Return, Goto
    <3> QED
      BY <2>o, <3>1 DEF Ended
  <2>2. CASE CallExecute(c)
    <3>1. pc[c] = "push" /\ trajectories_ # <<>>
      BY <1>t, <2>2 DEF CallExecute, Goto, QueueInv, Fresh
    <3>2. pc'[c] = "stop" /\ back'[c] = "validate"
      BY <1>t, <1>c, <2>2, <3>1 DEF CallExecute, Goto
    <3> QED
      BY <2>o, <3>2 DEF Ended
  <2>3. CASE Validate(c)
    <3>1. pc'[c] = "start" \/ last_execution_status_' = "ABORTED"
      BY <1>t, <1>c, <2>3 DEF Validate, Goto
    <3> QED
      BY <2>o, <3>1 DEF Ended, Done
  <2>4. CASE SpawnThread(c)
    <3>1. PICK e \in Execs : XGoto(e, "unborn", "begin")
      BY <2>4 DEF SpawnThread
    <3>2. xpc'[e] = "begin"
      BY <1>t, <3>1 DEF XGoto
    <3> QED
      BY <2>o, <3>2 DEF Ended
  <2>5. CASE WaitTest(c) \/ SpuriousWakeup(c)
    <3>1. /\ UNCHANGED <<xpc, executed, pushed, last_execution_status_>>
          /\ pc[c] \in {"wait", "asleep", "woken"}
      BY <2>5 DEF WaitTest, SpuriousWakeup, Goto, shared, statusVars, threadVars, historyVars
    <3>2. Ended(c)' => Ended(c)
      BY <3>1 DEF Ended
    <3> QED
      BY <2>o, <3>1, <3>2 DEF EndedInv, Done
  <2> QED
    BY <1>2, <2>1, <2>2, <2>3, <2>4, <2>5 DEF execute
<1>3. ASSUME NEW e \in Execs, executeThread(e)
      PROVE  EndedInv'
  <2>1. CASE xpc'[e] \notin {"unborn", "exited"}
    BY <2>1 DEF EndedInv, Ended
  <2>2. CASE xpc'[e] \in {"unborn", "exited"}
    <3>1. ClearAndExit(e) \/ (CheckStopped(e) /\ execution_complete_)
      BY <1>t, <1>3, <2>2
         DEF executeThread, executePart, XGoto, CheckStopped, AssumeSuccess, NextPart,
             Inactive, CheckStoppedBeforePart, PublishHandles, SendPart, PartSent, AllSent,
             FillTimeIndex, AwaitPart, ResultSeen, WaitTimesOut, CancelLate, ReportLate,
             CheckStoppedAfterWait, JudgeHandle, ReportFailed, CleanUpPart, ReportPart,
             ContinueOrBreak, WaitForRobotToStop, MarkComplete, NotifyWaiters, ClearAndExit
    <3>2. ClearAndExit(e)
      BY <3>1 DEF CheckStopped, XGoto, QueueInv, NotComplete
    <3>3. xpc[e] = "clear" /\ UNCHANGED <<executed, pushed, last_execution_status_>>
      BY <3>2 DEF ClearAndExit, XGoto, statusVars, historyVars
    <3>4. Done'
      BY <3>3 DEF ProgressInv, Done
    <3> QED
      BY <3>4 DEF EndedInv
  <2> QED
    BY <2>1, <2>2
<1>4. ASSUME NEW c \in Controllers, GoalEnds(c) \/ DoneCallback(c)
      PROVE  EndedInv'
  BY <1>k, <1>4 DEF GoalEnds, DoneCallback, statusVars, callerVars, threadVars, historyVars,
                    Ended
<1>5. CASE UNCHANGED vars
  BY <1>k, <1>5 DEF vars, shared, statusVars, callerVars, threadVars, historyVars, Ended
<1> QED
  BY <1>1, <1>2, <1>3, <1>4, <1>5 DEF Next

\* waitForExecution() returns SUCCEEDED only after the controllers accomplished every
\* trajectory that was pushed, where one client executes and nobody stops it.
THEOREM SuccessMeansExecutedAlways ==
  ASSUME OneClient, Stoppers = {}, "tie" \notin Races, "lag" \notin Races
  PROVE  Spec => []SuccessMeansExecuted
<1>1. /\ IInv /\ ThreadInv /\ CancelInv /\ ForgetInv /\ ManagerInv /\ SuccessInv
      /\ [Next]_vars
      => SuccessInv'
  <2> SUFFICES ASSUME IInv, ThreadInv, CancelInv, ForgetInv, ManagerInv, SuccessInv,
                      [Next]_vars
               PROVE  SuccessInv'
    OBVIOUS
  <2>1. QueueInv'
    BY QueueStep DEF SuccessInv
  <2>2. AccomplishedInv'
    BY AccomplishedStep DEF SuccessInv, ForgetInv
  <2>3. JudgedInv'
    BY JudgedStep DEF SuccessInv
  <2>4. ProgressInv'
    BY ProgressStep DEF SuccessInv, ForgetInv
  <2>5. EndedInv'
    BY EndedStep DEF SuccessInv
  <2> QED
    BY <2>1, <2>2, <2>3, <2>4, <2>5 DEF SuccessInv
<1>2. IInv /\ ThreadInv /\ CancelInv /\ ForgetInv /\ [Next]_vars => ForgetInv'
  BY QuietStep, CancelingCallerStep, CancelingStep DEF ForgetInv
<1>3. IInv /\ ThreadInv /\ ManagerInv /\ [Next]_vars => ManagerInv'
  BY ManagerStep
<1>4. ManagerInv /\ ThreadInv /\ SuccessInv => SuccessMeansExecuted
  <2> SUFFICES ASSUME ManagerInv, ThreadInv, SuccessInv,
                      NEW c \in Clients, pc[c] = "return",
                      last_execution_status_ = "SUCCEEDED"
               PROVE  executed = 1 .. Len(pushed)
    BY DEF SuccessMeansExecuted
  <2>1. \A e \in Execs : xpc[e] \in {"unborn", "exited"}
    BY JoinedLemma DEF ManagerInv, Joined
  <2> QED
    BY <2>1 DEF SuccessInv, EndedInv, Ended, Done
<1> QED
  BY <1>1, <1>2, <1>3, <1>4, CancelInvariance, ForgetInit, ManagerInit, SuccessInit, PTL
     DEF Spec
=============================================================================
