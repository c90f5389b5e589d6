--------------------- MODULE BackgroundProcessing_proofs ---------------------
(***************************************************************************)
(* Proofs about BackgroundProcessing, for any sets of jobs and callers:    *)
(* its types, the meaning of getJobCount() = 0, the single fate of every   *)
(* job, and that each of its steps is a step of JobQueue or a stutter.     *)
(***************************************************************************)
EXTENDS BackgroundProcessing, TLAPS

-----------------------------------------------------------------------------
(* The inductive invariant.                                                *)

\* processing_ is set exactly between the pop and line 89.
ProcessingInv == processing_ <=> wpc \in {"run", "ran"}

\* The worker holds a job exactly between the pop and the COMPLETE event, and
\* that job counts as done once its callback returned.
TakenInv ==
  /\ fn # NoJob <=> wpc \in {"run", "ran", "post"}
  /\ fn # NoJob => fn \notin removed
  /\ fn # NoJob => (fn \in done <=> wpc # "run")

\* What the events, posted or still to be posted, say of a job is true.
EventsInv ==
  /\ \A j \in Jobs : <<"COMPLETE", j>> \in events => j \in done
  /\ \A j \in Jobs : <<"REMOVE", j>> \in events => j \in removed
  /\ \A c \in Clients, j \in Jobs : <<"REMOVE", j>> \in pending[c] => j \in removed

\* A job is queued once, and not after it was taken or removed.
QueueInv ==
  /\ \A i, k \in 1 .. Len(actions_) : actions_[i] = actions_[k] => i = k
  /\ \A i \in 1 .. Len(actions_) :
       actions_[i] \notin done \cup removed /\ actions_[i] # fn
  /\ done \cap removed = {}

IInv == TypeOK /\ ProcessingInv /\ TakenInv /\ EventsInv /\ QueueInv

-----------------------------------------------------------------------------
\* The types of the members and of the threads' positions are preserved.
LEMMA TypeInductive == TypeOK /\ ProcessingInv /\ TakenInv /\ [Next]_vars => TypeOK'
<1> SUFFICES ASSUME TypeOK, ProcessingInv, TakenInv, [Next]_vars
             PROVE  TypeOK'
  OBVIOUS
<1> USE JobsAssumption DEF TypeOK, WorkerSteps, LockedSteps, workerVars
<1>1. CASE Worker
  <2>1. CASE Lock
    BY <2>1 DEF Lock, WorkerGoto
  <2>2. CASE TestRun
    BY <2>2 DEF TestRun, WorkerGoto
  <2>3. CASE TestWait
    BY <2>3 DEF TestWait, WorkerGoto
  <2>4. CASE Wait
    BY <2>4 DEF Wait, WorkerGoto
  <2>5. CASE TakeJob
    BY <2>5 DEF TakeJob, WorkerGoto
  <2>6. CASE QueueDrained
    BY <2>6 DEF QueueDrained, WorkerGoto
  <2>7. CASE JobReturns
    BY <2>7 DEF JobReturns, WorkerGoto, TakenInv
  <2>8. CASE StopProcessing
    BY <2>8 DEF StopProcessing, WorkerGoto
  <2>9. CASE PostComplete
    BY <2>9 DEF PostComplete, WorkerGoto, TakenInv
  <2> QED
    BY <1>1, <2>1, <2>2, <2>3, <2>4, <2>5, <2>6, <2>7, <2>8, <2>9 DEF Worker
<1>2. CASE SpuriousWakeup
  BY <1>2 DEF SpuriousWakeup, WorkerGoto
<1>3. ASSUME NEW c \in Clients, Client(c)
      PROVE  TypeOK'
  <2>1. ASSUME NEW j \in Jobs, addJob(c, j)
        PROVE  TypeOK'
    BY <2>1 DEF addJob, notify_all
  <2>2. CASE clear(c)
    <3>1. InQueue \subseteq Jobs
      BY DEF InQueue
    <3> QED
      BY <2>2, <3>1 DEF clear
  <2>3. CASE PostEvent(c)
    BY <2>3 DEF PostEvent
  <2> QED
    BY <1>3, <2>1, <2>2, <2>3 DEF Client
<1>4. CASE Destructor
  <2>1. CASE ClearRunFlag
    BY <2>1 DEF ClearRunFlag
  <2>2. CASE NotifyWorker
    BY <2>2 DEF NotifyWorker, notify_all
  <2>3. CASE Join
    <3>1. InQueue \subseteq Jobs
      BY DEF InQueue
    <3> QED
      BY <2>3, <3>1 DEF Join
  <2> QED
    BY <1>4, <2>1, <2>2, <2>3 DEF Destructor
<1>5. CASE UNCHANGED vars
  BY <1>5 DEF vars
<1> QED
  BY <1>1, <1>2, <1>3, <1>4, <1>5 DEF Next

\* Every step keeps the invariant: only the worker and the callers matter, the
\* destructor touching nothing but the flag until the worker has left.
LEMMA Inductive == IInv /\ [Next]_vars => IInv'
<1> SUFFICES ASSUME IInv, [Next]_vars
             PROVE  IInv'
  OBVIOUS
<1>0. TypeOK'
  BY TypeInductive DEF IInv
<1> USE JobsAssumption DEF IInv, TypeOK, ProcessingInv, TakenInv, EventsInv, QueueInv,
      workerVars, InQueue
<1>1. CASE Worker
  <2>1. CASE Lock
    BY <1>0, <2>1 DEF Lock, WorkerGoto
  <2>2. CASE TestRun
    BY <1>0, <2>2 DEF TestRun, WorkerGoto
  <2>3. CASE TestWait
    BY <1>0, <2>3 DEF TestWait, WorkerGoto
  <2>4. CASE Wait
    BY <1>0, <2>4 DEF Wait, WorkerGoto
  <2>5. CASE TakeJob
    <3>1. Head(actions_) = actions_[1] /\ 1 \in 1 .. Len(actions_)
      BY <2>5 DEF TakeJob
    <3>2. \A i \in 1 .. Len(actions_') :
            actions_'[i] = actions_[i + 1] /\ i + 1 \in 1 .. Len(actions_)
      BY <2>5 DEF TakeJob
    <3>3. fn' = actions_[1] /\ fn' \in Jobs /\ wpc' = "run" /\ processing_'
      BY <2>5, <3>1 DEF TakeJob, WorkerGoto
    <3>4. QueueInv'
      BY <2>5, <3>1, <3>2, <3>3 DEF TakeJob
    <3> QED
      BY <1>0, <2>5, <3>1, <3>3, <3>4 DEF TakeJob
  <2>6. CASE QueueDrained
    BY <1>0, <2>6 DEF QueueDrained, WorkerGoto
  <2>7. CASE JobReturns
    BY <1>0, <2>7 DEF JobReturns, WorkerGoto
  <2>8. CASE StopProcessing
    BY <1>0, <2>8 DEF StopProcessing, WorkerGoto
  <2>9. CASE PostComplete
    BY <1>0, <2>9 DEF PostComplete, WorkerGoto
  <2> QED
    BY <1>1, <2>1, <2>2, <2>3, <2>4, <2>5, <2>6, <2>7, <2>8, <2>9 DEF Worker
<1>2. CASE SpuriousWakeup
  BY <1>0, <1>2 DEF SpuriousWakeup, WorkerGoto
<1>3. ASSUME NEW c \in Clients, Client(c)
      PROVE  IInv'
  <2>1. ASSUME NEW j \in Jobs, addJob(c, j)
        PROVE  IInv'
    <3>1. /\ \A i \in 1 .. Len(actions_) : actions_'[i] = actions_[i]
          /\ actions_'[Len(actions_')] = j
          /\ Len(actions_') = Len(actions_) + 1
      BY <2>1 DEF addJob
    <3>2. j \notin done \cup removed /\ j # fn
          /\ \A i \in 1 .. Len(actions_) : actions_[i] # j
      BY <2>1 DEF addJob, Added, Taken
    <3>3. QueueInv'
      BY <2>1, <3>1, <3>2 DEF addJob
    <3> QED
      BY <1>0, <2>1, <3>3 DEF addJob, notify_all
  <2>2. CASE clear(c)
    BY <1>0, <2>2 DEF clear
  <2>3. CASE PostEvent(c)
    BY <1>0, <2>3 DEF PostEvent
  <2> QED
    BY <1>3, <2>1, <2>2, <2>3 DEF Client
<1>4. CASE Destructor
  <2>1. CASE ClearRunFlag
    BY <1>0, <2>1 DEF ClearRunFlag
  <2>2. CASE NotifyWorker
    BY <1>0, <2>2 DEF NotifyWorker, notify_all
  <2>3. CASE Join
    BY <1>0, <2>3 DEF Join
  <2> QED
    BY <1>4, <2>1, <2>2, <2>3 DEF Destructor
<1>5. CASE UNCHANGED vars
  BY <1>0, <1>5 DEF vars
<1> QED
  BY <1>1, <1>2, <1>3, <1>4, <1>5 DEF Next

\* The invariant holds in every reachable state.
THEOREM Invariance == Spec => []IInv
<1>1. ASSUME Init
      PROVE  IInv
  <2>1. TypeOK
    <3>1. pending \in [Clients -> SUBSET ({"ADD", "REMOVE"} \X Jobs)]
      BY <1>1 DEF Init
    <3>2. actions_ \in Seq(Jobs)
      BY <1>1 DEF Init
    <3>3. wpc \in WorkerSteps
      BY <1>1 DEF Init, WorkerSteps
    <3> QED
      BY <1>1, <3>1, <3>2, <3>3 DEF Init, TypeOK
  <2>2. ProcessingInv /\ TakenInv
    BY <1>1 DEF Init, ProcessingInv, TakenInv
  <2>3. EventsInv /\ QueueInv
    BY <1>1 DEF Init, EventsInv, QueueInv
  <2> QED
    BY <2>1, <2>2, <2>3 DEF IInv
<1> QED
  BY <1>1, Inductive, PTL DEF Spec

-----------------------------------------------------------------------------
(* The properties the runs check.                                          *)

\* The members and the threads' positions keep their types.
THEOREM TypeCorrect == Spec => []TypeOK
<1>1. IInv => TypeOK
  BY DEF IInv
<1> QED
  BY <1>1, Invariance, PTL

\* getJobCount() = 0 means that nothing is queued or being executed.
THEOREM ZeroMeansIdleAlways == Spec => []ZeroMeansIdle
<1>1. IInv => ZeroMeansIdle
  BY DEF IInv, TypeOK, ProcessingInv, ZeroMeansIdle, getJobCount
<1> QED
  BY <1>1, Invariance, PTL

\* No job is executed and removed, queued twice, or reported with both fates.
THEOREM OneFateAlways == Spec => []OneFate
<1>1. ASSUME IInv
      PROVE  OneFate
  <2>1. InQueue \cap (Taken \cup done \cup removed) = {}
    BY <1>1 DEF IInv, QueueInv, InQueue, Taken
  <2>2. \A j \in Jobs : ~ ({<<"REMOVE", j>>, <<"COMPLETE", j>>} \subseteq events)
    BY <1>1 DEF IInv, EventsInv, QueueInv
  <2> QED
    BY <1>1, <2>1, <2>2 DEF IInv, QueueInv, OneFate
<1> QED
  BY <1>1, Invariance, PTL

-----------------------------------------------------------------------------
(* Refinement.                                                             *)

\* The value of JobQueue's variable current under the refinement.
Current == IF wpc = "run" THEN fn ELSE NoJob

\* Every step of the class is a step of the abstract queue, or leaves it alone:
\* the pop begins a job, the return of the callback finishes it, clear() and
\* the destruction of the members remove all that is queued.
THEOREM Refinement == Spec => Queue!Init /\ [][Queue!Next]_<<actions_, Current, done, removed>>
<1>1. Init => Queue!Init
  BY DEF Init, Queue!Init
<1>2. ASSUME IInv, [Next]_vars
      PROVE  [Queue!Next]_<<actions_, Current, done, removed>>
  <2> USE JobsAssumption DEF Current
  <2>1. CASE TakeJob
    <3>1. Queue!Begin
      BY <2>1 DEF TakeJob, WorkerGoto, Queue!Begin
    <3> QED
      BY <3>1 DEF Queue!Next
  <2>2. CASE JobReturns
    <3>1. Queue!Finish
      BY <1>2, <2>2 DEF JobReturns, WorkerGoto, Queue!Finish, IInv, TakenInv
    <3> QED
      BY <3>1 DEF Queue!Next
  <2>3. CASE Worker /\ ~TakeJob /\ ~JobReturns
    <3>1. UNCHANGED <<actions_, Current, done, removed>>
      BY <2>3 DEF Worker, WorkerGoto, Lock, TestRun, TestWait, Wait, QueueDrained,
         StopProcessing, PostComplete
    <3> QED
      BY <3>1
  <2>4. CASE SpuriousWakeup
    BY <2>4 DEF SpuriousWakeup, WorkerGoto
  <2>5. ASSUME NEW c \in Clients, NEW j \in Jobs, addJob(c, j)
        PROVE  Queue!Submit(j)
    BY <2>5 DEF addJob, notify_all, Added, InQueue, Taken, Queue!Submit, Queue!Known,
       Queue!Queued
  <2>6. ASSUME NEW c \in Clients, clear(c)
        PROVE  Queue!RemoveAll \/ UNCHANGED <<actions_, Current, done, removed>>
    <3>1. CASE actions_ = <<>>
      BY <2>6, <3>1 DEF clear, InQueue, workerVars
    <3>2. CASE actions_ # <<>>
      BY <2>6, <3>2 DEF clear, InQueue, workerVars, Queue!RemoveAll, Queue!Queued
    <3> QED
      BY <3>1, <3>2
  <2>7. ASSUME NEW c \in Clients, PostEvent(c)
        PROVE  UNCHANGED <<actions_, Current, done, removed>>
    BY <2>7 DEF PostEvent, workerVars
  <2>8. CASE Join
    <3>1. CASE actions_ = <<>>
      BY <2>8, <3>1 DEF Join, InQueue, workerVars
    <3>2. CASE actions_ # <<>>
      BY <2>8, <3>2 DEF Join, InQueue, workerVars, Queue!RemoveAll, Queue!Queued, Queue!Next
    <3> QED
      BY <3>1, <3>2
  <2>9. CASE ClearRunFlag \/ NotifyWorker \/ UNCHANGED vars
    BY <2>9 DEF ClearRunFlag, NotifyWorker, notify_all, vars, workerVars
  <2> QED
    BY <1>2, <2>1, <2>2, <2>3, <2>4, <2>5, <2>6, <2>7, <2>8, <2>9
       DEF Next, Client, Destructor, Queue!Next
<1> QED
  BY <1>1, <1>2, Invariance, PTL DEF Spec
=============================================================================
