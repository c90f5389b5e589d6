------------------------ MODULE BackgroundProcessing ------------------------
(***************************************************************************)
(* moveit::tools::BackgroundProcessing (background_processing.cpp): one    *)
(* worker thread executes the jobs that other threads queue.               *)
(*                                                                         *)
(* The mutex action_lock_ is held across several steps by the worker only; *)
(* the critical sections of the callers (lines 99-104, 113-118, 126-127)   *)
(* are one step each, enabled while the worker does not hold the mutex.    *)
(* The job events are posted outside of it, in steps of their own.         *)
(***************************************************************************)
EXTENDS Integers, Sequences

CONSTANTS
  Jobs,       \* the jobs, each added at most once
  Clients,    \* the threads that call addJob() and clear()
  NoJob       \* no job

ASSUME JobsAssumption == NoJob \notin Jobs

VARIABLES
  run_processing_thread_,
  processing_,
  actions_,   \* actions_ and action_names_, which always change together
  wpc,        \* where the worker thread is in processingThread()
  fn,         \* the job the worker has taken and not yet returned from
  pending,    \* per client, the events it has still to post
  dpc,        \* where the destructor is
  events,     \* the events queue_change_event_ was called with
  done,       \* history: jobs whose callback returned
  removed     \* history: jobs dropped without being executed

vars == <<run_processing_thread_, processing_, actions_, wpc, fn, pending,
          dpc, events, done, removed>>

workerVars == <<wpc, fn, processing_>>

InQueue == {actions_[i] : i \in 1 .. Len(actions_)}

Taken == IF fn = NoJob THEN {} ELSE {fn}

Added == InQueue \cup Taken \cup done \cup removed

\* The steps of processingThread() at which the worker owns action_lock_.
LockedSteps == {"outer", "test", "wait", "inner"}

WorkerSteps == LockedSteps \cup
  {"start", "asleep", "woken", "run", "ran", "post", "relock", "exited"}

action_lock_free == wpc \notin LockedSteps

Init ==
  /\ run_processing_thread_ = TRUE
  /\ processing_ = FALSE
  /\ actions_ = <<>>
  /\ wpc = "start"
  /\ fn = NoJob
  /\ pending = [c \in Clients |-> {}]
  /\ dpc = "alive"
  /\ events = {}
  /\ done = {}
  /\ removed = {}

(***************************************************************************)
(* The worker thread.                                                      *)
(***************************************************************************)
WorkerGoto(from, to) == wpc = from /\ wpc' = to

\* Line 61, and the end of line 66 or 92: the mutex is free, take it.
Lock ==
  /\ \/ WorkerGoto("start", "outer")
     \/ WorkerGoto("woken", "test")
     \/ WorkerGoto("relock", "inner")
  /\ UNCHANGED <<run_processing_thread_, processing_, actions_, fn, pending,
                 dpc, events, done, removed>>

\* Line 63: leave for good, or go on to wait.
TestRun ==
  /\ WorkerGoto("outer", IF run_processing_thread_ THEN "test" ELSE "exited")
  /\ UNCHANGED <<run_processing_thread_, processing_, actions_, fn, pending,
                 dpc, events, done, removed>>

\* Line 65: the condition of the wait, evaluated under the mutex.
TestWait ==
  /\ WorkerGoto("test", IF actions_ = <<>> /\ run_processing_thread_
                        THEN "wait" ELSE "inner")
  /\ UNCHANGED <<run_processing_thread_, processing_, actions_, fn, pending,
                 dpc, events, done, removed>>

\* Line 66: release the mutex and sleep, in one step.
Wait ==
  /\ WorkerGoto("wait", "asleep")
  /\ UNCHANGED <<run_processing_thread_, processing_, actions_, fn, pending,
                 dpc, events, done, removed>>

\* boost::condition_variable::wait may return without a notification.
SpuriousWakeup ==
  /\ WorkerGoto("asleep", "woken")
  /\ UNCHANGED <<run_processing_thread_, processing_, actions_, fn, pending,
                 dpc, events, done, removed>>

\* Faulty variants of TakeJob: processing_ not set; the newest job taken.
TakeJob_NotProcessing ==
  /\ actions_ # <<>>
  /\ WorkerGoto("inner", "run")
  /\ fn' = Head(actions_)
  /\ actions_' = Tail(actions_)
  /\ UNCHANGED <<run_processing_thread_, processing_, pending, dpc, events,
                 done, removed>>

TakeJob_Newest ==
  /\ actions_ # <<>>
  /\ WorkerGoto("inner", "run")
  /\ fn' = actions_[Len(actions_)]
  /\ actions_' = SubSeq(actions_, 1, Len(actions_) - 1)
  /\ processing_' = TRUE
  /\ UNCHANGED <<run_processing_thread_, pending, dpc, events, done, removed>>

\* Lines 68-77: take the oldest job and release the mutex.
TakeJob ==
  /\ actions_ # <<>>
  /\ WorkerGoto("inner", "run")
  /\ fn' = Head(actions_)
  /\ actions_' = Tail(actions_)
  /\ processing_' = TRUE
  /\ UNCHANGED <<run_processing_thread_, pending, dpc, events, done, removed>>

\* Line 68: nothing is left, back to line 63 with the mutex held.
QueueDrained ==
  /\ actions_ = <<>>
  /\ WorkerGoto("inner", "outer")
  /\ UNCHANGED <<run_processing_thread_, processing_, actions_, fn, pending,
                 dpc, events, done, removed>>

\* Lines 78-88: the callback returns or throws; either way it is over.
JobReturns ==
  /\ WorkerGoto("run", "ran")
  /\ done' = done \cup {fn}
  /\ UNCHANGED <<run_processing_thread_, processing_, actions_, fn, pending,
                 dpc, events, removed>>

\* Line 89, without the mutex.
StopProcessing ==
  /\ WorkerGoto("ran", "post")
  /\ processing_' = FALSE
  /\ UNCHANGED <<run_processing_thread_, actions_, fn, pending, dpc, events,
                 done, removed>>

\* Lines 90-91, without the mutex.
PostComplete ==
  /\ WorkerGoto("post", "relock")
  /\ events' = events \cup {<<"COMPLETE", fn>>}
  /\ fn' = NoJob
  /\ UNCHANGED <<run_processing_thread_, processing_, actions_, pending, dpc,
                 done, removed>>

(***************************************************************************)
(* The callers, which stop calling before the object is destroyed.         *)
(***************************************************************************)
notify_all == wpc' = IF wpc = "asleep" THEN "woken" ELSE wpc

MayCall(c) == dpc = "alive" /\ action_lock_free /\ pending[c] = {}

\* Faulty variant of addJob: the worker is not notified.
addJob_Silent(c, j) ==
  /\ MayCall(c)
  /\ j \notin Added
  /\ actions_' = Append(actions_, j)
  /\ pending' = [pending EXCEPT ![c] = {<<"ADD", j>>}]
  /\ UNCHANGED <<run_processing_thread_, workerVars, dpc, events, done,
                 removed>>

\* Lines 99-104.
addJob(c, j) ==
  /\ MayCall(c)
  /\ j \notin Added
  /\ actions_' = Append(actions_, j)
  /\ notify_all
  /\ pending' = [pending EXCEPT ![c] = {<<"ADD", j>>}]
  /\ UNCHANGED <<run_processing_thread_, processing_, fn, dpc, events, done,
                 removed>>

\* A faulty variant: the names are copied instead of swapped out.
clear_Copies(c) ==
  /\ MayCall(c)
  /\ removed' = removed \cup InQueue
  /\ pending' = [pending EXCEPT ![c] = {<<"REMOVE", j>> : j \in InQueue}]
  /\ UNCHANGED <<run_processing_thread_, workerVars, actions_, dpc, events, done>>

\* Lines 111-118.
clear(c) ==
  /\ MayCall(c)
  /\ actions_' = <<>>
  /\ removed' = removed \cup InQueue
  /\ pending' = [pending EXCEPT ![c] = {<<"REMOVE", j>> : j \in InQueue}]
  /\ UNCHANGED <<run_processing_thread_, workerVars, dpc, events, done>>

\* Lines 105-106 and 119-121: the events are posted after the unlock.
PostEvent(c) ==
  /\ \E e \in pending[c] :
       /\ events' = events \cup {e}
       /\ pending' = [pending EXCEPT ![c] = @ \ {e}]
  /\ UNCHANGED <<run_processing_thread_, workerVars, actions_, dpc, done,
                 removed>>

\* Line 127, which callers evaluate under the mutex.
getJobCount == Len(actions_) + (IF processing_ THEN 1 ELSE 0)

(***************************************************************************)
(* The destructor: none of its three statements takes action_lock_.        *)
(***************************************************************************)
ClearRunFlag ==
  /\ dpc = "alive"
  /\ \A c \in Clients : pending[c] = {}
  /\ run_processing_thread_' = FALSE
  /\ dpc' = "notify"
  /\ UNCHANGED <<workerVars, actions_, pending, events, done, removed>>

NotifyWorker ==
  /\ dpc = "notify"
  /\ notify_all
  /\ dpc' = "join"
  /\ UNCHANGED <<run_processing_thread_, processing_, actions_, fn, pending,
                 events, done, removed>>

\* join() returns; the members, and with them the jobs left, are destroyed.
Join ==
  /\ dpc = "join"
  /\ wpc = "exited"
  /\ dpc' = "gone"
  /\ actions_' = <<>>
  /\ removed' = removed \cup InQueue
  /\ UNCHANGED <<run_processing_thread_, workerVars, pending, events, done>>

-----------------------------------------------------------------------------
\* What the worker does of its own accord, given that jobs return.
Worker ==
  \/ Lock \/ TestRun \/ TestWait \/ Wait \/ TakeJob \/ QueueDrained
  \/ JobReturns \/ StopProcessing \/ PostComplete

Client(c) ==
  \/ \E j \in Jobs : addJob(c, j)
  \/ clear(c)
  \/ PostEvent(c)

Destructor == ClearRunFlag \/ NotifyWorker \/ Join

Next ==
  \/ Worker
  \/ SpuriousWakeup
  \/ \E c \in Clients : Client(c)
  \/ Destructor

Spec == Init /\ [][Next]_vars

\* Threads are scheduled and jobs return; nothing promises that a caller ever
\* calls, that the object is ever destroyed or that a wakeup is spurious.
FairSpec ==
  /\ Spec
  /\ WF_vars(Worker)
  /\ \A c \in Clients : WF_vars(PostEvent(c))
  /\ WF_vars(NotifyWorker)
  /\ WF_vars(Join)

-----------------------------------------------------------------------------
(***************************************************************************)
(* Properties.                                                             *)
(***************************************************************************)
\* Types of the members, and of where each thread can be.
TypeOK ==
  /\ run_processing_thread_ \in BOOLEAN
  /\ processing_ \in BOOLEAN
  /\ actions_ \in Seq(Jobs)
  /\ wpc \in WorkerSteps
  /\ fn \in Jobs \cup {NoJob}
  /\ pending \in [Clients -> SUBSET ({"ADD", "REMOVE"} \X Jobs)]
  /\ dpc \in {"alive", "notify", "join", "gone"}
  /\ events \subseteq {"ADD", "REMOVE", "COMPLETE"} \X Jobs
  /\ done \subseteq Jobs
  /\ removed \subseteq Jobs

\* Whoever reads getJobCount() = 0 may rely on it: under the mutex, no job is
\* queued and none is being executed (background_processing.h:86), although
\* processing_ is cleared without the mutex.
ZeroMeansIdle ==
  (action_lock_free /\ getJobCount = 0) => (actions_ = <<>> /\ wpc # "run")

\* Every job has one fate.  clear() and the worker race for the queue, yet no
\* job is both executed and removed, none is queued twice, and the events
\* posted without the mutex never report both fates for one job.
OneFate ==
  /\ \A i, k \in 1 .. Len(actions_) : actions_[i] = actions_[k] => i = k
  /\ InQueue \cap (Taken \cup done \cup removed) = {}
  /\ done \cap removed = {}
  /\ \A j \in Jobs : ~ ({<<"REMOVE", j>>, <<"COMPLETE", j>>} \subseteq events)

\* A queued job is executed and reported COMPLETE, or is reported REMOVEd, or
\* is dropped by the destructor: a push is never missed by a sleeping worker.
EveryJobIsReported ==
  \A j \in Jobs :
    j \in InQueue ~> \/ events \cap {<<"COMPLETE", j>>, <<"REMOVE", j>>} # {}
                     \/ dpc = "gone"

\* The class implements the abstract queue: jobs are taken in the order they
\* were added, one at a time, and each taken job is finished.
Queue == INSTANCE JobQueue WITH
  queue <- actions_,
  current <- IF wpc = "run" THEN fn ELSE NoJob

ImplementsJobQueue == Queue!Spec
=============================================================================
