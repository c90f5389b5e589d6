-------------------------- MODULE ManipulationPipeline --------------------------
(***************************************************************************)
(* The pipeline that evaluates the candidate grasps or place locations of  *)
(* a pickup or place goal (manipulation_pipeline.cpp), and the planning    *)
(* that feeds it and waits for it (PickPlacePlanBase, PickPlan::plan(),    *)
(* PlacePlan::plan()).                                                     *)
(*                                                                         *)
(* Every worker is processingThread().  It holds queue_access_lock_ from   *)
(* its test of the queue to its wait; signalStop() does not take that      *)
(* mutex.  What a stage makes of a plan is any result.                     *)
(***************************************************************************)
EXTENDS Naturals, FiniteSets, Sequences, Functions

CONSTANTS
  Workers,    \* the processing threads
  Plans,      \* the candidates of the goal
  LastStage   \* number of stages

NoPlan == "none"

ASSUME ManipulationPipelineAssumption ==
  /\ IsFiniteSet(Workers) /\ Workers # {}
  /\ LastStage \in Nat \ {0}
  /\ NoPlan \notin Plans

VARIABLES
  queue_, success_, failed_,
  stop_processing_,
  empty_queue_threads_,
  workers,            \* per worker: where it is, its plan and stage, inc_queue
  done_, pushed_all_poses_,
  client,             \* where plan() is
  unpushed,           \* candidates that plan() has not pushed yet
  round,              \* 2 while the last failure is reprocessed
  error_code_,
  aborted,            \* plans whose stage threw, and that nobody keeps
  dropped,            \* plans given up between two stages because of a stop
  contradicted,       \* history: plans whose last stage failed with the code SUCCESS
  timedOut,           \* history: the wait of the first round ended by the time
  early,              \* history: the empty queue was reported before all was pushed
  missed              \* history: a stop was signalled between a test and its wait

pipeline == <<queue_, success_, failed_, aborted, dropped, contradicted>>
vars == <<pipeline, stop_processing_, empty_queue_threads_, workers, done_, pushed_all_poses_,
          client, unpushed, round, error_code_, timedOut, early, missed>>

Gone == [pc |-> "off", plan |-> NoPlan, stage |-> 0, inc_queue |-> FALSE]

Init ==
  /\ queue_ = <<>> /\ success_ = {} /\ failed_ = <<>> /\ aborted = {} /\ dropped = {}
  /\ contradicted = {}
  /\ stop_processing_ = TRUE
  /\ empty_queue_threads_ = 0
  /\ workers = [w \in Workers |-> Gone]
  /\ done_ = FALSE /\ pushed_all_poses_ = FALSE
  /\ client = "start" /\ unpushed = Plans /\ round = 1 /\ error_code_ = "UNSET"
  /\ timedOut = FALSE /\ early = FALSE /\ missed = FALSE

-----------------------------------------------------------------------------
(* processingThread()                                                      *)

\* A worker between its test and its wait holds queue_access_lock_.
Locked == \E w \in Workers : workers[w].pc = "tested"

Set(w, record) == workers' = [workers EXCEPT ![w] = record]

\* notify_all() of queue_access_cond_, with every worker as ws says.
Notified(ws) ==
  [w \in Workers |-> IF ws[w].pc = "waiting" THEN [ws[w] EXCEPT !.pc = "woken"] ELSE ws[w]]

\* A faulty variant: the workers that wait are not woken.
SignalStop_Silent(ws) ==
  /\ stop_processing_' = TRUE
  /\ workers' = ws
  /\ missed' = (missed \/ Locked)

\* signalStop()
SignalStop(ws) ==
  /\ stop_processing_' = TRUE
  /\ workers' = Notified(ws)
  /\ missed' = (missed \/ Locked)

\* emptyQueue(), called by the last worker that finds nothing to do.
EmptyQueue(threads) ==
  IF threads = Cardinality(Workers)
  THEN /\ done_' = (done_ \/ pushed_all_poses_)
       /\ early' = ~pushed_all_poses_
  ELSE UNCHANGED <<done_, early>>

\* The first plan of the queue is taken; a worker counted as idle is no more.
Take(w) ==
  /\ queue_' = Tail(queue_)
  /\ Set(w, [pc |-> "evaluate", plan |-> Head(queue_), stage |-> 1, inc_queue |-> FALSE])
  /\ empty_queue_threads_' = empty_queue_threads_ - IF workers[w].inc_queue THEN 1 ELSE 0
  /\ early' = FALSE
  /\ UNCHANGED done_

\* The head of the outer loop and the tests of the queue under the mutex.
Enter(w) ==
  /\ workers[w].pc = "top"
  /\ \/ /\ stop_processing_
        /\ Set(w, Gone)
        /\ UNCHANGED <<queue_, empty_queue_threads_, done_, early>>
     \/ ~stop_processing_ /\ ~Locked /\ queue_ # <<>> /\ Take(w)
     \/ /\ ~stop_processing_ /\ ~Locked /\ queue_ = <<>>
        /\ empty_queue_threads_' = empty_queue_threads_ + 1
        /\ EmptyQueue(empty_queue_threads_')
        /\ Set(w, [pc |-> "tested", plan |-> NoPlan, stage |-> 0, inc_queue |-> TRUE])
        /\ UNCHANGED queue_
  /\ UNCHANGED <<success_, failed_, aborted, dropped, contradicted, stop_processing_,
                 pushed_all_poses_, client, unpushed, round, error_code_, timedOut, missed>>

WaitForPlan(w) ==
  /\ workers[w].pc = "tested"
  /\ Set(w, [workers[w] EXCEPT !.pc = "waiting"])
  /\ UNCHANGED <<pipeline, stop_processing_, empty_queue_threads_, done_, pushed_all_poses_,
                 client, unpushed, round, error_code_, timedOut, early, missed>>

\* Woken, or done with a plan: the mutex is taken again and the loops are tested.
Again(w) ==
  /\ workers[w].pc \in {"woken", "next"} /\ ~Locked
  /\ \/ ~stop_processing_ /\ queue_ # <<>> /\ Take(w)
     \/ /\ stop_processing_ \/ (queue_ = <<>> /\ workers[w].pc = "next")
        /\ Set(w, [workers[w] EXCEPT !.pc = "top", !.inc_queue = FALSE])
        /\ UNCHANGED <<queue_, empty_queue_threads_, done_, early>>
     \/ /\ ~stop_processing_ /\ queue_ = <<>> /\ workers[w].pc = "woken"
        /\ Set(w, [workers[w] EXCEPT !.pc = "tested"])
        /\ UNCHANGED <<queue_, empty_queue_threads_, done_, early>>
  /\ UNCHANGED <<success_, failed_, aborted, dropped, contradicted, stop_processing_,
                 pushed_all_poses_, client, unpushed, round, error_code_, timedOut, missed>>

Idle(w) == Set(w, [workers[w] EXCEPT !.pc = "next", !.plan = NoPlan, !.stage = 0])

\* A stage ends: it throws, it fails the plan, or the plan goes on, unless the
\* processing was stopped.  The last stage, and no other, can leave the code SUCCESS,
\* also when it fails: the planning succeeded, and one of its adapters or a missing
\* trajectory made it a failure.
EndStage(w) ==
  LET plan == workers[w].plan
      stage == workers[w].stage
  IN /\ workers[w].pc = "evaluate"
     /\ \/ /\ aborted' = aborted \cup {plan}
           /\ Idle(w) /\ UNCHANGED <<success_, failed_, dropped, contradicted>>
        \/ /\ failed_' = Append(failed_, plan)
           /\ Idle(w) /\ UNCHANGED <<success_, aborted, dropped, contradicted>>
        \/ /\ stage = LastStage
           /\ failed_' = Append(failed_, plan) /\ contradicted' = contradicted \cup {plan}
           /\ Set(w, [workers[w] EXCEPT !.pc = "failed"])
           /\ UNCHANGED <<success_, aborted, dropped>>
        \/ /\ stage < LastStage /\ stop_processing_
           /\ dropped' = dropped \cup {plan}
           /\ Idle(w) /\ UNCHANGED <<success_, failed_, aborted, contradicted>>
        \/ /\ stage < LastStage /\ ~stop_processing_
           /\ Set(w, [workers[w] EXCEPT !.stage = stage + 1])
           /\ UNCHANGED <<success_, failed_, aborted, dropped, contradicted>>
        \/ /\ stage = LastStage
           /\ success_' = success_ \cup {plan} /\ contradicted' = contradicted \ {plan}
           /\ Set(w, [workers[w] EXCEPT !.pc = "solved", !.plan = NoPlan, !.stage = 0])
           /\ UNCHANGED <<failed_, aborted, dropped>>
     /\ UNCHANGED <<queue_, stop_processing_, empty_queue_threads_, done_, pushed_all_poses_,
                    client, unpushed, round, error_code_, timedOut, early, missed>>

\* The code alone decides whether the plan is a solution: one that has just been
\* recorded as failed becomes a success too.
SucceedFailed(w) ==
  /\ workers[w].pc = "failed"
  /\ success_' = success_ \cup {workers[w].plan}
  /\ Set(w, [workers[w] EXCEPT !.pc = "solved", !.plan = NoPlan, !.stage = 0])
  /\ UNCHANGED <<queue_, failed_, aborted, dropped, contradicted, stop_processing_,
                 empty_queue_threads_, done_, pushed_all_poses_, client, unpushed, round,
                 error_code_, timedOut, early, missed>>

\* A solution stops the others ...
SignalSolved(w) ==
  /\ workers[w].pc = "solved"
  /\ SignalStop([workers EXCEPT ![w].pc = "found"])
  /\ UNCHANGED <<pipeline, empty_queue_threads_, done_, pushed_all_poses_, client, unpushed,
                 round, error_code_, timedOut, early>>

\* A faulty variant: the planning is not told.
FoundSolution_Silent(w) ==
  /\ workers[w].pc = "found"
  /\ Set(w, [workers[w] EXCEPT !.pc = "next"])
  /\ UNCHANGED <<pipeline, done_, stop_processing_, empty_queue_threads_, pushed_all_poses_,
                 client, unpushed, round, error_code_, timedOut, early, missed>>

\* ... and foundSolution() is called.
FoundSolution(w) ==
  /\ workers[w].pc = "found"
  /\ done_' = TRUE
  /\ Set(w, [workers[w] EXCEPT !.pc = "next"])
  /\ UNCHANGED <<pipeline, stop_processing_, empty_queue_threads_, pushed_all_poses_, client,
                 unpushed, round, error_code_, timedOut, early, missed>>

Worker(w) ==
  \/ Enter(w) \/ WaitForPlan(w) \/ Again(w)
  \/ EndStage(w) \/ SucceedFailed(w) \/ SignalSolved(w) \/ FoundSolution(w)

-----------------------------------------------------------------------------
(* PickPlan::plan() and PlacePlan::plan()                                  *)

\* initialize() and ManipulationPipeline::start()
StartPipeline ==
  /\ client \in {"start", "retry"}
  /\ done_' = FALSE /\ pushed_all_poses_' = FALSE
  /\ stop_processing_' = FALSE
  /\ empty_queue_threads_' = 0
  /\ workers' = [w \in Workers |-> [Gone EXCEPT !.pc = "top"]]
  /\ client' = IF client = "start" THEN "push" ELSE "reprocess"
  /\ early' = FALSE
  /\ UNCHANGED <<pipeline, unpushed, round, error_code_, timedOut, missed>>

Enqueue(plan) ==
  /\ queue_' = Append(queue_, plan)
  /\ workers' = Notified(workers)

\* The candidates are pushed, the best one first.
Push ==
  /\ client = "push" /\ ~Locked
  /\ \E plan \in unpushed :
       /\ Enqueue(plan)
       /\ unpushed' = unpushed \ {plan}
  /\ UNCHANGED <<success_, failed_, aborted, dropped, contradicted, stop_processing_,
                 empty_queue_threads_, done_, pushed_all_poses_, client, round, error_code_,
                 timedOut, early, missed>>

\* A faulty variant: the plan stays in the list of failures.
Reprocess_Keeps ==
  /\ client = "reprocess" /\ ~Locked
  /\ client' = "pushed"
  /\ IF failed_ = <<>> THEN UNCHANGED <<queue_, workers>> ELSE Enqueue(failed_[Len(failed_)])
  /\ UNCHANGED <<success_, failed_, aborted, dropped, contradicted, stop_processing_,
                 empty_queue_threads_, done_, pushed_all_poses_, unpushed, round, error_code_,
                 timedOut, early, missed>>

\* reprocessLastFailure()
Reprocess ==
  /\ client = "reprocess" /\ ~Locked
  /\ client' = "pushed"
  /\ IF failed_ = <<>> THEN UNCHANGED <<queue_, failed_, workers>>
     ELSE /\ Enqueue(failed_[Len(failed_)])
          /\ failed_' = SubSeq(failed_, 1, Len(failed_) - 1)
  /\ UNCHANGED <<success_, aborted, dropped, contradicted, stop_processing_, empty_queue_threads_,
                 done_, pushed_all_poses_, unpushed, round, error_code_, timedOut, early, missed>>

\* A faulty variant: plan() says that everything was pushed before it is.
EnterWait_AtOnce ==
  /\ client \in {"push", "pushed"}
  /\ pushed_all_poses_' = TRUE
  /\ client' = IF unpushed = {} THEN "waiting" ELSE client
  /\ UNCHANGED <<pipeline, stop_processing_, empty_queue_threads_, workers, done_, unpushed,
                 round, error_code_, timedOut, early, missed>>

\* waitForPipeline()
EnterWait ==
  /\ (client = "push" /\ unpushed = {}) \/ client = "pushed"
  /\ pushed_all_poses_' = TRUE
  /\ client' = "waiting"
  /\ UNCHANGED <<pipeline, stop_processing_, empty_queue_threads_, workers, done_, unpushed,
                 round, error_code_, timedOut, early, missed>>

EndWait ==
  /\ client = "waiting" /\ done_
  /\ client' = "stop"
  /\ UNCHANGED <<pipeline, stop_processing_, empty_queue_threads_, workers, done_,
                 pushed_all_poses_, unpushed, round, error_code_, timedOut, early, missed>>

TimeOut ==
  /\ client = "waiting" /\ ~done_
  /\ client' = "stop"
  /\ timedOut' = (timedOut \/ round = 1)
  /\ UNCHANGED <<pipeline, stop_processing_, empty_queue_threads_, workers, done_,
                 pushed_all_poses_, unpushed, round, error_code_, early, missed>>

\* ManipulationPipeline::stop()
Stop ==
  /\ client = "stop"
  /\ client' = "join"
  /\ SignalStop(workers)
  /\ UNCHANGED <<pipeline, empty_queue_threads_, done_, pushed_all_poses_, unpushed, round,
                 error_code_, timedOut, early>>

\* The workers are joined and the result is judged; the time that passed decides
\* between two errors, and only one of them retries.
Judge ==
  /\ client = "join" /\ \A w \in Workers : workers[w].pc = "off"
  /\ missed' = FALSE
  /\ \/ round = 2 /\ client' = "done" /\ UNCHANGED <<error_code_, round>>
     \/ /\ round = 1 /\ success_ # {}
        /\ error_code_' = "SUCCESS" /\ client' = "done" /\ UNCHANGED round
     \/ /\ round = 1 /\ success_ = {}
        /\ \/ error_code_' = "TIMED_OUT" /\ client' = "done" /\ UNCHANGED round
           \/ /\ error_code_' = "PLANNING_FAILED"
              /\ IF Plans = {} THEN client' = "done" /\ UNCHANGED round
                 ELSE client' = "retry" /\ round' = 2
  /\ UNCHANGED <<pipeline, stop_processing_, empty_queue_threads_, workers, done_,
                 pushed_all_poses_, unpushed, timedOut, early>>

Client ==
  StartPipeline \/ Push \/ Reprocess \/ EnterWait \/ EndWait \/ Stop \/ Judge

Next == (\E w \in Workers : Worker(w)) \/ Client \/ TimeOut

Spec == Init /\ [][Next]_vars

\* Threads run and stages end.  No time out is assumed.
FairSpec == Spec /\ WF_vars(Client) /\ \A w \in Workers : WF_vars(Worker(w))

-----------------------------------------------------------------------------
Evaluating == {w \in Workers : workers[w].pc = "evaluate"}

\* empty_queue_threads_ counts the workers that have inc_queue set, until a stop.
TypeOK ==
  /\ queue_ \in Seq(Plans) /\ failed_ \in Seq(Plans)
  /\ success_ \subseteq Plans /\ aborted \subseteq Plans /\ dropped \subseteq Plans
  /\ unpushed \subseteq Plans /\ contradicted \subseteq Plans
  /\ workers \in [Workers -> [pc : {"off", "top", "tested", "waiting", "woken", "evaluate",
                                    "failed", "solved", "found", "next"},
                              plan : Plans \cup {NoPlan}, stage : 0 .. LastStage,
                              inc_queue : BOOLEAN]]
  /\ empty_queue_threads_ \in Nat
  /\ ~stop_processing_ =>
       empty_queue_threads_ = Cardinality({w \in Workers : workers[w].inc_queue})
  /\ \A w \in Workers : workers[w].pc \in {"evaluate", "failed"} <=> workers[w].plan \in Plans
  /\ stop_processing_ \in BOOLEAN /\ done_ \in BOOLEAN /\ pushed_all_poses_ \in BOOLEAN
  /\ timedOut \in BOOLEAN /\ early \in BOOLEAN /\ missed \in BOOLEAN
  /\ client \in {"start", "push", "waiting", "stop", "join", "retry", "reprocess", "pushed",
                 "done"}
  /\ round \in {1, 2}
  /\ error_code_ \in {"UNSET", "SUCCESS", "TIMED_OUT", "PLANNING_FAILED"}

\* The solutions that were not failures before.
Solutions == success_ \ contradicted

\* Where a candidate can be, a success that contradicts a failure left aside.
Places ==
  [unpushed |-> unpushed, queued |-> Range(queue_),
   evaluated |-> {workers[w].plan : w \in Evaluating}, succeeded |-> Solutions,
   failed |-> Range(failed_), aborted |-> aborted, dropped |-> dropped]

InOnePlace(places) ==
  \A plan \in Plans : \E p \in DOMAIN places :
    \A q \in DOMAIN places : plan \in places[q] <=> q = p

\* Every candidate is in exactly one place, and there only once: none is lost, none
\* is evaluated by two workers, and none has two verdicts but one whose last stage
\* failed with the code SUCCESS: it is in success_ on top of its place.
PlanIsInOnePlace ==
  /\ InOnePlace(Places)
  /\ IsInjective(queue_) /\ IsInjective(failed_)
  /\ \A v, w \in Evaluating : workers[v].plan = workers[w].plan => v = w

\* If plan() says that planning failed, and time did not run out, every candidate
\* was evaluated to a failure or an exception: none was left in the queue, none
\* was given up halfway.
FailureMeansAllTried ==
  client = "retry" /\ ~timedOut => Plans = Range(failed_) \cup aborted

\* plan() waits no longer than for a solution or for the end of all candidates,
\* unless the workers had run out of candidates before plan() began to wait.
WaitEnds == (client = "waiting") ~> (client # "waiting" \/ early)

\* Stopping ends, unless a worker missed the notification.
StopReturns == (client = "join") ~> (client # "join" \/ missed)
================================================================================
