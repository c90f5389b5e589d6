------------------------------ MODULE JobQueue ------------------------------
(***************************************************************************)
(* What moveit::tools::BackgroundProcessing promises its users: "a queue   *)
(* of jobs is created and the specified jobs are executed in order, one at *)
(* a time" (background_processing.h:53-55).  There are no threads, locks   *)
(* or condition variables here, only the fate of every job.                *)
(***************************************************************************)
EXTENDS Integers, Sequences

CONSTANTS
  Jobs,       \* the jobs that may be submitted, each at most once
  NoJob       \* "no job is being executed", not one of Jobs

VARIABLES
  queue,      \* jobs that wait for their turn, oldest first
  current,    \* the job being executed, or NoJob
  done,       \* jobs that were executed to their end
  removed     \* jobs that were taken out of the queue without being executed

jobVars == <<queue, current, done, removed>>

Queued == {queue[i] : i \in 1 .. Len(queue)}

Known == Queued \cup ({current} \ {NoJob}) \cup done \cup removed

Init ==
  /\ queue = <<>>
  /\ current = NoJob
  /\ done = {}
  /\ removed = {}

Submit(j) ==
  /\ j \in Jobs \ Known
  /\ queue' = Append(queue, j)
  /\ UNCHANGED <<current, done, removed>>

Begin ==
  /\ queue # <<>>
  /\ current = NoJob
  /\ current' = Head(queue)
  /\ queue' = Tail(queue)
  /\ UNCHANGED <<done, removed>>

Finish ==
  /\ current # NoJob
  /\ done' = done \cup {current}
  /\ current' = NoJob
  /\ UNCHANGED <<queue, removed>>

RemoveAll ==
  /\ queue # <<>>
  /\ removed' = removed \cup Queued
  /\ queue' = <<>>
  /\ UNCHANGED <<current, done>>

Next ==
  \/ \E j \in Jobs : Submit(j)
  \/ Begin
  \/ Finish
  \/ RemoveAll

\* A job that has a turn is executed and finished: the queue never stalls.
Spec == Init /\ [][Next]_jobVars /\ WF_jobVars(Begin) /\ WF_jobVars(Finish)
=============================================================================
