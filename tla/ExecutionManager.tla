--------------------------- MODULE ExecutionManager ---------------------------
(***************************************************************************)
(* What TrajectoryExecutionManager promises the users of its callbacks     *)
(* (trajectory_execution_manager.h:68-75 and 149-186): one execution at a  *)
(* time; the parts are executed in the order of push(), each reported once *)
(* and before the next one begins; an index is current only while a part   *)
(* is executed; no part begins once the execution was stopped; the end of  *)
(* the execution is reported when nothing of it goes on.                   *)
(***************************************************************************)
EXTENDS Integers

VARIABLES
  executing,  \* there is an execution
  complete,   \* it was stopped or has come to its end
  index,      \* the part it is at, from 1; 0 before the first
  begun,      \* that part was begun, or given up without
  part,       \* the part that controllers execute, or -1
  finished    \* the parts that were reported as completed

managerVars == <<executing, complete, index, begun, part, finished>>

Init ==
  /\ executing = FALSE
  /\ complete = TRUE
  /\ index = 0
  /\ begun = FALSE
  /\ part = -1
  /\ finished = {}

Execute ==
  /\ ~executing
  /\ executing' = TRUE
  /\ complete' = FALSE
  /\ UNCHANGED <<index, begun, part, finished>>

\* The next part is taken up when the one before was completed.
NextPart ==
  /\ executing /\ part = -1
  /\ index > 0 => index \in finished
  /\ index' = index + 1
  /\ begun' = FALSE
  /\ UNCHANGED <<executing, complete, part, finished>>

BeginPart ==
  /\ executing /\ ~complete
  /\ index > 0 /\ ~begun
  /\ begun' = TRUE
  /\ part' = index
  /\ UNCHANGED <<executing, complete, index, finished>>

\* Its controllers cannot be had, or a stop came first.
SkipPart ==
  /\ executing
  /\ index > 0 /\ ~begun
  /\ begun' = TRUE
  /\ UNCHANGED <<executing, complete, index, part, finished>>

EndPart ==
  /\ part # -1
  /\ part' = -1
  /\ UNCHANGED <<executing, complete, index, begun, finished>>

ReportPart ==
  /\ executing /\ part = -1
  /\ begun /\ index \notin finished
  /\ finished' = finished \cup {index}
  /\ UNCHANGED <<executing, complete, index, begun, part>>

\* Somebody stops the execution, or it has come to its end.
Complete ==
  /\ executing /\ ~complete
  /\ complete' = TRUE
  /\ UNCHANGED <<executing, index, begun, part, finished>>

\* The end, with the execution callback.
Finish ==
  /\ executing /\ complete /\ part = -1
  /\ executing' = FALSE
  /\ index' = 0
  /\ begun' = FALSE
  /\ finished' = {}
  /\ UNCHANGED <<complete, part>>

Next ==
  \/ Execute \/ NextPart \/ BeginPart \/ SkipPart \/ EndPart
  \/ ReportPart \/ Complete \/ Finish

Spec == Init /\ [][Next]_managerVars
=============================================================================
