--------------------------- MODULE MoveAction_proofs ---------------------------
(***************************************************************************)
(* Proofs about MoveAction, and so about PlanExecution under the MoveGroup *)
(* action: for plans of any length, any number of attempts, goals, cancels *)
(* and changes of the scene, and any failures.                             *)
(***************************************************************************)
EXTENDS MoveAction, TLAPS

-----------------------------------------------------------------------------
(* The inductive invariant.                                                *)

\* The manager: before the first part or at one of the plan's, and what controllers
\* execute is the part that it is at.
ManagerInv ==
  /\ finished \subseteq 1 .. index /\ bad \subseteq 1 .. parts
  /\ index \in finished => begun
  /\ begun => index > 0
  /\ executing => index <= parts
  /\ ~executing => index = 0 /\ ~begun /\ part = -1
  /\ part # -1 => part = index /\ index > 0 /\ begun /\ index \notin finished

\* An attempt is begun only while there are some left.
AttemptsInv ==
  /\ pc \in {"idle", "entered"} => replan_attempts = 0
  /\ pc = "attempt" => replan_attempts < MaxAttempts

\* An execution that goes on is watched, and its end is noted at its end only.
WatchInv ==
  /\ NothingRunsUnwatched
  /\ executing \/ pc = "execute" => ~execution_complete_

\* What may begin without having been looked at again.
Current == IF index = 0 \/ index \in finished THEN index + 1 ELSE index

\* From the plan to the end of the watching: the current part is free, or the news of
\* the obstacle is somewhere.
NoticeInv ==
  /\ \/ pc \in {"planned", "before_execution", "push", "execute"}
     \/ pc \in {"started", "loop", "look", "poll"} /\ executing
  /\ error_code = "SUCCESS" /\ Current \in bad /\ ~snapshot /\ Monitored
  /\ ~unannounced /\ dropped \cap {"update", "verdict"} = {}
  => new_scene_update_ \/ path_became_invalid_ \/ preempt_

\* Between a plan and the verdict about its execution, its code is that of a success.
PlannedInv ==
  pc \in {"before_execution", "push", "execute", "started", "loop", "look", "validate", "poll",
          "stop", "join", "decide"} => error_code = "SUCCESS"

\* A request that must stop the plan is pending, was obeyed, or was dropped.
RequestInv ==
  /\ pc \in {"idle", "entered"} => ~must_stop
  /\ must_stop =>
       \/ preempt_ \/ "request" \in dropped
       \/ pc \in {"stop", "join", "decide", "done"} /\ preempt_requested
       \/ pc \in {"executed", "result"} /\ error_code = "PREEMPTED"

Whole == "stop" \in foreign \/ reported = 1 .. parts

\* What an execution and its report have to do with the parts.
WholeInv ==
  /\ pc = "execute" => reported = {}
  /\ executing => reported = finished
  /\ executing /\ complete /\ status = "SUCCEEDED" => Whole
  /\ pc \in Watching \cup {"decide"} /\ execution_complete_ /\ status = "SUCCEEDED" => Whole
  /\ pc \in {"stop", "join", "decide"} =>
       execution_complete_ \/ path_became_invalid_ \/ preempt_requested
  /\ pc \in {"executed", "result"} /\ error_code = "SUCCESS" => Whole
  /\ pc = "done" /\ error_code = "SUCCESS" => preempt_requested \/ Whole

\* A side effect that failed is a request that must stop the plan.
BrokenInv ==
  /\ pc = "entered" => ~broken
  /\ pc # "idle" /\ broken => must_stop \/ (pc = "result" /\ preempt_)

\* The action works on a goal while the server has one, and plans for that goal.
ActionInv ==
  /\ pc # "idle" <=> apc = "executing"
  /\ goal = "active" <=> apc \in {"accepted", "plan_only", "execute", "executing", "report"}
  /\ callback => goal = "active" /\ canceled
  /\ preempt_requested_ => canceled

\* Requests that the plan has seen are those of this goal.
OwnRequests ==
  /\ pc \in {"idle", "entered"} => ~preempt_requested /\ error_code = "UNSET"
  /\ pc \notin {"idle", "entered"} /\ (preempt_ \/ preempt_requested \/ error_code = "PREEMPTED")
       => canceled \/ broken

OwnInv == OwnRequests /\ OwnPreemptionOnly

IInv ==
  /\ TypeOK /\ ManagerInv /\ AttemptsInv /\ WatchInv /\ NoticeInv /\ PlannedInv
  /\ RequestInv /\ WholeInv /\ BrokenInv /\ ActionInv /\ OwnInv

-----------------------------------------------------------------------------
(* The types in parts: each part needs little of the others.               *)

ManagerTypes ==
  /\ executing \in BOOLEAN /\ complete \in BOOLEAN /\ begun \in BOOLEAN
  /\ index \in Nat /\ part \in Int /\ finished \subseteq Nat
  /\ status \in {"SUCCEEDED", "PREEMPTED", "TIMED_OUT", "ABORTED"}

FlagTypes ==
  /\ preempt_ \in BOOLEAN /\ new_scene_update_ \in BOOLEAN
  /\ execution_complete_ \in BOOLEAN /\ path_became_invalid_ \in BOOLEAN
  /\ preempt_requested \in BOOLEAN /\ snapshot \in BOOLEAN /\ unannounced \in BOOLEAN
  /\ must_stop \in BOOLEAN /\ broken \in BOOLEAN

CodeTypes == pc \in HelperSteps /\ error_code \in Codes

NumberTypes ==
  /\ replan_attempts \in 0 .. MaxAttempts
  /\ parts \in 0 .. MaxParts
  /\ changes \in 0 .. MaxChanges

SetTypes ==
  /\ bad \subseteq 1 .. MaxParts
  /\ dropped \subseteq {"update", "verdict", "request"}
  /\ foreign \subseteq {"stop", "clear"}
  /\ reported \subseteq Nat

(* The type invariant of PlanExecution has these parts.                    *)
LEMMA TypeParts ==
  PlanTypeOK <=> ManagerTypes /\ FlagTypes /\ CodeTypes /\ NumberTypes /\ SetTypes
BY DEF PlanTypeOK, ManagerTypes, FlagTypes, CodeTypes, NumberTypes, SetTypes

-----------------------------------------------------------------------------
(* Steps of PlanExecution.                                                 *)

PlanNext ==
  \/ \E diff \in BOOLEAN : planAndExecute(diff)
  \/ stop \/ Return
  \/ planAndExecuteHelper \/ ExecutionThread \/ Environment

(* No step leaves an execution that nobody watches.                        *)
LEMMA WatchStep ==
  ASSUME PlanTypeOK, WatchInv, PlanNext
  PROVE  WatchInv'
<1>1. CASE \E diff \in BOOLEAN : planAndExecute(diff)
  BY <1>1 DEF planAndExecute, Goto, managerVars, flagVars, WatchInv, NothingRunsUnwatched,
              Watching, PlanTypeOK
<1>2. CASE Return
  BY <1>2 DEF Return, Goto, managerVars, flagVars, WatchInv, NothingRunsUnwatched, Watching,
              PlanTypeOK
<1>3. CASE DiscardOldRequest
  BY <1>3 DEF DiscardOldRequest, Goto, managerVars, sceneVars, WatchInv, NothingRunsUnwatched,
              Watching, PlanTypeOK
<1>4. CASE BeginAttempt
  BY <1>4 DEF BeginAttempt, Goto, managerVars, sceneVars, historyVars, WatchInv,
              NothingRunsUnwatched, Watching, PlanTypeOK
<1>5. CASE Plan
  BY <1>5 DEF Plan, Goto, managerVars, flagVars, historyVars, WatchInv, NothingRunsUnwatched,
              Watching, PlanTypeOK
<1>6. CASE JudgePlan
  BY <1>6 DEF JudgePlan, Goto, TakeRequest, Again, managerVars, sceneVars, historyVars, WatchInv,
              NothingRunsUnwatched, Watching, PlanTypeOK
<1>7. CASE BeforeExecution
  BY <1>7 DEF BeforeExecution, Goto, TakeRequest, managerVars, sceneVars, historyVars, WatchInv,
              NothingRunsUnwatched, Watching, PlanTypeOK
<1>8. CASE JudgeExecution
  BY <1>8 DEF JudgeExecution, Goto, TakeRequest, Again, managerVars, sceneVars, historyVars,
              WatchInv, NothingRunsUnwatched, Watching, PlanTypeOK
<1>9. CASE Conclude
  BY <1>9 DEF Conclude, Goto, managerVars, flagVars, sceneVars, historyVars, WatchInv,
              NothingRunsUnwatched, Watching, PlanTypeOK
<1>10. CASE Push
  BY <1>10 DEF Push, Goto, Fails, managerVars, sceneVars, WatchInv, NothingRunsUnwatched,
               Watching, PlanTypeOK
<1>11. CASE Execute
  BY <1>11 DEF Execute, Goto, Manager!Execute, managerVars, sceneVars, historyVars, WatchInv,
               NothingRunsUnwatched, Watching, PlanTypeOK
<1>12. CASE BeginMonitoring
  BY <1>12 DEF BeginMonitoring, Goto, managerVars, sceneVars, WatchInv, NothingRunsUnwatched,
               Watching, PlanTypeOK
<1>13. CASE MonitorTest
  BY <1>13 DEF MonitorTest, Goto, managerVars, flagVars, sceneVars, historyVars, WatchInv,
               NothingRunsUnwatched, Watching, PlanTypeOK
<1>14. CASE LookForUpdate
  BY <1>14 DEF LookForUpdate, Goto, managerVars, sceneVars, historyVars, WatchInv,
               NothingRunsUnwatched, Watching, PlanTypeOK
<1>15. CASE ValidatePath
  BY <1>15 DEF ValidatePath, Goto, isRemainingPathValid, managerVars, sceneVars, WatchInv,
               NothingRunsUnwatched, Watching, PlanTypeOK
<1>16. CASE PollRequest
  BY <1>16 DEF PollRequest, Goto, TakeRequest, managerVars, sceneVars, historyVars, WatchInv,
               NothingRunsUnwatched, Watching, PlanTypeOK
<1>17. CASE StopExecution
  BY <1>17 DEF StopExecution, Goto, Manager!Complete, managerVars, flagVars, sceneVars,
               historyVars, WatchInv, NothingRunsUnwatched, Watching, PlanTypeOK
<1>18. CASE JoinExecution
  BY <1>18 DEF JoinExecution, Goto, managerVars, flagVars, sceneVars, historyVars, WatchInv,
               NothingRunsUnwatched, Watching, PlanTypeOK
<1>19. CASE Decide
  BY <1>19 DEF Decide, Goto, managerVars, flagVars, sceneVars, WatchInv, NothingRunsUnwatched,
               Watching, PlanTypeOK
<1>20. CASE doneWithTrajectoryExecution
  BY <1>20 DEF doneWithTrajectoryExecution, Manager!Finish, helperVars, sceneVars, historyVars,
               WatchInv, NothingRunsUnwatched, Watching, PlanTypeOK
<1>21. CASE stop \/ NextPart \/ BeginPart \/ SkipPart \/ EndPart
            \/ successfulTrajectorySegmentExecution \/ ComeToEnd \/ ChangeScene
            \/ planningSceneUpdatedCallback \/ ForeignStop \/ ForeignClear
  <2>1. UNCHANGED <<executing, execution_complete_, pc>>
    BY <1>21 DEF stop, NextPart, BeginPart, SkipPart, EndPart,
                 successfulTrajectorySegmentExecution, ComeToEnd, ChangeScene,
                 planningSceneUpdatedCallback, ForeignStop, ForeignClear, managerVars,
                 helperVars, sceneVars, Manager!NextPart, flagVars, historyVars,
                 Manager!BeginPart, Manager!SkipPart, Manager!EndPart, Manager!ReportPart,
                 Manager!Complete
  <2> QED
    BY <2>1 DEF WatchInv, NothingRunsUnwatched
<1> QED
  BY <1>1, <1>2, <1>3, <1>4, <1>5, <1>6, <1>7, <1>8, <1>9, <1>10, <1>11, <1>12, <1>13, <1>14,
     <1>15, <1>16, <1>17, <1>18, <1>19, <1>20, <1>21
     DEF PlanNext, planAndExecuteHelper, executeAndMonitor, ExecutionThread, Environment

(* Every step keeps the manager at one part of the plan.                   *)
LEMMA ManagerStepLemma ==
  ASSUME PlanTypeOK, WatchInv, ManagerInv, PlanNext
  PROVE  ManagerInv'
<1>1. CASE \E diff \in BOOLEAN : planAndExecute(diff)
  BY <1>1 DEF planAndExecute, Goto, managerVars, flagVars, ManagerInv, WatchInv,
              NothingRunsUnwatched, Watching, PlanTypeOK
<1>2. CASE Return
  BY <1>2 DEF Return, Goto, managerVars, flagVars, ManagerInv, WatchInv, NothingRunsUnwatched,
              Watching, PlanTypeOK
<1>3. CASE DiscardOldRequest
  BY <1>3 DEF DiscardOldRequest, Goto, managerVars, sceneVars, ManagerInv, WatchInv,
              NothingRunsUnwatched, Watching, PlanTypeOK
<1>4. CASE BeginAttempt
  BY <1>4 DEF BeginAttempt, Goto, managerVars, sceneVars, historyVars, ManagerInv, WatchInv,
              NothingRunsUnwatched, Watching, PlanTypeOK
<1>5. CASE Plan
  BY <1>5 DEF Plan, Goto, managerVars, flagVars, historyVars, ManagerInv, WatchInv,
              NothingRunsUnwatched, Watching, PlanTypeOK
<1>6. CASE JudgePlan
  BY <1>6 DEF JudgePlan, Goto, TakeRequest, Again, managerVars, sceneVars, historyVars,
              ManagerInv, WatchInv, NothingRunsUnwatched, Watching, PlanTypeOK
<1>7. CASE BeforeExecution
  BY <1>7 DEF BeforeExecution, Goto, TakeRequest, managerVars, sceneVars, historyVars,
              ManagerInv, WatchInv, NothingRunsUnwatched, Watching, PlanTypeOK
<1>8. CASE JudgeExecution
  BY <1>8 DEF JudgeExecution, Goto, TakeRequest, Again, managerVars, sceneVars, historyVars,
              ManagerInv, WatchInv, NothingRunsUnwatched, Watching, PlanTypeOK
<1>9. CASE Conclude
  BY <1>9 DEF Conclude, Goto, managerVars, flagVars, sceneVars, historyVars, ManagerInv,
              WatchInv, NothingRunsUnwatched, Watching, PlanTypeOK
<1>10. CASE Push
  BY <1>10 DEF Push, Goto, Fails, managerVars, sceneVars, ManagerInv, WatchInv,
               NothingRunsUnwatched, Watching, PlanTypeOK
<1>11. CASE Execute
  <2>1. ~executing /\ index <= parts
    BY <1>11 DEF Execute, Goto, ManagerInv, WatchInv, NothingRunsUnwatched, Watching, PlanTypeOK
  <2>2. UNCHANGED <<index, begun, part, finished, parts, bad>>
    BY <1>11 DEF Execute, Manager!Execute, managerVars, sceneVars
  <2> QED
    BY <2>1, <2>2 DEF ManagerInv
<1>12. CASE BeginMonitoring
  BY <1>12 DEF BeginMonitoring, Goto, managerVars, sceneVars, ManagerInv, WatchInv,
               NothingRunsUnwatched, Watching, PlanTypeOK
<1>13. CASE MonitorTest
  BY <1>13 DEF MonitorTest, Goto, managerVars, flagVars, sceneVars, historyVars, ManagerInv,
               WatchInv, NothingRunsUnwatched, Watching, PlanTypeOK
<1>14. CASE LookForUpdate
  BY <1>14 DEF LookForUpdate, Goto, managerVars, sceneVars, historyVars, ManagerInv, WatchInv,
               NothingRunsUnwatched, Watching, PlanTypeOK
<1>15. CASE ValidatePath
  BY <1>15 DEF ValidatePath, Goto, isRemainingPathValid, managerVars, sceneVars, ManagerInv,
               WatchInv, NothingRunsUnwatched, Watching, PlanTypeOK
<1>16. CASE PollRequest
  BY <1>16 DEF PollRequest, Goto, TakeRequest, managerVars, sceneVars, historyVars, ManagerInv,
               WatchInv, NothingRunsUnwatched, Watching, PlanTypeOK
<1>17. CASE StopExecution
  <2>1. UNCHANGED <<executing, index, begun, part, finished, parts, bad>>
    BY <1>17 DEF StopExecution, Manager!Complete, managerVars, sceneVars
  <2> QED
    BY <2>1 DEF ManagerInv
<1>18. CASE JoinExecution
  BY <1>18 DEF JoinExecution, Goto, managerVars, flagVars, sceneVars, historyVars, ManagerInv,
               WatchInv, NothingRunsUnwatched, Watching, PlanTypeOK
<1>19. CASE Decide
  BY <1>19 DEF Decide, Goto, managerVars, flagVars, sceneVars, ManagerInv, WatchInv,
               NothingRunsUnwatched, Watching, PlanTypeOK
<1>20. CASE NextPart
  BY <1>20 DEF NextPart, Manager!NextPart, flagVars, helperVars, sceneVars, historyVars,
               ManagerInv, WatchInv, NothingRunsUnwatched, Watching, PlanTypeOK
<1>21. CASE BeginPart
  BY <1>21 DEF BeginPart, Manager!BeginPart, flagVars, helperVars, sceneVars, historyVars,
               ManagerInv, WatchInv, NothingRunsUnwatched, Watching, PlanTypeOK
<1>22. CASE SkipPart
  BY <1>22 DEF SkipPart, Manager!SkipPart, flagVars, helperVars, sceneVars, historyVars,
               ManagerInv, WatchInv, NothingRunsUnwatched, Watching, PlanTypeOK
<1>23. CASE EndPart
  BY <1>23 DEF EndPart, Manager!EndPart, flagVars, helperVars, sceneVars, historyVars,
               ManagerInv, WatchInv, NothingRunsUnwatched, Watching, PlanTypeOK
<1>24. CASE successfulTrajectorySegmentExecution
  BY <1>24 DEF successfulTrajectorySegmentExecution, Manager!ReportPart, Fails,
               isRemainingPathValid, helperVars, sceneVars, ManagerInv, WatchInv,
               NothingRunsUnwatched, Watching, PlanTypeOK
<1>25. CASE doneWithTrajectoryExecution
  BY <1>25 DEF doneWithTrajectoryExecution, Manager!Finish, helperVars, sceneVars, historyVars,
               ManagerInv, WatchInv, NothingRunsUnwatched, Watching, PlanTypeOK
<1>26. CASE ChangeScene
  BY <1>26 DEF ChangeScene, managerVars, flagVars, helperVars, historyVars, ManagerInv, WatchInv,
               NothingRunsUnwatched, Watching, PlanTypeOK
<1>27. CASE stop \/ ComeToEnd \/ planningSceneUpdatedCallback \/ ForeignStop \/ ForeignClear
  <2>1. UNCHANGED <<executing, index, begun, part, finished, pc, parts, bad>>
    BY <1>27 DEF stop, ComeToEnd, planningSceneUpdatedCallback, ForeignStop, ForeignClear,
                 managerVars, helperVars, sceneVars, Manager!Complete, flagVars, historyVars
  <2> QED
    BY <2>1 DEF ManagerInv, NothingRunsUnwatched
<1> QED
  BY <1>1, <1>2, <1>3, <1>4, <1>5, <1>6, <1>7, <1>8, <1>9, <1>10, <1>11, <1>12, <1>13, <1>14,
     <1>15, <1>16, <1>17, <1>18, <1>19, <1>20, <1>21, <1>22, <1>23, <1>24, <1>25, <1>26, <1>27
     DEF PlanNext, planAndExecuteHelper, executeAndMonitor, ExecutionThread, Environment

(* Every attempt is counted, and none begins beyond the limit.             *)
LEMMA AttemptsStep ==
  ASSUME PlanTypeOK, AttemptsInv, PlanNext
  PROVE  AttemptsInv'
<1>1. CASE \E diff \in BOOLEAN : planAndExecute(diff)
  BY <1>1, PlanExecutionAssumption DEF planAndExecute, Goto, managerVars, flagVars, AttemptsInv,
                                       PlanTypeOK
<1>2. CASE Return
  BY <1>2, PlanExecutionAssumption DEF Return, Goto, managerVars, flagVars, AttemptsInv,
                                       PlanTypeOK
<1>3. CASE DiscardOldRequest
  BY <1>3, PlanExecutionAssumption DEF DiscardOldRequest, Goto, managerVars, sceneVars,
                                       AttemptsInv, PlanTypeOK
<1>4. CASE BeginAttempt
  BY <1>4, PlanExecutionAssumption DEF BeginAttempt, Goto, managerVars, sceneVars, historyVars,
                                       AttemptsInv, PlanTypeOK
<1>5. CASE Plan
  BY <1>5, PlanExecutionAssumption DEF Plan, Goto, managerVars, flagVars, historyVars,
                                       AttemptsInv, PlanTypeOK
<1>6. CASE JudgePlan
  BY <1>6, PlanExecutionAssumption DEF JudgePlan, Goto, TakeRequest, Again, managerVars,
                                       sceneVars, historyVars, AttemptsInv, PlanTypeOK
<1>7. CASE BeforeExecution
  BY <1>7, PlanExecutionAssumption DEF BeforeExecution, Goto, TakeRequest, managerVars,
                                       sceneVars, historyVars, AttemptsInv, PlanTypeOK
<1>8. CASE JudgeExecution
  BY <1>8, PlanExecutionAssumption DEF JudgeExecution, Goto, TakeRequest, Again, managerVars,
                                       sceneVars, historyVars, AttemptsInv, PlanTypeOK
<1>9. CASE Conclude
  BY <1>9, PlanExecutionAssumption DEF Conclude, Goto, managerVars, flagVars, sceneVars,
                                       historyVars, AttemptsInv, PlanTypeOK
<1>10. CASE Push
  BY <1>10, PlanExecutionAssumption DEF Push, Goto, Fails, managerVars, sceneVars, AttemptsInv,
                                        PlanTypeOK
<1>11. CASE Execute
  BY <1>11, PlanExecutionAssumption DEF Execute, Goto, Manager!Execute, managerVars, sceneVars,
                                        historyVars, AttemptsInv, PlanTypeOK
<1>12. CASE BeginMonitoring
  BY <1>12, PlanExecutionAssumption DEF BeginMonitoring, Goto, managerVars, sceneVars,
                                        AttemptsInv, PlanTypeOK
<1>13. CASE MonitorTest
  BY <1>13, PlanExecutionAssumption DEF MonitorTest, Goto, managerVars, flagVars, sceneVars,
                                        historyVars, AttemptsInv, PlanTypeOK
<1>14. CASE LookForUpdate
  BY <1>14, PlanExecutionAssumption DEF LookForUpdate, Goto, managerVars, sceneVars, historyVars,
                                        AttemptsInv, PlanTypeOK
<1>15. CASE ValidatePath
  BY <1>15, PlanExecutionAssumption DEF ValidatePath, Goto, isRemainingPathValid, managerVars,
                                        sceneVars, AttemptsInv, PlanTypeOK
<1>16. CASE PollRequest
  BY <1>16, PlanExecutionAssumption DEF PollRequest, Goto, TakeRequest, managerVars, sceneVars,
                                        historyVars, AttemptsInv, PlanTypeOK
<1>17. CASE StopExecution
  BY <1>17, PlanExecutionAssumption DEF StopExecution, Goto, Manager!Complete, managerVars,
                                        flagVars, sceneVars, historyVars, AttemptsInv, PlanTypeOK
<1>18. CASE JoinExecution
  BY <1>18, PlanExecutionAssumption DEF JoinExecution, Goto, managerVars, flagVars, sceneVars,
                                        historyVars, AttemptsInv, PlanTypeOK
<1>19. CASE Decide
  BY <1>19, PlanExecutionAssumption DEF Decide, Goto, managerVars, flagVars, sceneVars,
                                        AttemptsInv, PlanTypeOK
<1>20. CASE stop \/ NextPart \/ BeginPart \/ SkipPart \/ EndPart
            \/ successfulTrajectorySegmentExecution \/ ComeToEnd \/ doneWithTrajectoryExecution
            \/ ChangeScene \/ planningSceneUpdatedCallback \/ ForeignStop \/ ForeignClear
  <2>1. UNCHANGED <<pc, replan_attempts>>
    BY <1>20 DEF stop, NextPart, BeginPart, SkipPart, EndPart,
                 successfulTrajectorySegmentExecution, ComeToEnd, doneWithTrajectoryExecution,
                 ChangeScene, planningSceneUpdatedCallback, ForeignStop, ForeignClear,
                 managerVars, helperVars, sceneVars, Manager!NextPart, flagVars, historyVars,
                 Manager!BeginPart, Manager!SkipPart, Manager!EndPart, Manager!ReportPart,
                 Manager!Complete, Manager!Finish
  <2> QED
    BY <2>1 DEF AttemptsInv
<1> QED
  BY <1>1, <1>2, <1>3, <1>4, <1>5, <1>6, <1>7, <1>8, <1>9, <1>10, <1>11, <1>12, <1>13, <1>14,
     <1>15, <1>16, <1>17, <1>18, <1>19, <1>20
     DEF PlanNext, planAndExecuteHelper, executeAndMonitor, ExecutionThread, Environment

(* The types of the manager's state are kept.                              *)
LEMMA ManagerTypesStep ==
  ASSUME ManagerTypes, PlanTypeOK, PlanNext
  PROVE  ManagerTypes'
<1>1. CASE Execute
  BY <1>1 DEF Execute, Goto, Manager!Execute, managerVars, sceneVars, historyVars, ManagerTypes
<1>2. CASE StopExecution
  BY <1>2 DEF StopExecution, Goto, Manager!Complete, managerVars, flagVars, sceneVars,
              historyVars, ManagerTypes
<1>3. CASE NextPart
  <2>1. index' = index + 1 /\ begun' = FALSE /\ UNCHANGED <<executing, complete, part, finished>>
    BY <1>3 DEF NextPart, Manager!NextPart
  <2>2. index' \in Nat
    BY <2>1 DEF ManagerTypes
  <2>3. UNCHANGED status
    BY <1>3 DEF NextPart
  <2> QED
    BY <2>1, <2>2, <2>3 DEF ManagerTypes
<1>4. CASE BeginPart
  BY <1>4 DEF BeginPart, Manager!BeginPart, flagVars, helperVars, sceneVars, historyVars,
              ManagerTypes
<1>5. CASE SkipPart
  BY <1>5 DEF SkipPart, Manager!SkipPart, flagVars, helperVars, sceneVars, historyVars,
              ManagerTypes
<1>6. CASE EndPart
  BY <1>6 DEF EndPart, Manager!EndPart, flagVars, helperVars, sceneVars, historyVars, ManagerTypes
<1>7. CASE successfulTrajectorySegmentExecution
  BY <1>7 DEF successfulTrajectorySegmentExecution, Manager!ReportPart, Fails,
              isRemainingPathValid, helperVars, sceneVars, ManagerTypes
<1>8. CASE ComeToEnd
  BY <1>8 DEF ComeToEnd, Manager!Complete, flagVars, helperVars, sceneVars, historyVars,
              ManagerTypes
<1>9. CASE doneWithTrajectoryExecution
  BY <1>9 DEF doneWithTrajectoryExecution, Manager!Finish, helperVars, sceneVars, historyVars,
              ManagerTypes
<1>10. CASE ForeignStop
  BY <1>10 DEF ForeignStop, Manager!Complete, StoppedStatus, flagVars, helperVars, sceneVars,
               ManagerTypes
<1>11. CASE (\E diff \in BOOLEAN : planAndExecute(diff)) \/ stop \/ Return \/ DiscardOldRequest
            \/ BeginAttempt \/ Plan \/ JudgePlan \/ BeforeExecution \/ JudgeExecution
            \/ Conclude \/ Push \/ BeginMonitoring \/ MonitorTest \/ LookForUpdate
            \/ ValidatePath \/ PollRequest \/ JoinExecution \/ Decide \/ ChangeScene
            \/ planningSceneUpdatedCallback \/ ForeignClear
  <2>1. UNCHANGED <<executing, complete, index, begun, part, finished, status>>
    BY <1>11 DEF planAndExecute, stop, Return, DiscardOldRequest, BeginAttempt, Plan, JudgePlan,
                 BeforeExecution, JudgeExecution, Conclude, Push, BeginMonitoring, MonitorTest,
                 LookForUpdate, ValidatePath, PollRequest, JoinExecution, Decide, ChangeScene,
                 planningSceneUpdatedCallback, ForeignClear, managerVars, flagVars, helperVars,
                 sceneVars, historyVars
  <2> QED
    BY <2>1 DEF ManagerTypes
<1> QED
  BY <1>1, <1>2, <1>3, <1>4, <1>5, <1>6, <1>7, <1>8, <1>9, <1>10, <1>11
     DEF PlanNext, planAndExecuteHelper, executeAndMonitor, ExecutionThread, Environment

(* The types of the flags are kept.                                        *)
LEMMA FlagTypesStep ==
  ASSUME FlagTypes, PlanNext
  PROVE  FlagTypes'
<1>1. CASE \E diff \in BOOLEAN : planAndExecute(diff)
  BY <1>1 DEF planAndExecute, Goto, managerVars, flagVars, FlagTypes
<1>2. CASE stop
  BY <1>2 DEF stop, managerVars, helperVars, sceneVars, FlagTypes
<1>3. CASE Return
  BY <1>3 DEF Return, Goto, managerVars, flagVars, FlagTypes
<1>4. CASE DiscardOldRequest
  BY <1>4 DEF DiscardOldRequest, Goto, managerVars, sceneVars, FlagTypes
<1>5. CASE BeginAttempt
  BY <1>5 DEF BeginAttempt, Goto, managerVars, sceneVars, historyVars, FlagTypes
<1>6. CASE JudgePlan
  BY <1>6 DEF JudgePlan, Goto, TakeRequest, Again, managerVars, sceneVars, historyVars, FlagTypes
<1>7. CASE BeforeExecution
  BY <1>7 DEF BeforeExecution, Goto, TakeRequest, managerVars, sceneVars, historyVars, FlagTypes
<1>8. CASE JudgeExecution
  BY <1>8 DEF JudgeExecution, Goto, TakeRequest, Again, managerVars, sceneVars, historyVars,
              FlagTypes
<1>9. CASE Push
  BY <1>9 DEF Push, Goto, Fails, managerVars, sceneVars, FlagTypes
<1>10. CASE Execute
  BY <1>10 DEF Execute, Goto, Manager!Execute, managerVars, sceneVars, historyVars, FlagTypes
<1>11. CASE BeginMonitoring
  BY <1>11 DEF BeginMonitoring, Goto, managerVars, sceneVars, FlagTypes
<1>12. CASE LookForUpdate
  BY <1>12 DEF LookForUpdate, Goto, managerVars, sceneVars, historyVars, FlagTypes
<1>13. CASE ValidatePath
  BY <1>13 DEF ValidatePath, Goto, isRemainingPathValid, managerVars, sceneVars, FlagTypes
<1>14. CASE PollRequest
  BY <1>14 DEF PollRequest, Goto, TakeRequest, managerVars, sceneVars, historyVars, FlagTypes
<1>15. CASE successfulTrajectorySegmentExecution
  BY <1>15 DEF successfulTrajectorySegmentExecution, Manager!ReportPart, Fails,
               isRemainingPathValid, helperVars, sceneVars, FlagTypes
<1>16. CASE doneWithTrajectoryExecution
  BY <1>16 DEF doneWithTrajectoryExecution, Manager!Finish, helperVars, sceneVars, historyVars,
               FlagTypes
<1>17. CASE ChangeScene
  BY <1>17 DEF ChangeScene, managerVars, flagVars, helperVars, historyVars, FlagTypes
<1>18. CASE planningSceneUpdatedCallback
  BY <1>18 DEF planningSceneUpdatedCallback, managerVars, helperVars, historyVars, FlagTypes
<1>19. CASE Plan \/ Conclude \/ MonitorTest \/ StopExecution \/ JoinExecution \/ Decide
            \/ NextPart \/ BeginPart \/ SkipPart \/ EndPart \/ ComeToEnd \/ ForeignStop
            \/ ForeignClear
  <2>1. UNCHANGED <<preempt_, new_scene_update_, execution_complete_, path_became_invalid_,
                    preempt_requested, snapshot, unannounced, must_stop, broken>>
    BY <1>19 DEF Plan, Conclude, MonitorTest, StopExecution, JoinExecution, Decide, NextPart,
                 BeginPart, SkipPart, EndPart, ComeToEnd, ForeignStop, ForeignClear, managerVars,
                 flagVars, historyVars, sceneVars, Manager!Complete, Manager!NextPart,
                 helperVars, Manager!BeginPart, Manager!SkipPart, Manager!EndPart
  <2> QED
    BY <2>1 DEF FlagTypes
<1> QED
  BY <1>1, <1>2, <1>3, <1>4, <1>5, <1>6, <1>7, <1>8, <1>9, <1>10, <1>11, <1>12, <1>13, <1>14,
     <1>15, <1>16, <1>17, <1>18, <1>19
     DEF PlanNext, planAndExecuteHelper, executeAndMonitor, ExecutionThread, Environment

(* The plan is at one of its steps, and its code is one of the codes.      *)
LEMMA CodeTypesStep ==
  ASSUME CodeTypes, PlanNext
  PROVE  CodeTypes'
<1>1. CASE \E diff \in BOOLEAN : planAndExecute(diff)
  BY <1>1 DEF planAndExecute, Goto, managerVars, flagVars, CodeTypes, HelperSteps, Codes
<1>2. CASE Return
  BY <1>2 DEF Return, Goto, managerVars, flagVars, CodeTypes, HelperSteps, Codes
<1>3. CASE DiscardOldRequest
  BY <1>3 DEF DiscardOldRequest, Goto, managerVars, sceneVars, CodeTypes, HelperSteps, Codes
<1>4. CASE BeginAttempt
  BY <1>4 DEF BeginAttempt, Goto, managerVars, sceneVars, historyVars, CodeTypes, HelperSteps,
              Codes
<1>5. CASE Plan
  BY <1>5 DEF Plan, Goto, managerVars, flagVars, historyVars, CodeTypes, HelperSteps, Codes
<1>6. CASE JudgePlan
  BY <1>6 DEF JudgePlan, Goto, TakeRequest, Again, managerVars, sceneVars, historyVars,
              CodeTypes, HelperSteps, Codes
<1>7. CASE BeforeExecution
  BY <1>7 DEF BeforeExecution, Goto, TakeRequest, managerVars, sceneVars, historyVars, CodeTypes,
              HelperSteps, Codes
<1>8. CASE JudgeExecution
  BY <1>8 DEF JudgeExecution, Goto, TakeRequest, Again, managerVars, sceneVars, historyVars,
              CodeTypes, HelperSteps, Codes
<1>9. CASE Conclude
  BY <1>9 DEF Conclude, Goto, managerVars, flagVars, sceneVars, historyVars, CodeTypes,
              HelperSteps, Codes
<1>10. CASE Push
  BY <1>10 DEF Push, Goto, Fails, managerVars, sceneVars, CodeTypes, HelperSteps, Codes
<1>11. CASE Execute
  BY <1>11 DEF Execute, Goto, Manager!Execute, managerVars, sceneVars, historyVars, CodeTypes,
               HelperSteps, Codes
<1>12. CASE BeginMonitoring
  BY <1>12 DEF BeginMonitoring, Goto, managerVars, sceneVars, CodeTypes, HelperSteps, Codes
<1>13. CASE MonitorTest
  BY <1>13 DEF MonitorTest, Goto, managerVars, flagVars, sceneVars, historyVars, CodeTypes,
               HelperSteps, Codes
<1>14. CASE LookForUpdate
  BY <1>14 DEF LookForUpdate, Goto, managerVars, sceneVars, historyVars, CodeTypes, HelperSteps,
               Codes
<1>15. CASE ValidatePath
  BY <1>15 DEF ValidatePath, Goto, isRemainingPathValid, managerVars, sceneVars, CodeTypes,
               HelperSteps, Codes
<1>16. CASE PollRequest
  BY <1>16 DEF PollRequest, Goto, TakeRequest, managerVars, sceneVars, historyVars, CodeTypes,
               HelperSteps, Codes
<1>17. CASE StopExecution
  BY <1>17 DEF StopExecution, Goto, Manager!Complete, managerVars, flagVars, sceneVars,
               historyVars, CodeTypes, HelperSteps, Codes
<1>18. CASE JoinExecution
  BY <1>18 DEF JoinExecution, Goto, managerVars, flagVars, sceneVars, historyVars, CodeTypes,
               HelperSteps, Codes
<1>19. CASE Decide
  BY <1>19 DEF Decide, Goto, managerVars, flagVars, sceneVars, CodeTypes, HelperSteps, Codes
<1>20. CASE stop \/ NextPart \/ BeginPart \/ SkipPart \/ EndPart
            \/ successfulTrajectorySegmentExecution \/ ComeToEnd \/ doneWithTrajectoryExecution
            \/ ChangeScene \/ planningSceneUpdatedCallback \/ ForeignStop \/ ForeignClear
  <2>1. UNCHANGED <<pc, error_code>>
    BY <1>20 DEF stop, NextPart, BeginPart, SkipPart, EndPart,
                 successfulTrajectorySegmentExecution, ComeToEnd, doneWithTrajectoryExecution,
                 ChangeScene, planningSceneUpdatedCallback, ForeignStop, ForeignClear,
                 managerVars, helperVars, sceneVars, Manager!NextPart, flagVars, historyVars,
                 Manager!BeginPart, Manager!SkipPart, Manager!EndPart, Manager!ReportPart,
                 Manager!Complete, Manager!Finish
  <2> QED
    BY <2>1 DEF CodeTypes
<1> QED
  BY <1>1, <1>2, <1>3, <1>4, <1>5, <1>6, <1>7, <1>8, <1>9, <1>10, <1>11, <1>12, <1>13, <1>14,
     <1>15, <1>16, <1>17, <1>18, <1>19, <1>20
     DEF PlanNext, planAndExecuteHelper, executeAndMonitor, ExecutionThread, Environment

(* Attempts, parts and changes stay within their bounds.                   *)
LEMMA NumberTypesStep ==
  ASSUME NumberTypes, AttemptsInv, PlanNext
  PROVE  NumberTypes'
<1>1. CASE \E diff \in BOOLEAN : planAndExecute(diff)
  BY <1>1, PlanExecutionAssumption DEF planAndExecute, Goto, managerVars, flagVars, NumberTypes,
                                       AttemptsInv
<1>2. CASE Return
  BY <1>2, PlanExecutionAssumption DEF Return, Goto, managerVars, flagVars, NumberTypes,
                                       AttemptsInv
<1>3. CASE BeginAttempt
  BY <1>3, PlanExecutionAssumption DEF BeginAttempt, Goto, managerVars, sceneVars, historyVars,
                                       NumberTypes, AttemptsInv
<1>4. CASE Plan
  BY <1>4, PlanExecutionAssumption DEF Plan, Goto, managerVars, flagVars, historyVars,
                                       NumberTypes, AttemptsInv
<1>5. CASE ChangeScene
  BY <1>5, PlanExecutionAssumption DEF ChangeScene, managerVars, flagVars, helperVars,
                                       historyVars, NumberTypes, AttemptsInv
<1>6. CASE stop \/ DiscardOldRequest \/ JudgePlan \/ BeforeExecution \/ JudgeExecution
           \/ Conclude \/ Push \/ Execute \/ BeginMonitoring \/ MonitorTest \/ LookForUpdate
           \/ ValidatePath \/ PollRequest \/ StopExecution \/ JoinExecution \/ Decide
           \/ NextPart \/ BeginPart \/ SkipPart \/ EndPart
           \/ successfulTrajectorySegmentExecution \/ ComeToEnd \/ doneWithTrajectoryExecution
           \/ planningSceneUpdatedCallback \/ ForeignStop \/ ForeignClear
  <2>1. UNCHANGED <<replan_attempts, parts, changes>>
    BY <1>6 DEF stop, DiscardOldRequest, JudgePlan, BeforeExecution, JudgeExecution, Conclude,
                Push, Execute, BeginMonitoring, MonitorTest, LookForUpdate, ValidatePath,
                PollRequest, StopExecution, JoinExecution, Decide, NextPart, BeginPart, SkipPart,
                EndPart, successfulTrajectorySegmentExecution, ComeToEnd,
                doneWithTrajectoryExecution, planningSceneUpdatedCallback, ForeignStop,
                ForeignClear, managerVars, helperVars, sceneVars, historyVars, flagVars,
                Manager!Execute, Manager!Complete, Manager!NextPart, Manager!BeginPart,
                Manager!SkipPart, Manager!EndPart, Manager!ReportPart, Manager!Finish
  <2> QED
    BY <2>1 DEF NumberTypes
<1> QED
  BY <1>1, <1>2, <1>3, <1>4, <1>5, <1>6
     DEF PlanNext, planAndExecuteHelper, executeAndMonitor, ExecutionThread, Environment

(* The types of the sets are kept.                                         *)
LEMMA SetTypesStep ==
  ASSUME SetTypes, ManagerInv, PlanTypeOK, PlanNext
  PROVE  SetTypes'
<1>1. CASE \E diff \in BOOLEAN : planAndExecute(diff)
  BY <1>1, PlanExecutionAssumption DEF planAndExecute, Goto, managerVars, flagVars, SetTypes,
                                       ManagerInv, PlanTypeOK
<1>2. CASE Return
  BY <1>2, PlanExecutionAssumption DEF Return, Goto, managerVars, flagVars, SetTypes, ManagerInv,
                                       PlanTypeOK
<1>3. CASE Plan
  BY <1>3, PlanExecutionAssumption DEF Plan, Goto, managerVars, flagVars, historyVars, SetTypes,
                                       ManagerInv, PlanTypeOK
<1>4. CASE Push
  BY <1>4, PlanExecutionAssumption DEF Push, Goto, Fails, managerVars, sceneVars, SetTypes,
                                       ManagerInv, PlanTypeOK
<1>5. CASE BeginMonitoring
  BY <1>5, PlanExecutionAssumption DEF BeginMonitoring, Goto, managerVars, sceneVars, SetTypes,
                                       ManagerInv, PlanTypeOK
<1>6. CASE ValidatePath
  BY <1>6, PlanExecutionAssumption DEF ValidatePath, Goto, isRemainingPathValid, managerVars,
                                       sceneVars, SetTypes, ManagerInv, PlanTypeOK
<1>7. CASE Decide
  BY <1>7, PlanExecutionAssumption DEF Decide, Goto, managerVars, flagVars, sceneVars, SetTypes,
                                       ManagerInv, PlanTypeOK
<1>8. CASE successfulTrajectorySegmentExecution
  BY <1>8, PlanExecutionAssumption DEF successfulTrajectorySegmentExecution, Manager!ReportPart,
                                       Fails, isRemainingPathValid, helperVars, sceneVars,
                                       SetTypes, ManagerInv, PlanTypeOK
<1>9. CASE ChangeScene
  BY <1>9, PlanExecutionAssumption DEF ChangeScene, managerVars, flagVars, helperVars,
                                       historyVars, SetTypes, ManagerInv, PlanTypeOK
<1>10. CASE ForeignStop
  BY <1>10, PlanExecutionAssumption DEF ForeignStop, Manager!Complete, StoppedStatus, flagVars,
                                        helperVars, sceneVars, SetTypes, ManagerInv, PlanTypeOK
<1>11. CASE ForeignClear
  BY <1>11, PlanExecutionAssumption DEF ForeignClear, managerVars, flagVars, helperVars,
                                        sceneVars, SetTypes, ManagerInv, PlanTypeOK
<1>12. CASE stop \/ DiscardOldRequest \/ BeginAttempt \/ JudgePlan \/ BeforeExecution
            \/ JudgeExecution \/ Conclude \/ Execute \/ MonitorTest \/ LookForUpdate
            \/ PollRequest \/ StopExecution \/ JoinExecution \/ NextPart \/ BeginPart
            \/ SkipPart \/ EndPart \/ ComeToEnd \/ doneWithTrajectoryExecution
            \/ planningSceneUpdatedCallback
  <2>1. UNCHANGED <<bad, dropped, foreign, reported>>
    BY <1>12 DEF stop, DiscardOldRequest, BeginAttempt, JudgePlan, BeforeExecution,
                 JudgeExecution, Conclude, Execute, MonitorTest, LookForUpdate, PollRequest,
                 StopExecution, JoinExecution, NextPart, BeginPart, SkipPart, EndPart, ComeToEnd,
                 doneWithTrajectoryExecution, planningSceneUpdatedCallback, managerVars,
                 helperVars, sceneVars, historyVars, flagVars, Manager!Execute, Manager!Complete,
                 Manager!NextPart, Manager!BeginPart, Manager!SkipPart, Manager!EndPart,
                 Manager!Finish
  <2> QED
    BY <2>1 DEF SetTypes
<1> QED
  BY <1>1, <1>2, <1>3, <1>4, <1>5, <1>6, <1>7, <1>8, <1>9, <1>10, <1>11, <1>12
     DEF PlanNext, planAndExecuteHelper, executeAndMonitor, ExecutionThread, Environment

(* The code of a plan stays a success until the verdict on its execution.  *)
LEMMA PlannedStep ==
  ASSUME PlanTypeOK, PlannedInv, PlanNext
  PROVE  PlannedInv'
<1>1. CASE \E diff \in BOOLEAN : planAndExecute(diff)
  BY <1>1 DEF planAndExecute, Goto, managerVars, flagVars, PlannedInv, PlanTypeOK
<1>2. CASE Return
  BY <1>2 DEF Return, Goto, managerVars, flagVars, PlannedInv, PlanTypeOK
<1>3. CASE DiscardOldRequest
  BY <1>3 DEF DiscardOldRequest, Goto, managerVars, sceneVars, PlannedInv, PlanTypeOK
<1>4. CASE BeginAttempt
  BY <1>4 DEF BeginAttempt, Goto, managerVars, sceneVars, historyVars, PlannedInv, PlanTypeOK
<1>5. CASE Plan
  BY <1>5 DEF Plan, Goto, managerVars, flagVars, historyVars, PlannedInv, PlanTypeOK
<1>6. CASE JudgePlan
  BY <1>6 DEF JudgePlan, Goto, TakeRequest, Again, managerVars, sceneVars, historyVars,
              PlannedInv, PlanTypeOK
<1>7. CASE BeforeExecution
  BY <1>7 DEF BeforeExecution, Goto, TakeRequest, managerVars, sceneVars, historyVars,
              PlannedInv, PlanTypeOK
<1>8. CASE JudgeExecution
  BY <1>8 DEF JudgeExecution, Goto, TakeRequest, Again, managerVars, sceneVars, historyVars,
              PlannedInv, PlanTypeOK
<1>9. CASE Conclude
  BY <1>9 DEF Conclude, Goto, managerVars, flagVars, sceneVars, historyVars, PlannedInv,
              PlanTypeOK
<1>10. CASE Push
  BY <1>10 DEF Push, Goto, Fails, managerVars, sceneVars, PlannedInv, PlanTypeOK
<1>11. CASE Execute
  BY <1>11 DEF Execute, Goto, Manager!Execute, managerVars, sceneVars, historyVars, PlannedInv,
               PlanTypeOK
<1>12. CASE BeginMonitoring
  BY <1>12 DEF BeginMonitoring, Goto, managerVars, sceneVars, PlannedInv, PlanTypeOK
<1>13. CASE MonitorTest
  BY <1>13 DEF MonitorTest, Goto, managerVars, flagVars, sceneVars, historyVars, PlannedInv,
               PlanTypeOK
<1>14. CASE LookForUpdate
  BY <1>14 DEF LookForUpdate, Goto, managerVars, sceneVars, historyVars, PlannedInv, PlanTypeOK
<1>15. CASE ValidatePath
  BY <1>15 DEF ValidatePath, Goto, isRemainingPathValid, managerVars, sceneVars, PlannedInv,
               PlanTypeOK
<1>16. CASE PollRequest
  BY <1>16 DEF PollRequest, Goto, TakeRequest, managerVars, sceneVars, historyVars, PlannedInv,
               PlanTypeOK
<1>17. CASE StopExecution
  BY <1>17 DEF StopExecution, Goto, Manager!Complete, managerVars, flagVars, sceneVars,
               historyVars, PlannedInv, PlanTypeOK
<1>18. CASE JoinExecution
  BY <1>18 DEF JoinExecution, Goto, managerVars, flagVars, sceneVars, historyVars, PlannedInv,
               PlanTypeOK
<1>19. CASE Decide
  BY <1>19 DEF Decide, Goto, managerVars, flagVars, sceneVars, PlannedInv, PlanTypeOK
<1>20. CASE stop \/ NextPart \/ BeginPart \/ SkipPart \/ EndPart
            \/ successfulTrajectorySegmentExecution \/ ComeToEnd \/ doneWithTrajectoryExecution
            \/ ChangeScene \/ planningSceneUpdatedCallback \/ ForeignStop \/ ForeignClear
  <2>1. UNCHANGED <<pc, error_code>>
    BY <1>20 DEF stop, NextPart, BeginPart, SkipPart, EndPart,
                 successfulTrajectorySegmentExecution, ComeToEnd, doneWithTrajectoryExecution,
                 ChangeScene, planningSceneUpdatedCallback, ForeignStop, ForeignClear,
                 managerVars, helperVars, sceneVars, Manager!NextPart, flagVars, historyVars,
                 Manager!BeginPart, Manager!SkipPart, Manager!EndPart, Manager!ReportPart,
                 Manager!Complete, Manager!Finish
  <2> QED
    BY <2>1 DEF PlannedInv
<1> QED
  BY <1>1, <1>2, <1>3, <1>4, <1>5, <1>6, <1>7, <1>8, <1>9, <1>10, <1>11, <1>12, <1>13, <1>14,
     <1>15, <1>16, <1>17, <1>18, <1>19, <1>20
     DEF PlanNext, planAndExecuteHelper, executeAndMonitor, ExecutionThread, Environment

(* No step loses the news of an obstacle that the next part has to heed.   *)
LEMMA NoticeStep ==
  ASSUME PlanTypeOK, ManagerInv, WatchInv, PlannedInv, NoticeInv, PlanNext
  PROVE  NoticeInv'
<1>1. CASE \E diff \in BOOLEAN : planAndExecute(diff)
  BY <1>1 DEF planAndExecute, Goto, managerVars, flagVars, NoticeInv, Current, ManagerInv,
              WatchInv, NothingRunsUnwatched, Watching, PlannedInv, PlanTypeOK
<1>2. CASE stop
  BY <1>2 DEF stop, managerVars, helperVars, sceneVars, NoticeInv, Current, ManagerInv, WatchInv,
              NothingRunsUnwatched, Watching, PlannedInv, PlanTypeOK
<1>3. CASE Return
  BY <1>3 DEF Return, Goto, managerVars, flagVars, NoticeInv, Current, ManagerInv, WatchInv,
              NothingRunsUnwatched, Watching, PlannedInv, PlanTypeOK
<1>4. CASE DiscardOldRequest
  BY <1>4 DEF DiscardOldRequest, Goto, managerVars, sceneVars, NoticeInv, Current, ManagerInv,
              WatchInv, NothingRunsUnwatched, Watching, PlannedInv, PlanTypeOK
<1>5. CASE BeginAttempt
  BY <1>5 DEF BeginAttempt, Goto, managerVars, sceneVars, historyVars, NoticeInv, Current,
              ManagerInv, WatchInv, NothingRunsUnwatched, Watching, PlannedInv, PlanTypeOK
<1>6. CASE Plan
  BY <1>6 DEF Plan, Goto, managerVars, flagVars, historyVars, NoticeInv, Current, ManagerInv,
              WatchInv, NothingRunsUnwatched, Watching, PlannedInv, PlanTypeOK
<1>7. CASE JudgePlan
  BY <1>7 DEF JudgePlan, Goto, TakeRequest, Again, managerVars, sceneVars, historyVars,
              NoticeInv, Current, ManagerInv, WatchInv, NothingRunsUnwatched, Watching,
              PlannedInv, PlanTypeOK
<1>8. CASE BeforeExecution
  BY <1>8 DEF BeforeExecution, Goto, TakeRequest, managerVars, sceneVars, historyVars, NoticeInv,
              Current, ManagerInv, WatchInv, NothingRunsUnwatched, Watching, PlannedInv,
              PlanTypeOK
<1>9. CASE JudgeExecution
  BY <1>9 DEF JudgeExecution, Goto, TakeRequest, Again, managerVars, sceneVars, historyVars,
              NoticeInv, Current, ManagerInv, WatchInv, NothingRunsUnwatched, Watching,
              PlannedInv, PlanTypeOK
<1>10. CASE Conclude
  BY <1>10 DEF Conclude, Goto, managerVars, flagVars, sceneVars, historyVars, NoticeInv, Current,
               ManagerInv, WatchInv, NothingRunsUnwatched, Watching, PlannedInv, PlanTypeOK
<1>11. CASE Push
  BY <1>11 DEF Push, Goto, Fails, managerVars, sceneVars, NoticeInv, Current, ManagerInv,
               WatchInv, NothingRunsUnwatched, Watching, PlannedInv, PlanTypeOK
<1>12. CASE Execute
  BY <1>12 DEF Execute, Goto, Manager!Execute, managerVars, sceneVars, historyVars, NoticeInv,
               Current, ManagerInv, WatchInv, NothingRunsUnwatched, Watching, PlannedInv,
               PlanTypeOK
<1>13. CASE BeginMonitoring
  BY <1>13 DEF BeginMonitoring, Goto, managerVars, sceneVars, NoticeInv, Current, ManagerInv,
               WatchInv, NothingRunsUnwatched, Watching, PlannedInv, PlanTypeOK
<1>14. CASE MonitorTest
  BY <1>14 DEF MonitorTest, Goto, managerVars, flagVars, sceneVars, historyVars, NoticeInv,
               Current, ManagerInv, WatchInv, NothingRunsUnwatched, Watching, PlannedInv,
               PlanTypeOK
<1>15. CASE LookForUpdate
  BY <1>15 DEF LookForUpdate, Goto, managerVars, sceneVars, historyVars, NoticeInv, Current,
               ManagerInv, WatchInv, NothingRunsUnwatched, Watching, PlannedInv, PlanTypeOK
<1>16. CASE ValidatePath
  BY <1>16 DEF ValidatePath, Goto, isRemainingPathValid, managerVars, sceneVars, NoticeInv,
               Current, ManagerInv, WatchInv, NothingRunsUnwatched, Watching, PlannedInv,
               PlanTypeOK
<1>17. CASE PollRequest
  BY <1>17 DEF PollRequest, Goto, TakeRequest, managerVars, sceneVars, historyVars, NoticeInv,
               Current, ManagerInv, WatchInv, NothingRunsUnwatched, Watching, PlannedInv,
               PlanTypeOK
<1>18. CASE StopExecution
  BY <1>18 DEF StopExecution, Goto, Manager!Complete, managerVars, flagVars, sceneVars,
               historyVars, NoticeInv, Current, ManagerInv, WatchInv, NothingRunsUnwatched,
               Watching, PlannedInv, PlanTypeOK
<1>19. CASE JoinExecution
  BY <1>19 DEF JoinExecution, Goto, managerVars, flagVars, sceneVars, historyVars, NoticeInv,
               Current, ManagerInv, WatchInv, NothingRunsUnwatched, Watching, PlannedInv,
               PlanTypeOK
<1>20. CASE Decide
  BY <1>20 DEF Decide, Goto, managerVars, flagVars, sceneVars, NoticeInv, Current, ManagerInv,
               WatchInv, NothingRunsUnwatched, Watching, PlannedInv, PlanTypeOK
<1>21. CASE NextPart
  BY <1>21 DEF NextPart, Manager!NextPart, flagVars, helperVars, sceneVars, historyVars,
               NoticeInv, Current, ManagerInv, WatchInv, NothingRunsUnwatched, Watching,
               PlannedInv, PlanTypeOK
<1>22. CASE successfulTrajectorySegmentExecution
  <2>1. /\ executing /\ part = -1 /\ begun /\ index \notin finished
        /\ finished' = finished \cup {index}
        /\ UNCHANGED <<executing, complete, index, begun, part>>
    BY <1>22 DEF successfulTrajectorySegmentExecution, Manager!ReportPart
  <2>2. UNCHANGED <<pc, error_code, parts, snapshot, bad, unannounced, changes, dropped>>
    BY <1>22 DEF successfulTrajectorySegmentExecution, helperVars, sceneVars
  <2>3. PICK failed \in BOOLEAN :
          /\ preempt_' = (preempt_ \/ failed)
          /\ path_became_invalid_' =
               (path_became_invalid_
                  \/ (~failed /\ index < parts /\ ~isRemainingPathValid(index + 1)))
    BY <1>22 DEF successfulTrajectorySegmentExecution, Fails
  <2>4. Current' = index + 1
    BY <2>1 DEF Current
  <2>5. ASSUME index + 1 \in bad, ~snapshot, Monitored
        PROVE  preempt_' \/ path_became_invalid_'
    <3>1. index \in Nat /\ index < parts
      BY <2>5 DEF ManagerInv, PlanTypeOK
    <3>2. ~isRemainingPathValid(index + 1)
      BY <2>5, <3>1 DEF isRemainingPathValid
    <3> QED
      BY <2>3, <3>1, <3>2
  <2> QED
    BY <2>2, <2>4, <2>5 DEF NoticeInv
<1>23. CASE doneWithTrajectoryExecution
  BY <1>23 DEF doneWithTrajectoryExecution, Manager!Finish, helperVars, sceneVars, historyVars,
               NoticeInv, Current, ManagerInv, WatchInv, NothingRunsUnwatched, Watching,
               PlannedInv, PlanTypeOK
<1>24. CASE ChangeScene
  BY <1>24 DEF ChangeScene, managerVars, flagVars, helperVars, historyVars, NoticeInv, Current,
               ManagerInv, WatchInv, NothingRunsUnwatched, Watching, PlannedInv, PlanTypeOK
<1>25. CASE planningSceneUpdatedCallback
  BY <1>25 DEF planningSceneUpdatedCallback, managerVars, helperVars, historyVars, NoticeInv,
               Current, ManagerInv, WatchInv, NothingRunsUnwatched, Watching, PlannedInv,
               PlanTypeOK
<1>26. CASE BeginPart \/ SkipPart \/ EndPart \/ ComeToEnd \/ ForeignStop \/ ForeignClear
  <2>1. UNCHANGED <<executing, index, finished, preempt_, new_scene_update_,
                    path_became_invalid_, pc, error_code, snapshot, bad, unannounced, dropped>>
    BY <1>26 DEF BeginPart, SkipPart, EndPart, ComeToEnd, ForeignStop, ForeignClear,
                 Manager!BeginPart, flagVars, helperVars, sceneVars, historyVars,
                 Manager!SkipPart, Manager!EndPart, Manager!Complete, managerVars
  <2> QED
    BY <2>1 DEF NoticeInv, Current, NothingRunsUnwatched
<1> QED
  BY <1>1, <1>2, <1>3, <1>4, <1>5, <1>6, <1>7, <1>8, <1>9, <1>10, <1>11, <1>12, <1>13, <1>14,
     <1>15, <1>16, <1>17, <1>18, <1>19, <1>20, <1>21, <1>22, <1>23, <1>24, <1>25, <1>26
     DEF PlanNext, planAndExecuteHelper, executeAndMonitor, ExecutionThread, Environment

(* No step loses a request that must stop the plan.                        *)
LEMMA RequestStep ==
  ASSUME PlanTypeOK, WatchInv, RequestInv, PlanNext
  PROVE  RequestInv'
<1>1. CASE \E diff \in BOOLEAN : planAndExecute(diff)
  BY <1>1 DEF planAndExecute, Goto, managerVars, flagVars, RequestInv, WatchInv,
              NothingRunsUnwatched, Watching, PlanTypeOK
<1>2. CASE stop
  BY <1>2 DEF stop, managerVars, helperVars, sceneVars, RequestInv, WatchInv,
              NothingRunsUnwatched, Watching, PlanTypeOK
<1>3. CASE Return
  BY <1>3 DEF Return, Goto, managerVars, flagVars, RequestInv, WatchInv, NothingRunsUnwatched,
              Watching, PlanTypeOK
<1>4. CASE DiscardOldRequest
  BY <1>4 DEF DiscardOldRequest, Goto, managerVars, sceneVars, RequestInv, WatchInv,
              NothingRunsUnwatched, Watching, PlanTypeOK
<1>5. CASE BeginAttempt
  BY <1>5 DEF BeginAttempt, Goto, managerVars, sceneVars, historyVars, RequestInv, WatchInv,
              NothingRunsUnwatched, Watching, PlanTypeOK
<1>6. CASE Plan
  BY <1>6 DEF Plan, Goto, managerVars, flagVars, historyVars, RequestInv, WatchInv,
              NothingRunsUnwatched, Watching, PlanTypeOK
<1>7. CASE JudgePlan
  BY <1>7 DEF JudgePlan, Goto, TakeRequest, Again, managerVars, sceneVars, historyVars,
              RequestInv, WatchInv, NothingRunsUnwatched, Watching, PlanTypeOK
<1>8. CASE BeforeExecution
  BY <1>8 DEF BeforeExecution, Goto, TakeRequest, managerVars, sceneVars, historyVars,
              RequestInv, WatchInv, NothingRunsUnwatched, Watching, PlanTypeOK
<1>9. CASE JudgeExecution
  BY <1>9 DEF JudgeExecution, Goto, TakeRequest, Again, managerVars, sceneVars, historyVars,
              RequestInv, WatchInv, NothingRunsUnwatched, Watching, PlanTypeOK
<1>10. CASE Conclude
  BY <1>10 DEF Conclude, Goto, managerVars, flagVars, sceneVars, historyVars, RequestInv,
               WatchInv, NothingRunsUnwatched, Watching, PlanTypeOK
<1>11. CASE Push
  BY <1>11 DEF Push, Goto, Fails, managerVars, sceneVars, RequestInv, WatchInv,
               NothingRunsUnwatched, Watching, PlanTypeOK
<1>12. CASE Execute
  BY <1>12 DEF Execute, Goto, Manager!Execute, managerVars, sceneVars, historyVars, RequestInv,
               WatchInv, NothingRunsUnwatched, Watching, PlanTypeOK
<1>13. CASE BeginMonitoring
  BY <1>13 DEF BeginMonitoring, Goto, managerVars, sceneVars, RequestInv, WatchInv,
               NothingRunsUnwatched, Watching, PlanTypeOK
<1>14. CASE MonitorTest
  BY <1>14 DEF MonitorTest, Goto, managerVars, flagVars, sceneVars, historyVars, RequestInv,
               WatchInv, NothingRunsUnwatched, Watching, PlanTypeOK
<1>15. CASE LookForUpdate
  BY <1>15 DEF LookForUpdate, Goto, managerVars, sceneVars, historyVars, RequestInv, WatchInv,
               NothingRunsUnwatched, Watching, PlanTypeOK
<1>16. CASE ValidatePath
  BY <1>16 DEF ValidatePath, Goto, isRemainingPathValid, managerVars, sceneVars, RequestInv,
               WatchInv, NothingRunsUnwatched, Watching, PlanTypeOK
<1>17. CASE PollRequest
  BY <1>17 DEF PollRequest, Goto, TakeRequest, managerVars, sceneVars, historyVars, RequestInv,
               WatchInv, NothingRunsUnwatched, Watching, PlanTypeOK
<1>18. CASE StopExecution
  BY <1>18 DEF StopExecution, Goto, Manager!Complete, managerVars, flagVars, sceneVars,
               historyVars, RequestInv, WatchInv, NothingRunsUnwatched, Watching, PlanTypeOK
<1>19. CASE JoinExecution
  BY <1>19 DEF JoinExecution, Goto, managerVars, flagVars, sceneVars, historyVars, RequestInv,
               WatchInv, NothingRunsUnwatched, Watching, PlanTypeOK
<1>20. CASE Decide
  BY <1>20 DEF Decide, Goto, managerVars, flagVars, sceneVars, RequestInv, WatchInv,
               NothingRunsUnwatched, Watching, PlanTypeOK
<1>21. CASE successfulTrajectorySegmentExecution
  BY <1>21 DEF successfulTrajectorySegmentExecution, Manager!ReportPart, Fails,
               isRemainingPathValid, helperVars, sceneVars, RequestInv, WatchInv,
               NothingRunsUnwatched, Watching, PlanTypeOK
<1>22. CASE doneWithTrajectoryExecution
  BY <1>22 DEF doneWithTrajectoryExecution, Manager!Finish, helperVars, sceneVars, historyVars,
               RequestInv, WatchInv, NothingRunsUnwatched, Watching, PlanTypeOK
<1>23. CASE NextPart \/ BeginPart \/ SkipPart \/ EndPart \/ ComeToEnd \/ ChangeScene
            \/ planningSceneUpdatedCallback \/ ForeignStop \/ ForeignClear
  <2>1. UNCHANGED <<executing, preempt_, pc, preempt_requested, error_code, must_stop, dropped>>
    BY <1>23 DEF NextPart, BeginPart, SkipPart, EndPart, ComeToEnd, ChangeScene,
                 planningSceneUpdatedCallback, ForeignStop, ForeignClear, Manager!NextPart,
                 flagVars, helperVars, sceneVars, historyVars, Manager!BeginPart,
                 Manager!SkipPart, Manager!EndPart, Manager!Complete, managerVars
  <2> QED
    BY <2>1 DEF RequestInv, NothingRunsUnwatched
<1> QED
  BY <1>1, <1>2, <1>3, <1>4, <1>5, <1>6, <1>7, <1>8, <1>9, <1>10, <1>11, <1>12, <1>13, <1>14,
     <1>15, <1>16, <1>17, <1>18, <1>19, <1>20, <1>21, <1>22, <1>23
     DEF PlanNext, planAndExecuteHelper, executeAndMonitor, ExecutionThread, Environment

(* The execution succeeds, and is reported so, only with all parts         *)
(* reported.                                                               *)
LEMMA WholeStep ==
  ASSUME PlanTypeOK, ManagerInv, WatchInv, WholeInv, PlanNext
  PROVE  WholeInv'
<1>1. CASE \E diff \in BOOLEAN : planAndExecute(diff)
  BY <1>1 DEF planAndExecute, Goto, managerVars, flagVars, WholeInv, Whole, ManagerInv, WatchInv,
              NothingRunsUnwatched, Watching, PlanTypeOK
<1>2. CASE Return
  BY <1>2 DEF Return, Goto, managerVars, flagVars, WholeInv, Whole, ManagerInv, WatchInv,
              NothingRunsUnwatched, Watching, PlanTypeOK
<1>3. CASE DiscardOldRequest
  BY <1>3 DEF DiscardOldRequest, Goto, managerVars, sceneVars, WholeInv, Whole, ManagerInv,
              WatchInv, NothingRunsUnwatched, Watching, PlanTypeOK
<1>4. CASE BeginAttempt
  BY <1>4 DEF BeginAttempt, Goto, managerVars, sceneVars, historyVars, WholeInv, Whole,
              ManagerInv, WatchInv, NothingRunsUnwatched, Watching, PlanTypeOK
<1>5. CASE Plan
  BY <1>5 DEF Plan, Goto, managerVars, flagVars, historyVars, WholeInv, Whole, ManagerInv,
              WatchInv, NothingRunsUnwatched, Watching, PlanTypeOK
<1>6. CASE JudgePlan
  BY <1>6 DEF JudgePlan, Goto, TakeRequest, Again, managerVars, sceneVars, historyVars, WholeInv,
              Whole, ManagerInv, WatchInv, NothingRunsUnwatched, Watching, PlanTypeOK
<1>7. CASE BeforeExecution
  BY <1>7 DEF BeforeExecution, Goto, TakeRequest, managerVars, sceneVars, historyVars, WholeInv,
              Whole, ManagerInv, WatchInv, NothingRunsUnwatched, Watching, PlanTypeOK
<1>8. CASE JudgeExecution
  BY <1>8 DEF JudgeExecution, Goto, TakeRequest, Again, managerVars, sceneVars, historyVars,
              WholeInv, Whole, ManagerInv, WatchInv, NothingRunsUnwatched, Watching, PlanTypeOK
<1>9. CASE Conclude
  BY <1>9 DEF Conclude, Goto, managerVars, flagVars, sceneVars, historyVars, WholeInv, Whole,
              ManagerInv, WatchInv, NothingRunsUnwatched, Watching, PlanTypeOK
<1>10. CASE Push
  BY <1>10 DEF Push, Goto, Fails, managerVars, sceneVars, WholeInv, Whole, ManagerInv, WatchInv,
               NothingRunsUnwatched, Watching, PlanTypeOK
<1>11. CASE Execute
  <2>1. pc = "execute" /\ pc' = "started" /\ reported = {} /\ ~executing /\ ~execution_complete_
    BY <1>11 DEF Execute, Goto, WholeInv, WatchInv, NothingRunsUnwatched, Watching
  <2>2. UNCHANGED <<index, begun, part, finished, error_code, parts, foreign, reported,
                    path_became_invalid_, preempt_requested>>
    BY <1>11 DEF Execute, Manager!Execute, managerVars, sceneVars, historyVars
  <2>3. finished = {}
    BY <2>1 DEF ManagerInv
  <2>4. executing' => ~complete' /\ reported' = finished'
    BY <1>11, <2>1, <2>2, <2>3 DEF Execute, Manager!Execute, managerVars
  <2>5. execution_complete_' => status' = "ABORTED"
    BY <1>11, <2>1 DEF Execute
  <2> QED
    BY <2>1, <2>2, <2>4, <2>5 DEF WholeInv
<1>12. CASE BeginMonitoring
  BY <1>12 DEF BeginMonitoring, Goto, managerVars, sceneVars, WholeInv, Whole, ManagerInv,
               WatchInv, NothingRunsUnwatched, Watching, PlanTypeOK
<1>13. CASE MonitorTest
  BY <1>13 DEF MonitorTest, Goto, managerVars, flagVars, sceneVars, historyVars, WholeInv, Whole,
               ManagerInv, WatchInv, NothingRunsUnwatched, Watching, PlanTypeOK
<1>14. CASE LookForUpdate
  BY <1>14 DEF LookForUpdate, Goto, managerVars, sceneVars, historyVars, WholeInv, Whole,
               ManagerInv, WatchInv, NothingRunsUnwatched, Watching, PlanTypeOK
<1>15. CASE ValidatePath
  BY <1>15 DEF ValidatePath, Goto, isRemainingPathValid, managerVars, sceneVars, WholeInv, Whole,
               ManagerInv, WatchInv, NothingRunsUnwatched, Watching, PlanTypeOK
<1>16. CASE PollRequest
  BY <1>16 DEF PollRequest, Goto, TakeRequest, managerVars, sceneVars, historyVars, WholeInv,
               Whole, ManagerInv, WatchInv, NothingRunsUnwatched, Watching, PlanTypeOK
<1>17. CASE StopExecution
  BY <1>17 DEF StopExecution, Goto, Manager!Complete, managerVars, flagVars, sceneVars,
               historyVars, WholeInv, Whole, ManagerInv, WatchInv, NothingRunsUnwatched,
               Watching, PlanTypeOK
<1>18. CASE JoinExecution
  BY <1>18 DEF JoinExecution, Goto, managerVars, flagVars, sceneVars, historyVars, WholeInv,
               Whole, ManagerInv, WatchInv, NothingRunsUnwatched, Watching, PlanTypeOK
<1>19. CASE Decide
  BY <1>19 DEF Decide, Goto, managerVars, flagVars, sceneVars, WholeInv, Whole, ManagerInv,
               WatchInv, NothingRunsUnwatched, Watching, PlanTypeOK
<1>20. CASE SkipPart
  BY <1>20 DEF SkipPart, Manager!SkipPart, flagVars, helperVars, sceneVars, historyVars,
               WholeInv, Whole, ManagerInv, WatchInv, NothingRunsUnwatched, Watching, PlanTypeOK
<1>21. CASE successfulTrajectorySegmentExecution
  BY <1>21 DEF successfulTrajectorySegmentExecution, Manager!ReportPart, Fails,
               isRemainingPathValid, helperVars, sceneVars, WholeInv, Whole, ManagerInv,
               WatchInv, NothingRunsUnwatched, Watching, PlanTypeOK
<1>22. CASE ComeToEnd
  BY <1>22 DEF ComeToEnd, Manager!Complete, flagVars, helperVars, sceneVars, historyVars,
               WholeInv, Whole, ManagerInv, WatchInv, NothingRunsUnwatched, Watching, PlanTypeOK
<1>23. CASE doneWithTrajectoryExecution
  BY <1>23 DEF doneWithTrajectoryExecution, Manager!Finish, helperVars, sceneVars, historyVars,
               WholeInv, Whole, ManagerInv, WatchInv, NothingRunsUnwatched, Watching, PlanTypeOK
<1>24. CASE ForeignStop
  BY <1>24 DEF ForeignStop, Manager!Complete, StoppedStatus, flagVars, helperVars, sceneVars,
               WholeInv, Whole, ManagerInv, WatchInv, NothingRunsUnwatched, Watching, PlanTypeOK
<1>25. CASE ForeignClear
  BY <1>25 DEF ForeignClear, managerVars, flagVars, helperVars, sceneVars, WholeInv, Whole,
               ManagerInv, WatchInv, NothingRunsUnwatched, Watching, PlanTypeOK
<1>26. CASE stop \/ NextPart \/ BeginPart \/ EndPart \/ ChangeScene
            \/ planningSceneUpdatedCallback
  <2>1. UNCHANGED <<executing, complete, finished, status, execution_complete_,
                    path_became_invalid_, pc, preempt_requested, error_code, parts, foreign,
                    reported>>
    BY <1>26 DEF stop, NextPart, BeginPart, EndPart, ChangeScene, planningSceneUpdatedCallback,
                 managerVars, helperVars, sceneVars, Manager!NextPart, flagVars, historyVars,
                 Manager!BeginPart, Manager!EndPart
  <2> QED
    BY <2>1 DEF WholeInv, Whole, NothingRunsUnwatched
<1> QED
  BY <1>1, <1>2, <1>3, <1>4, <1>5, <1>6, <1>7, <1>8, <1>9, <1>10, <1>11, <1>12, <1>13, <1>14,
     <1>15, <1>16, <1>17, <1>18, <1>19, <1>20, <1>21, <1>22, <1>23, <1>24, <1>25, <1>26
     DEF PlanNext, planAndExecuteHelper, executeAndMonitor, ExecutionThread, Environment

(* A side effect that failed is a request.                                 *)
LEMMA BrokenStep ==
  ASSUME PlanTypeOK, WatchInv, BrokenInv, PlanNext
  PROVE  BrokenInv'
<1>1. CASE \E diff \in BOOLEAN : planAndExecute(diff)
  BY <1>1 DEF planAndExecute, Goto, managerVars, flagVars, BrokenInv, WatchInv,
              NothingRunsUnwatched, Watching, PlanTypeOK
<1>2. CASE stop
  BY <1>2 DEF stop, managerVars, helperVars, sceneVars, BrokenInv, WatchInv,
              NothingRunsUnwatched, Watching, PlanTypeOK
<1>3. CASE Return
  BY <1>3 DEF Return, Goto, managerVars, flagVars, BrokenInv, WatchInv, NothingRunsUnwatched,
              Watching, PlanTypeOK
<1>4. CASE DiscardOldRequest
  BY <1>4 DEF DiscardOldRequest, Goto, managerVars, sceneVars, BrokenInv, WatchInv,
              NothingRunsUnwatched, Watching, PlanTypeOK
<1>5. CASE BeginAttempt
  BY <1>5 DEF BeginAttempt, Goto, managerVars, sceneVars, historyVars, BrokenInv, WatchInv,
              NothingRunsUnwatched, Watching, PlanTypeOK
<1>6. CASE Plan
  BY <1>6 DEF Plan, Goto, managerVars, flagVars, historyVars, BrokenInv, WatchInv,
              NothingRunsUnwatched, Watching, PlanTypeOK
<1>7. CASE JudgePlan
  BY <1>7 DEF JudgePlan, Goto, TakeRequest, Again, managerVars, sceneVars, historyVars,
              BrokenInv, WatchInv, NothingRunsUnwatched, Watching, PlanTypeOK
<1>8. CASE BeforeExecution
  BY <1>8 DEF BeforeExecution, Goto, TakeRequest, managerVars, sceneVars, historyVars, BrokenInv,
              WatchInv, NothingRunsUnwatched, Watching, PlanTypeOK
<1>9. CASE JudgeExecution
  BY <1>9 DEF JudgeExecution, Goto, TakeRequest, Again, managerVars, sceneVars, historyVars,
              BrokenInv, WatchInv, NothingRunsUnwatched, Watching, PlanTypeOK
<1>10. CASE Conclude
  BY <1>10 DEF Conclude, Goto, managerVars, flagVars, sceneVars, historyVars, BrokenInv,
               WatchInv, NothingRunsUnwatched, Watching, PlanTypeOK
<1>11. CASE Push
  BY <1>11 DEF Push, Goto, Fails, managerVars, sceneVars, BrokenInv, WatchInv,
               NothingRunsUnwatched, Watching, PlanTypeOK
<1>12. CASE Execute
  BY <1>12 DEF Execute, Goto, Manager!Execute, managerVars, sceneVars, historyVars, BrokenInv,
               WatchInv, NothingRunsUnwatched, Watching, PlanTypeOK
<1>13. CASE BeginMonitoring
  BY <1>13 DEF BeginMonitoring, Goto, managerVars, sceneVars, BrokenInv, WatchInv,
               NothingRunsUnwatched, Watching, PlanTypeOK
<1>14. CASE MonitorTest
  BY <1>14 DEF MonitorTest, Goto, managerVars, flagVars, sceneVars, historyVars, BrokenInv,
               WatchInv, NothingRunsUnwatched, Watching, PlanTypeOK
<1>15. CASE LookForUpdate
  BY <1>15 DEF LookForUpdate, Goto, managerVars, sceneVars, historyVars, BrokenInv, WatchInv,
               NothingRunsUnwatched, Watching, PlanTypeOK
<1>16. CASE ValidatePath
  BY <1>16 DEF ValidatePath, Goto, isRemainingPathValid, managerVars, sceneVars, BrokenInv,
               WatchInv, NothingRunsUnwatched, Watching, PlanTypeOK
<1>17. CASE PollRequest
  BY <1>17 DEF PollRequest, Goto, TakeRequest, managerVars, sceneVars, historyVars, BrokenInv,
               WatchInv, NothingRunsUnwatched, Watching, PlanTypeOK
<1>18. CASE StopExecution
  BY <1>18 DEF StopExecution, Goto, Manager!Complete, managerVars, flagVars, sceneVars,
               historyVars, BrokenInv, WatchInv, NothingRunsUnwatched, Watching, PlanTypeOK
<1>19. CASE JoinExecution
  BY <1>19 DEF JoinExecution, Goto, managerVars, flagVars, sceneVars, historyVars, BrokenInv,
               WatchInv, NothingRunsUnwatched, Watching, PlanTypeOK
<1>20. CASE Decide
  BY <1>20 DEF Decide, Goto, managerVars, flagVars, sceneVars, BrokenInv, WatchInv,
               NothingRunsUnwatched, Watching, PlanTypeOK
<1>21. CASE successfulTrajectorySegmentExecution
  BY <1>21 DEF successfulTrajectorySegmentExecution, Manager!ReportPart, Fails,
               isRemainingPathValid, helperVars, sceneVars, BrokenInv, WatchInv,
               NothingRunsUnwatched, Watching, PlanTypeOK
<1>22. CASE doneWithTrajectoryExecution
  BY <1>22 DEF doneWithTrajectoryExecution, Manager!Finish, helperVars, sceneVars, historyVars,
               BrokenInv, WatchInv, NothingRunsUnwatched, Watching, PlanTypeOK
<1>23. CASE NextPart \/ BeginPart \/ SkipPart \/ EndPart \/ ComeToEnd \/ ChangeScene
            \/ planningSceneUpdatedCallback \/ ForeignStop \/ ForeignClear
  <2>1. UNCHANGED <<executing, preempt_, pc, must_stop, broken>>
    BY <1>23 DEF NextPart, BeginPart, SkipPart, EndPart, ComeToEnd, ChangeScene,
                 planningSceneUpdatedCallback, ForeignStop, ForeignClear, Manager!NextPart,
                 flagVars, helperVars, sceneVars, historyVars, Manager!BeginPart,
                 Manager!SkipPart, Manager!EndPart, Manager!Complete, managerVars
  <2> QED
    BY <2>1 DEF BrokenInv, NothingRunsUnwatched
<1> QED
  BY <1>1, <1>2, <1>3, <1>4, <1>5, <1>6, <1>7, <1>8, <1>9, <1>10, <1>11, <1>12, <1>13, <1>14,
     <1>15, <1>16, <1>17, <1>18, <1>19, <1>20, <1>21, <1>22, <1>23
     DEF PlanNext, planAndExecuteHelper, executeAndMonitor, ExecutionThread, Environment

\* Steps of the plan while a preempt request comes only from a cancel of its goal.
OwnNext ==
  \/ \E diff \in BOOLEAN : planAndExecute(diff)
  \/ (stop /\ canceled) \/ Return
  \/ planAndExecuteHelper \/ ExecutionThread \/ Environment

(* The plan is preempted on request only, or by a side effect that failed. *)
LEMMA OwnStep ==
  ASSUME PlanTypeOK, OwnRequests, UNCHANGED canceled, OwnNext
  PROVE  OwnRequests'
<1>1. CASE \E diff \in BOOLEAN : planAndExecute(diff)
  BY <1>1 DEF planAndExecute, Goto, managerVars, flagVars, OwnRequests, PlanTypeOK
<1>2. CASE stop /\ canceled
  BY <1>2 DEF stop, managerVars, helperVars, sceneVars, OwnRequests, PlanTypeOK
<1>3. CASE Return
  BY <1>3 DEF Return, Goto, managerVars, flagVars, OwnRequests, PlanTypeOK
<1>4. CASE DiscardOldRequest
  BY <1>4 DEF DiscardOldRequest, Goto, managerVars, sceneVars, OwnRequests, PlanTypeOK
<1>5. CASE BeginAttempt
  BY <1>5 DEF BeginAttempt, Goto, managerVars, sceneVars, historyVars, OwnRequests, PlanTypeOK
<1>6. CASE Plan
  BY <1>6 DEF Plan, Goto, managerVars, flagVars, historyVars, OwnRequests, PlanTypeOK
<1>7. CASE JudgePlan
  BY <1>7 DEF JudgePlan, Goto, TakeRequest, Again, managerVars, sceneVars, historyVars,
              OwnRequests, PlanTypeOK
<1>8. CASE BeforeExecution
  BY <1>8 DEF BeforeExecution, Goto, TakeRequest, managerVars, sceneVars, historyVars,
              OwnRequests, PlanTypeOK
<1>9. CASE JudgeExecution
  BY <1>9 DEF JudgeExecution, Goto, TakeRequest, Again, managerVars, sceneVars, historyVars,
              OwnRequests, PlanTypeOK
<1>10. CASE Conclude
  BY <1>10 DEF Conclude, Goto, managerVars, flagVars, sceneVars, historyVars, OwnRequests,
               PlanTypeOK
<1>11. CASE Push
  BY <1>11 DEF Push, Goto, Fails, managerVars, sceneVars, OwnRequests, PlanTypeOK
<1>12. CASE Execute
  BY <1>12 DEF Execute, Goto, Manager!Execute, managerVars, sceneVars, historyVars, OwnRequests,
               PlanTypeOK
<1>13. CASE BeginMonitoring
  BY <1>13 DEF BeginMonitoring, Goto, managerVars, sceneVars, OwnRequests, PlanTypeOK
<1>14. CASE MonitorTest
  BY <1>14 DEF MonitorTest, Goto, managerVars, flagVars, sceneVars, historyVars, OwnRequests,
               PlanTypeOK
<1>15. CASE LookForUpdate
  BY <1>15 DEF LookForUpdate, Goto, managerVars, sceneVars, historyVars, OwnRequests, PlanTypeOK
<1>16. CASE ValidatePath
  BY <1>16 DEF ValidatePath, Goto, isRemainingPathValid, managerVars, sceneVars, OwnRequests,
               PlanTypeOK
<1>17. CASE PollRequest
  BY <1>17 DEF PollRequest, Goto, TakeRequest, managerVars, sceneVars, historyVars, OwnRequests,
               PlanTypeOK
<1>18. CASE StopExecution
  BY <1>18 DEF StopExecution, Goto, Manager!Complete, managerVars, flagVars, sceneVars,
               historyVars, OwnRequests, PlanTypeOK
<1>19. CASE JoinExecution
  BY <1>19 DEF JoinExecution, Goto, managerVars, flagVars, sceneVars, historyVars, OwnRequests,
               PlanTypeOK
<1>20. CASE Decide
  BY <1>20 DEF Decide, Goto, managerVars, flagVars, sceneVars, OwnRequests, PlanTypeOK
<1>21. CASE successfulTrajectorySegmentExecution
  BY <1>21 DEF successfulTrajectorySegmentExecution, Manager!ReportPart, Fails,
               isRemainingPathValid, helperVars, sceneVars, OwnRequests, PlanTypeOK
<1>22. CASE NextPart \/ BeginPart \/ SkipPart \/ EndPart \/ ComeToEnd
            \/ doneWithTrajectoryExecution \/ ChangeScene \/ planningSceneUpdatedCallback
            \/ ForeignStop \/ ForeignClear
  <2>1. UNCHANGED <<preempt_, pc, preempt_requested, error_code, broken>>
    BY <1>22 DEF NextPart, BeginPart, SkipPart, EndPart, ComeToEnd, doneWithTrajectoryExecution,
                 ChangeScene, planningSceneUpdatedCallback, ForeignStop, ForeignClear,
                 Manager!NextPart, flagVars, helperVars, sceneVars, historyVars,
                 Manager!BeginPart, Manager!SkipPart, Manager!EndPart, Manager!Complete,
                 Manager!Finish, managerVars
  <2> QED
    BY <2>1 DEF OwnRequests
<1> QED
  BY <1>1, <1>2, <1>3, <1>4, <1>5, <1>6, <1>7, <1>8, <1>9, <1>10, <1>11, <1>12, <1>13, <1>14,
     <1>15, <1>16, <1>17, <1>18, <1>19, <1>20, <1>21, <1>22
     DEF OwnNext, planAndExecuteHelper, executeAndMonitor, ExecutionThread, Environment

(* Where the plan is: only its own thread moves it on, and only the        *)
(* action's thread begins and ends it.                                     *)
LEMMA HelperMoves ==
  /\ planAndExecuteHelper => pc # "idle" /\ pc' # "idle"
  /\ ExecutionThread \/ Environment \/ stop => pc' = pc
  /\ \A diff : planAndExecute(diff) => pc = "idle" /\ pc' = "entered"
  /\ Return => pc = "result" /\ pc' = "idle"
  /\ planAndExecuteHelper \/ ExecutionThread \/ Environment => (broken => broken')
<1>1. planAndExecuteHelper => pc # "idle" /\ pc' # "idle"
  BY DEF planAndExecuteHelper, executeAndMonitor, Goto, Again, DiscardOldRequest, BeginAttempt,
         Plan, JudgePlan, BeforeExecution, JudgeExecution, Conclude, Push, Execute,
         BeginMonitoring, MonitorTest, LookForUpdate, ValidatePath, PollRequest, StopExecution,
         JoinExecution, Decide
<1>2. ExecutionThread \/ Environment \/ stop => pc' = pc
  BY DEF ExecutionThread, Environment, helperVars, stop, NextPart, BeginPart, SkipPart, EndPart,
         successfulTrajectorySegmentExecution, ComeToEnd, doneWithTrajectoryExecution,
         ChangeScene, planningSceneUpdatedCallback, ForeignStop, ForeignClear
<1>3. \A diff : planAndExecute(diff) => pc = "idle" /\ pc' = "entered"
  BY DEF planAndExecute, Goto
<1>4. Return => pc = "result" /\ pc' = "idle"
  BY DEF Return, Goto
<1>5. planAndExecuteHelper => UNCHANGED broken
  BY DEF planAndExecuteHelper, executeAndMonitor, historyVars, DiscardOldRequest, BeginAttempt,
         Plan, JudgePlan, BeforeExecution, JudgeExecution, Conclude, Push, Execute,
         BeginMonitoring, MonitorTest, LookForUpdate, ValidatePath, PollRequest, StopExecution,
         JoinExecution, Decide
<1>6. ExecutionThread \/ Environment => (broken => broken')
  BY DEF ExecutionThread, Environment, historyVars, NextPart, BeginPart, SkipPart, EndPart,
         successfulTrajectorySegmentExecution, ComeToEnd, doneWithTrajectoryExecution,
         ChangeScene, planningSceneUpdatedCallback, ForeignStop, ForeignClear
<1> QED
  BY <1>1, <1>2, <1>3, <1>4, <1>5, <1>6

(* Only execute() begins an execution.                                     *)
LEMMA OnlyExecuteBegins ==
  ASSUME PlanTypeOK, PlanNext, ~executing, executing'
  PROVE  pc = "execute"
<1>1. CASE Execute
  BY <1>1 DEF Execute, Goto
<1>2. CASE stop \/ Return \/ \E diff \in BOOLEAN : planAndExecute(diff)
  BY <1>2 DEF stop, Return, planAndExecute, managerVars
<1>3. CASE planAndExecuteHelper /\ ~Execute
  BY <1>3 DEF planAndExecuteHelper, executeAndMonitor, managerVars, Manager!Complete,
              DiscardOldRequest, BeginAttempt, Plan, JudgePlan, BeforeExecution, JudgeExecution,
              Conclude, Push, BeginMonitoring, MonitorTest, LookForUpdate, ValidatePath,
              PollRequest, StopExecution, JoinExecution, Decide
<1>4. CASE ExecutionThread
  BY <1>4 DEF ExecutionThread, Manager!NextPart, Manager!BeginPart, Manager!SkipPart,
              Manager!EndPart, Manager!ReportPart, Manager!Complete, Manager!Finish,
              NextPart, BeginPart, SkipPart, EndPart, successfulTrajectorySegmentExecution,
              ComeToEnd, doneWithTrajectoryExecution
<1>5. CASE Environment
  BY <1>5 DEF Environment, managerVars, Manager!Complete, ChangeScene, planningSceneUpdatedCallback,
              ForeignStop, ForeignClear
<1> QED
  BY <1>1, <1>2, <1>3, <1>4, <1>5 DEF PlanNext

-----------------------------------------------------------------------------
(* Steps of the action.                                                    *)

PlanInv ==
  /\ PlanTypeOK /\ ManagerInv /\ AttemptsInv /\ WatchInv /\ NoticeInv /\ PlannedInv
  /\ RequestInv /\ WholeInv /\ BrokenInv

(* The invariant of the plan is kept by its steps.                         *)
LEMMA PlanStep ==
  ASSUME PlanInv, PlanNext \/ UNCHANGED planVars
  PROVE  PlanInv'
<1>1. CASE PlanNext
  <2>1. PlanTypeOK'
    <3>1. ManagerTypes /\ FlagTypes /\ CodeTypes /\ NumberTypes /\ SetTypes
      BY TypeParts DEF PlanInv
    <3>2. ManagerTypes' /\ FlagTypes' /\ CodeTypes' /\ NumberTypes' /\ SetTypes'
      BY <1>1, <3>1, ManagerTypesStep, FlagTypesStep, CodeTypesStep, NumberTypesStep,
         SetTypesStep DEF PlanInv
    <3> QED
      BY <3>2 DEF PlanTypeOK, ManagerTypes, FlagTypes, CodeTypes, NumberTypes, SetTypes
  <2>2. ManagerInv' /\ AttemptsInv' /\ WatchInv' /\ NoticeInv' /\ PlannedInv'
    BY <1>1, ManagerStepLemma, AttemptsStep, WatchStep, NoticeStep, PlannedStep DEF PlanInv
  <2>3. RequestInv' /\ WholeInv' /\ BrokenInv'
    BY <1>1, RequestStep, WholeStep, BrokenStep DEF PlanInv
  <2> QED
    BY <2>1, <2>2, <2>3 DEF PlanInv
<1>2. CASE UNCHANGED planVars
  <2>1. UNCHANGED <<managerVars, flagVars, helperVars, sceneVars, historyVars>>
    BY <1>2 DEF planVars
  <2>2. PlanTypeOK'
    BY <2>1 DEF PlanInv, PlanTypeOK, managerVars, flagVars, helperVars, sceneVars, historyVars
  <2>3. ManagerInv' /\ AttemptsInv' /\ WatchInv' /\ PlannedInv'
    BY <2>1 DEF PlanInv, ManagerInv, AttemptsInv, WatchInv, NothingRunsUnwatched, PlannedInv,
                managerVars, flagVars, helperVars, sceneVars
  <2>4. NoticeInv'
    BY <2>1 DEF PlanInv, NoticeInv, Current, managerVars, flagVars, helperVars, sceneVars,
                historyVars
  <2>5. RequestInv' /\ BrokenInv'
    BY <2>1 DEF PlanInv, RequestInv, BrokenInv, flagVars, helperVars, historyVars
  <2>6. WholeInv'
    BY <2>1 DEF PlanInv, WholeInv, Whole, managerVars, flagVars, helperVars, historyVars
  <2> QED
    BY <2>2, <2>3, <2>4, <2>5, <2>6 DEF PlanInv
<1> QED
  BY <1>1, <1>2

(* Every step of the action is one of the plan, or leaves the plan alone.  *)
LEMMA StepOfPlan ==
  ASSUME [Next]_vars
  PROVE  PlanNext \/ UNCHANGED planVars
<1>1. CASE SendGoal \/ CancelGoal \/ UNCHANGED vars
  BY <1>1 DEF SendGoal, CancelGoal, vars
<1>2. CASE EndPreempt
  BY <1>2 DEF EndPreempt, PlanNext
<1>3. CASE executeMoveCallback
  BY <1>3 DEF executeMoveCallback, AcceptGoal, TestPreempt, executeMoveCallbackPlanOnly,
              executeMoveCallbackPlanAndExecute, PlanExecutionReturns, SetResult, ResetRequest,
              PlanNext
<1>4. CASE HelperStep \/ ManagerStep \/ EnvironmentStep
  BY <1>4 DEF HelperStep, ManagerStep, EnvironmentStep, Within, PlanNext
<1> QED
  BY <1>1, <1>2, <1>3, <1>4 DEF Next

ActionTypes ==
  /\ goal \in {"none", "active", "done"}
  /\ pending \in BOOLEAN /\ callback \in BOOLEAN
  /\ preempt_requested_ \in BOOLEAN
  /\ apc \in {"idle", "accepted", "plan_only", "execute", "executing", "report", "reset"}
  /\ result \in Codes
  /\ goals \in 0 .. MaxGoals /\ cancels \in 0 .. MaxCancels
  /\ canceled \in BOOLEAN /\ planned_only \in BOOLEAN

(* The types of the action and its server are kept.                        *)
LEMMA ActionTypesStep ==
  ASSUME ActionTypes, error_code \in Codes, [Next]_vars
  PROVE  ActionTypes'
<1>1. CASE SendGoal
  <2>1. goals' \in 0 .. MaxGoals /\ cancels' \in 0 .. MaxCancels
    BY <1>1, MoveActionAssumption DEF SendGoal, ActionTypes
  <2>2. /\ callback' \in BOOLEAN /\ canceled' \in BOOLEAN /\ preempt_requested_' \in BOOLEAN
        /\ pending' \in BOOLEAN
    BY <1>1 DEF SendGoal, BeginPreempt, ActionTypes
  <2>3. UNCHANGED <<goal, apc, result, planned_only>>
    BY <1>1 DEF SendGoal
  <2> QED
    BY <2>1, <2>2, <2>3 DEF ActionTypes
<1>2. CASE CancelGoal
  <2>1. goals' \in 0 .. MaxGoals /\ cancels' \in 0 .. MaxCancels
    BY <1>2, MoveActionAssumption DEF CancelGoal, ActionTypes
  <2>2. /\ callback' \in BOOLEAN /\ canceled' \in BOOLEAN /\ preempt_requested_' \in BOOLEAN
        /\ pending' \in BOOLEAN
    BY <1>2 DEF CancelGoal, BeginPreempt, ActionTypes
  <2>3. UNCHANGED <<goal, apc, result, planned_only>>
    BY <1>2 DEF CancelGoal
  <2> QED
    BY <2>1, <2>2, <2>3 DEF ActionTypes
<1>3. CASE EndPreempt
  BY <1>3 DEF EndPreempt, actionVars, ActionTypes
<1>4. CASE AcceptGoal
  BY <1>4 DEF AcceptGoal, AGoto, ActionTypes
<1>5. CASE TestPreempt
  BY <1>5 DEF TestPreempt, AGoto, serverVars, Codes, ActionTypes
<1>6. CASE executeMoveCallbackPlanOnly
  BY <1>6 DEF executeMoveCallbackPlanOnly, AGoto, serverVars, Codes, ActionTypes
<1>7. CASE executeMoveCallbackPlanAndExecute
  BY <1>7 DEF executeMoveCallbackPlanAndExecute, AGoto, serverVars, ActionTypes
<1>8. CASE PlanExecutionReturns
  BY <1>8 DEF PlanExecutionReturns, AGoto, serverVars, ActionTypes
<1>9. CASE SetResult
  BY <1>9 DEF SetResult, AGoto, ActionTypes
<1>10. CASE ResetRequest
  BY <1>10 DEF ResetRequest, AGoto, serverVars, Codes, ActionTypes
<1>11. CASE HelperStep
  BY <1>11 DEF HelperStep, Within, serverVars, actionVars, ActionTypes
<1>12. CASE ManagerStep
  BY <1>12 DEF ManagerStep, Within, serverVars, actionVars, ActionTypes
<1>13. CASE EnvironmentStep
  BY <1>13 DEF EnvironmentStep, Within, serverVars, actionVars, ActionTypes
<1>14. CASE UNCHANGED vars
  BY <1>14 DEF vars, serverVars, actionVars, ActionTypes
<1> QED
  BY <1>1, <1>2, <1>3, <1>4, <1>5, <1>6, <1>7, <1>8, <1>9, <1>10, <1>11, <1>12, <1>13, <1>14
     DEF Next, executeMoveCallback

(* The action plans while the server has a goal, and a cancel is about     *)
(* that goal.                                                              *)
LEMMA ActionStep ==
  ASSUME ActionTypes, ActionInv, [Next]_vars
  PROVE  ActionInv'
<1> USE DEF ActionInv, ActionTypes
<1>1. CASE SendGoal \/ CancelGoal
  <2>1. UNCHANGED <<pc, goal, apc>> /\ (canceled => canceled')
    BY <1>1 DEF SendGoal, CancelGoal, BeginPreempt, planVars, helperVars
  <2>2. /\ callback' => goal = "active" /\ canceled'
        /\ preempt_requested_' => canceled'
    BY <1>1 DEF SendGoal, CancelGoal, BeginPreempt
  <2> QED
    BY <2>1, <2>2
<1>2. CASE EndPreempt
  <2>1. pc' = pc
    BY <1>2, HelperMoves DEF EndPreempt
  <2> QED
    BY <1>2, <2>1 DEF EndPreempt, actionVars
<1>3. CASE AcceptGoal
  BY <1>3 DEF AcceptGoal, AGoto, planVars, helperVars
<1>4. CASE TestPreempt
  BY <1>4 DEF TestPreempt, AGoto, planVars, helperVars, serverVars
<1>5. CASE executeMoveCallbackPlanOnly
  BY <1>5 DEF executeMoveCallbackPlanOnly, AGoto, planVars, helperVars, serverVars
<1>6. CASE executeMoveCallbackPlanAndExecute
  <2>1. pc' = "entered"
    BY <1>6, HelperMoves DEF executeMoveCallbackPlanAndExecute
  <2> QED
    BY <1>6, <2>1 DEF executeMoveCallbackPlanAndExecute, AGoto, serverVars
<1>7. CASE PlanExecutionReturns
  <2>1. pc' = "idle"
    BY <1>7, HelperMoves DEF PlanExecutionReturns
  <2> QED
    BY <1>7, <2>1 DEF PlanExecutionReturns, AGoto, serverVars
<1>8. CASE SetResult
  BY <1>8 DEF SetResult, AGoto, planVars, helperVars
<1>9. CASE ResetRequest
  BY <1>9 DEF ResetRequest, AGoto, planVars, helperVars, serverVars
<1>10. CASE HelperStep \/ ManagerStep \/ EnvironmentStep
  <2>1. pc = "idle" <=> pc' = "idle"
    BY <1>10, HelperMoves DEF HelperStep, ManagerStep, EnvironmentStep, Within
  <2>2. UNCHANGED <<goal, callback, preempt_requested_, apc, canceled>>
    BY <1>10 DEF HelperStep, ManagerStep, EnvironmentStep, Within, serverVars, actionVars
  <2> QED
    BY <2>1, <2>2
<1>11. CASE UNCHANGED vars
  BY <1>11 DEF vars, planVars, helperVars, serverVars, actionVars
<1> QED
  BY <1>1, <1>2, <1>3, <1>4, <1>5, <1>6, <1>7, <1>8, <1>9, <1>10, <1>11
     DEF Next, executeMoveCallback

(* What the plan and the answer say about preemption is about the goal     *)
(* itself.                                                                 *)
LEMMA OwnInvStep ==
  ASSUME PlanTypeOK, BrokenInv, ActionTypes, ActionInv, OwnInv, [Next]_vars
  PROVE  OwnInv'
<1> USE DEF OwnInv
<1>1. CASE SendGoal \/ CancelGoal \/ UNCHANGED vars
  <2>1. UNCHANGED <<planVars, apc, result>> /\ (canceled => canceled')
    BY <1>1 DEF SendGoal, CancelGoal, BeginPreempt, vars, actionVars, ActionTypes
  <2> QED
    BY <2>1 DEF OwnRequests, OwnPreemptionOnly, planVars, flagVars, helperVars, historyVars
<1>2. CASE EndPreempt
  <2>1. canceled /\ stop /\ UNCHANGED <<canceled, apc, result>>
    BY <1>2 DEF EndPreempt, ActionInv, actionVars
  <2>2. OwnRequests'
    BY <2>1, OwnStep DEF OwnNext
  <2> QED
    BY <2>1, <2>2 DEF OwnPreemptionOnly
<1>3. CASE AcceptGoal \/ TestPreempt \/ executeMoveCallbackPlanOnly \/ SetResult
  <2>1. UNCHANGED <<planVars, canceled>>
    BY <1>3 DEF AcceptGoal, TestPreempt, executeMoveCallbackPlanOnly, SetResult
  <2>2. apc' = "report" /\ result' = "PREEMPTED" => canceled
    BY <1>3 DEF AcceptGoal, TestPreempt, executeMoveCallbackPlanOnly, SetResult, AGoto,
                ActionInv
  <2> QED
    BY <2>1, <2>2 DEF OwnRequests, OwnPreemptionOnly, planVars, flagVars, helperVars,
                      historyVars
<1>4. CASE executeMoveCallbackPlanAndExecute
  <2>1. apc' = "executing" /\ UNCHANGED canceled
    BY <1>4 DEF executeMoveCallbackPlanAndExecute, AGoto
  <2>2. PICK diff \in BOOLEAN : planAndExecute(diff)
    BY <1>4 DEF executeMoveCallbackPlanAndExecute
  <2>3. OwnRequests'
    BY <2>2 DEF planAndExecute, Goto, OwnRequests
  <2> QED
    BY <2>1, <2>3 DEF OwnPreemptionOnly
<1>5. CASE PlanExecutionReturns
  <2>1. Return /\ pc = "result" /\ result' = error_code /\ UNCHANGED canceled
    BY <1>5, HelperMoves DEF PlanExecutionReturns
  <2>2. OwnRequests' /\ UNCHANGED broken
    BY <2>1 DEF Return, Goto, OwnRequests
  <2> QED
    BY <2>1, <2>2 DEF OwnRequests, OwnPreemptionOnly
<1>6. CASE ResetRequest
  <2>1. pc = "idle" /\ apc' = "idle" /\ UNCHANGED planVars
    BY <1>6 DEF ResetRequest, AGoto, ActionInv
  <2> QED
    BY <2>1 DEF OwnRequests, OwnPreemptionOnly, planVars, helperVars
<1>7. CASE HelperStep \/ ManagerStep \/ EnvironmentStep
  <2>1. OwnNext /\ UNCHANGED <<canceled, apc, result>>
    BY <1>7 DEF HelperStep, ManagerStep, EnvironmentStep, Within, OwnNext, actionVars
  <2>2. broken => broken'
    BY <1>7, HelperMoves DEF HelperStep, ManagerStep, EnvironmentStep, Within
  <2> QED
    BY <2>1, <2>2, OwnStep DEF OwnPreemptionOnly
<1> QED
  BY <1>1, <1>2, <1>3, <1>4, <1>5, <1>6, <1>7 DEF Next, executeMoveCallback

-----------------------------------------------------------------------------
(* The invariant holds, and what follows from it.                          *)

(* The initial states satisfy the invariant.                               *)
LEMMA InitLemma ==
  ASSUME Init
  PROVE  IInv
<1> USE DEF Init, PlanInit, Manager!Init
<1>1. TypeOK
  <2>1. ManagerTypes
    <3>1. executing = FALSE /\ complete = TRUE /\ begun = FALSE /\ status = "SUCCEEDED"
      OBVIOUS
    <3>2. index \in Nat /\ part \in Int /\ finished \subseteq Nat
      OBVIOUS
    <3> QED
      BY <3>1, <3>2 DEF ManagerTypes
  <2>2. FlagTypes
    BY DEF FlagTypes
  <2>3. SetTypes
    BY DEF SetTypes
  <2>4. CodeTypes /\ NumberTypes
    BY PlanExecutionAssumption DEF CodeTypes, HelperSteps, Codes, NumberTypes
  <2>5. goals \in 0 .. MaxGoals /\ cancels \in 0 .. MaxCancels
    BY MoveActionAssumption
  <2>6. ActionTypes
    BY <2>5 DEF ActionTypes, Codes
  <2> QED
    BY <2>1, <2>2, <2>3, <2>4, <2>6, TypeParts DEF TypeOK, ActionTypes
<1>2. ManagerInv /\ AttemptsInv /\ WatchInv /\ NoticeInv /\ PlannedInv
  BY DEF ManagerInv, AttemptsInv, WatchInv, NothingRunsUnwatched, NoticeInv, PlannedInv
<1>3. RequestInv /\ WholeInv /\ BrokenInv
  BY DEF RequestInv, WholeInv, Watching, BrokenInv
<1>4. ActionInv /\ OwnInv
  BY DEF ActionInv, OwnInv, OwnRequests, OwnPreemptionOnly
<1> QED
  BY <1>1, <1>2, <1>3, <1>4 DEF IInv

(* Every step keeps the invariant.                                         *)
LEMMA InvStep ==
  ASSUME IInv, [Next]_vars
  PROVE  IInv'
<1>1. PlanInv /\ ActionTypes /\ ActionInv /\ OwnInv
  BY DEF IInv, PlanInv, TypeOK, ActionTypes
<1>2. PlanInv'
  BY <1>1, StepOfPlan, PlanStep
<1>3. ActionTypes'
  BY <1>1, ActionTypesStep DEF PlanInv, PlanTypeOK
<1>4. ActionInv' /\ OwnInv'
  BY <1>1, ActionStep, OwnInvStep DEF PlanInv
<1> QED
  BY <1>2, <1>3, <1>4 DEF IInv, PlanInv, TypeOK, ActionTypes

(* The inductive invariant.                                                *)
LEMMA Invariance == Spec => []IInv
<1>1. Init => IInv
  BY InitLemma
<1>2. IInv /\ [Next]_vars => IInv'
  BY InvStep
<1> QED
  BY <1>1, <1>2, PTL DEF Spec

(* Types are kept, for plans of any length and any number of attempts,     *)
(* goals and cancels.                                                      *)
THEOREM TypeCorrect == Spec => []TypeOK
<1>1. IInv => TypeOK
  BY DEF IInv
<1> QED
  BY <1>1, Invariance, PTL

(* When planAndExecute() plans again or returns, the execution of before   *)
(* has come to its end (plan_execution.cpp:411-428).                       *)
THEOREM NothingRunsUnwatchedAlways == Spec => []NothingRunsUnwatched
<1>1. IInv => NothingRunsUnwatched
  BY DEF IInv, WatchInv
<1> QED
  BY <1>1, Invariance, PTL

(* An obstacle in the part that is executed, once announced, is on its way *)
(* to stop the execution (393-403), but for the three ways in which the    *)
(* code drops it (128, 386, 396).                                          *)
THEOREM ObstacleIsNoticedAlways == Spec => []ObstacleIsNoticed
<1>1. IInv => ObstacleIsNoticed
  <2> SUFFICES ASSUME IInv,
                      pc \in {"loop", "look", "poll"},
                      part \in bad, ~snapshot, Monitored,
                      ~unannounced, dropped \cap {"update", "verdict"} = {}
               PROVE  new_scene_update_ \/ path_became_invalid_ \/ preempt_
    BY DEF ObstacleIsNoticed
  <2>1. part # -1
    BY DEF IInv, ManagerInv, TypeOK, PlanTypeOK
  <2>2. executing /\ part = Current
    BY <2>1 DEF IInv, ManagerInv, Current
  <2>3. error_code = "SUCCESS"
    BY DEF IInv, PlannedInv
  <2> QED
    BY <2>2, <2>3 DEF IInv, NoticeInv
<1> QED
  BY <1>1, Invariance, PTL

(* A plan is reported as executed (446-449) only if all its parts were, or *)
(* somebody else stopped the execution; a side effect that failed has left *)
(* its request pending then.                                               *)
THEOREM SuccessIsWholeAlways == Spec => []SuccessIsWhole
<1>1. IInv => SuccessIsWhole
  <2> SUFFICES ASSUME IInv, pc = "result", error_code = "SUCCESS"
               PROVE  Whole /\ (broken => preempt_ \/ "request" \in dropped)
    BY DEF SuccessIsWhole, Whole
  <2>1. Whole
    BY DEF IInv, WholeInv
  <2>2. broken => must_stop \/ preempt_
    BY DEF IInv, BrokenInv
  <2>3. must_stop => preempt_ \/ "request" \in dropped
    BY DEF IInv, RequestInv
  <2> QED
    BY <2>1, <2>2, <2>3
<1> QED
  BY <1>1, Invariance, PTL

(* No goal is answered with the preemption of another: the action resets   *)
(* its request with every goal (move_action_capability.cpp:97),            *)
(* planAndExecute() at its beginning (137).                                *)
THEOREM OwnPreemptionOnlyAlways == Spec => []OwnPreemptionOnly
<1>1. IInv => OwnPreemptionOnly
  BY DEF IInv, OwnInv
<1> QED
  BY <1>1, Invariance, PTL

(* No execution begins after a request was consumed                        *)
(* (plan_execution.h:165), unless the request was dropped in favour of an  *)
(* invalid path (440).                                                     *)
THEOREM RequestIsFinalAlways == Spec => RequestIsFinal
<1>1. ASSUME IInv, [Next]_vars
      PROVE  [~executing /\ executing' /\ must_stop => preempt_ \/ "request" \in dropped]_planVars
  <2> SUFFICES ASSUME ~executing, executing', must_stop
               PROVE  preempt_ \/ "request" \in dropped
    OBVIOUS
  <2>1. PlanNext
    <3>1. ~ UNCHANGED planVars
      BY DEF planVars, managerVars
    <3> QED
      BY <1>1, <3>1, StepOfPlan
  <2>2. pc = "execute"
    BY <1>1, <2>1, OnlyExecuteBegins DEF IInv, TypeOK
  <2> QED
    BY <1>1, <2>2 DEF IInv, RequestInv
<1> QED
  BY <1>1, Invariance, PTL DEF Spec, RequestIsFinal
================================================================================
