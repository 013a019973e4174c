-------------------------- MODULE TrajectoryAnalysis --------------------------
(***************************************************************************)
(* Trajectories analysed by Nozomi's built-in strategy: Kaede creates a    *)
(* trajectory and submits it within one request (create-trajectory.ts),    *)
(* Nozomi's task uploads the result and reports once                       *)
(* (analysis/default_rikka_strategy.py), Kaede records the outcome         *)
(* (usecases/trajectories/receive-callback.ts).  A trajectory may be       *)
(* deleted at any moment; its row stays, hidden from every query.          *)
(*                                                                         *)
(* Nothing runs in a transaction: every statement is a step of its own.    *)
(***************************************************************************)
EXTENDS FiniteSets

CONSTANTS
    Trajectories,
    TrajectoryHandlers, \* callback requests Kaede serves at a time
    NoTrajectory        \* "no request in hand"

ASSUME TrajectoryConstantsOK == NoTrajectory \notin Trajectories

VARIABLES
    tStatus,    \* trajectories.status, "absent" before the insert
    tError,     \* trajectories.error_code, "none" when NULL
    deleted,    \* trajectories with deleted_at
    results,    \* trajectories whose result object is stored
    tLapsed,    \* trajectories whose callback token has expired
    tCreating,  \* the statement createTrajectory executes next
    tAnswer,    \* what createTrajectory answered
    tTask,      \* the statement DefaultRikkaStrategy.run executes next
    tWire,      \* callbacks sent: <<trajectory, outcome>>
    tServing,   \* handler: the trajectory of the callback in hand
    tStage,     \* handler: the statement it executes next
    tTold       \* <<trajectory, outcome>> that a callback was answered 2xx

tRowVars     == <<tStatus, tError, deleted>>
tCreateVars  == <<tCreating, tAnswer>>
tHandlerVars == <<tServing, tStage>>
trajectoryVars ==
    <<tRowVars, results, tLapsed, tCreateVars, tTask, tWire, tHandlerVars, tTold>>

TrajectoryFinal == {"completed", "failed"}

(* The state of every row and process.                                     *)
TrajectoryTypeOK ==
    /\ tStatus \in [Trajectories -> {"absent", "accepted", "processing"} \cup TrajectoryFinal]
    /\ tError \in [Trajectories -> {"none", "TRAJECTORY_ANALYZE_PREPARATION_FAILED",
                                    "NOZOMI_REQUEST_FAILED", "RIKKA_ANALYSIS_FAILED"}]
    /\ deleted \subseteq Trajectories
    /\ results \subseteq Trajectories
    /\ tLapsed \subseteq Trajectories
    /\ tCreating \in [Trajectories -> {"idle", "mark", "prepare", "submit", "prepareFailed",
                                       "submitFailed", "over"}]
    /\ tAnswer \in [Trajectories -> {"none", "processing", "NOZOMI_REQUEST_FAILED",
                                     "TRAJECTORY_ANALYZE_PREPARATION_FAILED"}]
    /\ tTask \in [Trajectories -> {"none", "analyze", "report", "await", "over"}]
    /\ tWire \subseteq Trajectories \X TrajectoryFinal
    /\ tServing \in [TrajectoryHandlers -> Trajectories \cup {NoTrajectory}]
    /\ tStage \in [TrajectoryHandlers -> {"idle", "check", "complete", "completeReread",
                                          "fail", "failReread"}]
    /\ tTold \subseteq Trajectories \X TrajectoryFinal
    /\ \A h \in TrajectoryHandlers : tStage[h] # "idle" => tServing[h] \in Trajectories

TrajectoryInit ==
    /\ tStatus = [t \in Trajectories |-> "absent"]
    /\ tError = [t \in Trajectories |-> "none"]
    /\ deleted = {}
    /\ results = {}
    /\ tLapsed = {}
    /\ tCreating = [t \in Trajectories |-> "idle"]
    /\ tAnswer = [t \in Trajectories |-> "none"]
    /\ tTask = [t \in Trajectories |-> "none"]
    /\ tWire = {}
    /\ tServing = [h \in TrajectoryHandlers |-> NoTrajectory]
    /\ tStage = [h \in TrajectoryHandlers |-> "idle"]
    /\ tTold = {}

------------------------------------------------------------------------------
(* Mutants: the update looks at the deletion only, or revives a failed row. *)
NotDeleted(t) == t \notin deleted /\ tStatus[t] # "absent"
UnfinishedOrFailed(t) == t \notin deleted /\ tStatus[t] \in {"accepted", "processing", "failed"}

(* The rows markTrajectoryCompleted and markTrajectoryFailed match:        *)
(* WHERE deleted_at IS NULL AND status IN ('accepted', 'processing').      *)
Unfinished(t) == t \notin deleted /\ tStatus[t] \in {"accepted", "processing"}

MarkTrajectoryFailed(t, code) ==
    IF Unfinished(t)
    THEN /\ tStatus' = [tStatus EXCEPT ![t] = "failed"]
         /\ tError' = [tError EXCEPT ![t] = code]
         /\ UNCHANGED deleted
    ELSE UNCHANGED tRowVars

------------------------------------------------------------------------------
(* createTrajectory.                                                       *)

InsertTrajectory(t) ==
    /\ tCreating[t] = "idle"
    /\ tStatus' = [tStatus EXCEPT ![t] = "accepted"]
    /\ tCreating' = [tCreating EXCEPT ![t] = "mark"]
    /\ UNCHANGED <<tError, deleted, results, tLapsed, tAnswer, tTask, tWire, tHandlerVars, tTold>>

(* markTrajectoryProcessing; a trajectory deleted meanwhile is not matched *)
(* and the request throws.                                                 *)
MarkTrajectoryProcessing(t) ==
    /\ tCreating[t] = "mark"
    /\ IF t \notin deleted /\ tStatus[t] = "accepted"
       THEN /\ tStatus' = [tStatus EXCEPT ![t] = "processing"]
            /\ tCreating' = [tCreating EXCEPT ![t] = "prepare"]
       ELSE /\ tCreating' = [tCreating EXCEPT ![t] = "over"]
            /\ UNCHANGED tStatus
    /\ UNCHANGED <<tError, deleted, results, tLapsed, tAnswer, tTask, tWire, tHandlerVars, tTold>>

PrepareTrajectory(t) ==
    /\ tCreating[t] = "prepare"
    /\ \E next \in {"submit", "prepareFailed"} : tCreating' = [tCreating EXCEPT ![t] = next]
    /\ UNCHANGED <<tRowVars, results, tLapsed, tAnswer, tTask, tWire, tHandlerVars, tTold>>

TrajectoryAccepted(t) ==
    /\ tCreating[t] = "submit"
    /\ tTask' = [tTask EXCEPT ![t] = "analyze"]
    /\ tCreating' = [tCreating EXCEPT ![t] = "over"]
    /\ tAnswer' = [tAnswer EXCEPT ![t] = "processing"]
    /\ UNCHANGED <<tRowVars, results, tLapsed, tWire, tHandlerVars, tTold>>

(* A refusal, a timeout or a broken answer: Nozomi may have taken it.      *)
TrajectorySubmitFails(t) ==
    /\ tCreating[t] = "submit"
    /\ \E next \in {"none", "analyze"} : tTask' = [tTask EXCEPT ![t] = next]
    /\ tCreating' = [tCreating EXCEPT ![t] = "submitFailed"]
    /\ UNCHANGED <<tRowVars, results, tLapsed, tAnswer, tWire, tHandlerVars, tTold>>

TrajectoryErrorOf == [prepareFailed |-> "TRAJECTORY_ANALYZE_PREPARATION_FAILED",
                      submitFailed |-> "NOZOMI_REQUEST_FAILED"]

FailTrajectoryCreation(t) ==
    /\ tCreating[t] \in DOMAIN TrajectoryErrorOf
    /\ MarkTrajectoryFailed(t, TrajectoryErrorOf[tCreating[t]])
    /\ tAnswer' = [tAnswer EXCEPT ![t] = TrajectoryErrorOf[tCreating[t]]]
    /\ tCreating' = [tCreating EXCEPT ![t] = "over"]
    /\ UNCHANGED <<results, tLapsed, tTask, tWire, tHandlerVars, tTold>>

(* The process dies, or a statement throws, in the middle of the request.  *)
AbandonTrajectoryCreation(t) ==
    /\ tCreating[t] \notin {"idle", "over"}
    /\ tCreating' = [tCreating EXCEPT ![t] = "over"]
    /\ UNCHANGED <<tRowVars, results, tLapsed, tAnswer, tTask, tWire, tHandlerVars, tTold>>

(* deleteTrajectory: softDeleteTrajectory, whatever the status.            *)
DeleteTrajectory(t) ==
    /\ tStatus[t] # "absent"
    /\ t \notin deleted
    /\ deleted' = deleted \cup {t}
    /\ UNCHANGED <<tStatus, tError, results, tLapsed, tCreateVars, tTask, tWire,
                   tHandlerVars, tTold>>

------------------------------------------------------------------------------
(* DefaultRikkaStrategy.run, a background task of Nozomi.                  *)

UploadResult(t) ==
    /\ tTask[t] = "analyze"
    /\ results' = results \cup {t}
    /\ tTask' = [tTask EXCEPT ![t] = "report"]
    /\ UNCHANGED <<tRowVars, tLapsed, tCreateVars, tWire, tHandlerVars, tTold>>

ReportTrajectoryCompleted(t) ==
    /\ tTask[t] = "report"
    /\ tWire' = tWire \cup {<<t, "completed">>}
    /\ tTask' = [tTask EXCEPT ![t] = "await"]
    /\ UNCHANGED <<tRowVars, results, tLapsed, tCreateVars, tHandlerVars, tTold>>

TrajectoryAcknowledged(t) ==
    /\ tTask[t] = "await"
    /\ <<t, "completed">> \in tTold
    /\ tTask' = [tTask EXCEPT ![t] = "over"]
    /\ UNCHANGED <<tRowVars, results, tLapsed, tCreateVars, tWire, tHandlerVars, tTold>>

(* Whatever raises in the try block, an unanswered or refused completed    *)
(* callback included, is reported as a failure.                            *)
ReportTrajectoryFailed(t) ==
    /\ tTask[t] \in {"analyze", "report", "await"}
    /\ tWire' = tWire \cup {<<t, "failed">>}
    /\ tTask' = [tTask EXCEPT ![t] = "over"]
    /\ UNCHANGED <<tRowVars, results, tLapsed, tCreateVars, tHandlerVars, tTold>>

LoseTrajectoryTask(t) ==
    /\ tTask[t] \in {"analyze", "report", "await"}
    /\ tTask' = [tTask EXCEPT ![t] = "over"]
    /\ UNCHANGED <<tRowVars, results, tLapsed, tCreateVars, tWire, tHandlerVars, tTold>>

------------------------------------------------------------------------------
(* receiveCallback.                                                        *)

TrajectoryStage(h, t, next) ==
    /\ tServing' = [tServing EXCEPT ![h] = t]
    /\ tStage' = [tStage EXCEPT ![h] = next]

(* Mutant: the handler keeps its stage.                                    *)
LeaveOpen(h) == TrajectoryStage(h, NoTrajectory, tStage[h])

Leave(h) == TrajectoryStage(h, NoTrajectory, "idle")

(* The row already holds what the callback reports, with the error it      *)
(* reports.                                                                *)
Recorded(t, outcome) ==
    /\ tStatus[t] = outcome
    /\ outcome = "failed" => tError[t] = "RIKKA_ANALYSIS_FAILED"

(* A callback with a live token reads the trajectory, which a deletion     *)
(* hides.  One that repeats the outcome is accepted; one that contradicts  *)
(* it is refused, which changes nothing and is no step.                    *)
ReceiveRecorded(h, t, outcome) ==
    /\ tStage[h] = "idle"
    /\ t \notin tLapsed \cup deleted
    /\ Recorded(t, outcome)
    /\ tTold' = tTold \cup {<<t, outcome>>}
    /\ UNCHANGED <<tRowVars, results, tLapsed, tCreateVars, tTask, tWire, tHandlerVars>>

ReceiveOutcome(h, t, outcome) ==
    /\ tStage[h] = "idle"
    /\ t \notin tLapsed \cup deleted
    /\ tStatus[t] \notin TrajectoryFinal
    /\ TrajectoryStage(h, t, IF outcome = "completed" THEN "check" ELSE "fail")
    /\ UNCHANGED <<tRowVars, results, tLapsed, tCreateVars, tTask, tWire, tTold>>

(* No result object: 503, the trajectory stays as it is.                   *)
CheckResult(h) ==
    /\ tStage[h] = "check"
    /\ IF tServing[h] \in results THEN TrajectoryStage(h, tServing[h], "complete") ELSE Leave(h)
    /\ UNCHANGED <<tRowVars, results, tLapsed, tCreateVars, tTask, tWire, tTold>>

CompleteTrajectory(h) ==
    /\ tStage[h] = "complete"
    /\ Unfinished(tServing[h])
    /\ tStatus' = [tStatus EXCEPT ![tServing[h]] = "completed"]
    /\ tTold' = tTold \cup {<<tServing[h], "completed">>}
    /\ Leave(h)
    /\ UNCHANGED <<tError, deleted, results, tLapsed, tCreateVars, tTask, tWire>>

FailTrajectory(h) ==
    /\ tStage[h] = "fail"
    /\ Unfinished(tServing[h])
    /\ MarkTrajectoryFailed(tServing[h], "RIKKA_ANALYSIS_FAILED")
    /\ tTold' = tTold \cup {<<tServing[h], "failed">>}
    /\ Leave(h)
    /\ UNCHANGED <<results, tLapsed, tCreateVars, tTask, tWire>>

RereadStage == [complete |-> "completeReread", fail |-> "failReread"]

(* The update matched no row: the trajectory is read again.                *)
UpdateTooLate(h) ==
    /\ tStage[h] \in DOMAIN RereadStage
    /\ ~Unfinished(tServing[h])
    /\ TrajectoryStage(h, tServing[h], RereadStage[tStage[h]])
    /\ UNCHANGED <<tRowVars, results, tLapsed, tCreateVars, tTask, tWire, tTold>>

RereadOutcome == [completeReread |-> "completed", failReread |-> "failed"]

(* Accepted if another callback recorded the same outcome.                 *)
RereadTrajectory(h) ==
    /\ tStage[h] \in DOMAIN RereadOutcome
    /\ LET t == tServing[h]
           outcome == RereadOutcome[tStage[h]]
       IN  tTold' = IF t \notin deleted /\ Recorded(t, outcome)
                    THEN tTold \cup {<<t, outcome>>} ELSE tTold
    /\ Leave(h)
    /\ UNCHANGED <<tRowVars, results, tLapsed, tCreateVars, tTask, tWire>>

AbandonTrajectoryRequest(h) ==
    /\ tStage[h] # "idle"
    /\ Leave(h)
    /\ UNCHANGED <<tRowVars, results, tLapsed, tCreateVars, tTask, tWire, tTold>>

TrajectoryTokenLapses(t) ==
    /\ tStatus[t] # "absent"
    /\ t \notin tLapsed
    /\ tLapsed' = tLapsed \cup {t}
    /\ UNCHANGED <<tRowVars, results, tCreateVars, tTask, tWire, tHandlerVars, tTold>>

------------------------------------------------------------------------------
TrajectoryStep(t) ==
    \/ InsertTrajectory(t) \/ MarkTrajectoryProcessing(t) \/ PrepareTrajectory(t)
    \/ TrajectoryAccepted(t) \/ TrajectorySubmitFails(t) \/ FailTrajectoryCreation(t)
    \/ AbandonTrajectoryCreation(t) \/ DeleteTrajectory(t) \/ TrajectoryTokenLapses(t)
    \/ UploadResult(t) \/ ReportTrajectoryCompleted(t) \/ TrajectoryAcknowledged(t)
    \/ ReportTrajectoryFailed(t) \/ LoseTrajectoryTask(t)

TrajectoryHandlerStep(h) ==
    \/ \E m \in tWire : ReceiveRecorded(h, m[1], m[2]) \/ ReceiveOutcome(h, m[1], m[2])
    \/ CheckResult(h) \/ CompleteTrajectory(h) \/ FailTrajectory(h)
    \/ UpdateTooLate(h) \/ RereadTrajectory(h) \/ AbandonTrajectoryRequest(h)

TrajectoryNext ==
    \/ \E t \in Trajectories : TrajectoryStep(t)
    \/ \E h \in TrajectoryHandlers : TrajectoryHandlerStep(h)

TrajectorySpec == TrajectoryInit /\ [][TrajectoryNext]_trajectoryVars

------------------------------------------------------------------------------
(* What a caller was answered stays true, deletions included: an outcome   *)
(* acknowledged to Nozomi is the trajectory's, and a create request that   *)
(* answered an error left a trajectory that has ended or was deleted.      *)
TrajectoryAnswersHold ==
    /\ \A t \in Trajectories, s \in TrajectoryFinal : <<t, s>> \in tTold => tStatus[t] = s
    /\ \A t \in Trajectories :
          tAnswer[t] \in {"TRAJECTORY_ANALYZE_PREPARATION_FAILED", "NOZOMI_REQUEST_FAILED"}
          => tStatus[t] \in TrajectoryFinal \/ t \in deleted

(* The trajectory as an analysis with one life cycle.                      *)
TrajectoryLife == INSTANCE AnalysisLifeCycle WITH
          Jobs <- Trajectories,
          outcome <- [t \in Trajectories |->
                        IF tStatus[t] \in {"accepted", "processing"} THEN "open" ELSE tStatus[t]],
          stored <- results,
          told <- tTold

(* Each trajectory starts once and ends once, completed only with its      *)
(* result, and an acknowledged outcome is final.                           *)
TrajectoryLifeCycle == TrajectoryLife!LifeCycle
==============================================================================
