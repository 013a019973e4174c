----------------------------- MODULE StayHeatmap -----------------------------
(***************************************************************************)
(* Stay heatmap analyses: Kaede creates a run and submits it to Nozomi     *)
(* within one request (create-stay-heatmap.ts), Nozomi's task uploads the  *)
(* artifacts and reports once (analysis/stay_heatmap.py), Kaede verifies   *)
(* the artifacts and records the outcome (receive-callback.ts), and a      *)
(* Kaede that starts, or reads runs, fails those past their deadline       *)
(* (index.ts, get-analysis-runs.ts).                                       *)
(*                                                                         *)
(* No step of the callback holds a lock: the run is read, the object store *)
(* asked, and the status written by an UPDATE that is conditional on the   *)
(* status.  A callback on the wire may be lost, late or delivered twice.   *)
(***************************************************************************)
EXTENDS Naturals, FiniteSets

CONSTANTS
    Runs,               \* analysis_runs ids
    InputsOf,           \* run -> the trajectories in analysis_run_trajectories
    NozomiErrorCodes,   \* error codes Nozomi reports
    Handlers,           \* callback requests Kaede serves at a time
    NoRun               \* "no request in hand"

ASSUME HeatmapConstantsOK ==
    /\ DOMAIN InputsOf = Runs
    /\ NoRun \notin Runs
    /\ NozomiErrorCodes \cap {"none", "ANALYSIS_PREPARATION_FAILED", "NOZOMI_REQUEST_FAILED",
                              "ANALYSIS_TIMEOUT", "ARTIFACT_VALIDATION_FAILED"} = {}

Inputs == UNION {InputsOf[r] : r \in Runs}

VARIABLES
    status,     \* analysis_runs.status, "absent" before the insert
    errorCode,  \* analysis_runs.error_code, "none" when NULL
    overdue,    \* runs with deadline_at <= now
    lapsed,     \* runs whose callback token has expired
    creating,   \* the statement createStayHeatmap executes next
    answer,     \* what createStayHeatmap answered
    task,       \* the statement StayHeatmapRunner.run executes next
    csvs,       \* <<run, trajectory>> whose enriched CSV is in the object store
    heatmap,    \* the heatmap object: "missing", "valid" or "malformed"
    wire,       \* callbacks sent: <<run, "completed">> or <<run, error code>>
    serving,    \* handler: the run of the callback in hand
    carries,    \* handler: "completed" or the error code of the callback
    stage,      \* handler: the statement it executes next
    told        \* <<run, outcome>> that a callback was answered 2xx

runVars     == <<status, errorCode>>
createVars  == <<creating, answer>>
storeVars   == <<csvs, heatmap>>
timeVars    == <<overdue, lapsed>>
handlerVars == <<serving, carries, stage>>
heatmapVars == <<runVars, timeVars, createVars, task, storeVars, wire, handlerVars, told>>

Final == {"completed", "failed"}
ErrorCode == {"none", "ANALYSIS_PREPARATION_FAILED", "NOZOMI_REQUEST_FAILED",
              "ANALYSIS_TIMEOUT", "ARTIFACT_VALIDATION_FAILED"} \cup NozomiErrorCodes
Report == {"completed"} \cup NozomiErrorCodes

(* The state of every row and process, and that a stage is only held with  *)
(* a callback that leads to it.                                            *)
HeatmapTypeOK ==
    /\ status \in [Runs -> {"absent", "processing"} \cup Final]
    /\ errorCode \in [Runs -> ErrorCode]
    /\ overdue \subseteq Runs
    /\ lapsed \subseteq Runs
    /\ creating \in [Runs -> {"idle", "prepare", "submit", "prepareFailed", "submitFailed", "over"}]
    /\ answer \in [Runs -> {"none", "processing", "ANALYSIS_PREPARATION_FAILED",
                            "NOZOMI_REQUEST_FAILED"}]
    /\ task \in [Runs -> {"none", "analyze", "report", "await", "over"}]
    /\ csvs \subseteq Runs \X Inputs
    /\ heatmap \in [Runs -> {"missing", "valid", "malformed"}]
    /\ wire \subseteq Runs \X Report
    /\ serving \in [Handlers -> Runs \cup {NoRun}]
    /\ carries \in [Handlers -> Report]
    /\ stage \in [Handlers -> {"idle", "fail", "verify", "complete", "reject", "reread"}]
    /\ told \subseteq Runs \X Final
    /\ \A h \in Handlers : stage[h] # "idle" => serving[h] \in Runs
    /\ \A h \in Handlers : stage[h] = "fail" => carries[h] \in NozomiErrorCodes

HeatmapInit ==
    /\ status = [r \in Runs |-> "absent"]
    /\ errorCode = [r \in Runs |-> "none"]
    /\ overdue = {}
    /\ lapsed = {}
    /\ creating = [r \in Runs |-> "idle"]
    /\ answer = [r \in Runs |-> "none"]
    /\ task = [r \in Runs |-> "none"]
    /\ csvs = {}
    /\ heatmap = [r \in Runs |-> "missing"]
    /\ wire = {}
    /\ serving = [h \in Handlers |-> NoRun]
    /\ carries = [h \in Handlers |-> "completed"]
    /\ stage = [h \in Handlers |-> "idle"]
    /\ told = {}

------------------------------------------------------------------------------
(* The repository's conditional updates.  Each is one statement.           *)

(* markAnalysisRunFailed: WHERE status IN ('accepted', 'processing').      *)
(* A run is accepted only inside the transaction that creates it.          *)
Failable(r) == status[r] = "processing"

MarkFailed(r, code) ==
    IF Failable(r)
    THEN /\ status' = [status EXCEPT ![r] = "failed"]
         /\ errorCode' = [errorCode EXCEPT ![r] = code]
    ELSE UNCHANGED runVars

(* markAnalysisRunCompleted: WHERE status = 'processing'.                  *)
Completable(r) == status[r] = "processing"

MarkCompleted(r) ==
    /\ Completable(r)
    /\ status' = [status EXCEPT ![r] = "completed"]
    /\ UNCHANGED errorCode

------------------------------------------------------------------------------
(* createStayHeatmap.                                                      *)

(* The transaction that inserts the run with its trajectories and marks it *)
(* processing.                                                             *)
CreateRun(r) ==
    /\ creating[r] = "idle"
    /\ creating' = [creating EXCEPT ![r] = "prepare"]
    /\ status' = [status EXCEPT ![r] = "processing"]
    /\ UNCHANGED <<errorCode, timeVars, answer, task, storeVars, wire, handlerVars, told>>

(* URLs and token are signed, or one of them cannot be.                    *)
Prepare(r) ==
    /\ creating[r] = "prepare"
    /\ \E next \in {"submit", "prepareFailed"} : creating' = [creating EXCEPT ![r] = next]
    /\ UNCHANGED <<runVars, timeVars, answer, task, storeVars, wire, handlerVars, told>>

SubmitAccepted(r) ==
    /\ creating[r] = "submit"
    /\ task' = [task EXCEPT ![r] = "analyze"]
    /\ creating' = [creating EXCEPT ![r] = "over"]
    /\ answer' = [answer EXCEPT ![r] = "processing"]
    /\ UNCHANGED <<runVars, timeVars, storeVars, wire, handlerVars, told>>

(* A refusal, a timeout or a broken answer: Nozomi may have taken the run. *)
SubmitFails(r) ==
    /\ creating[r] = "submit"
    /\ \E t \in {"none", "analyze"} : task' = [task EXCEPT ![r] = t]
    /\ creating' = [creating EXCEPT ![r] = "submitFailed"]
    /\ UNCHANGED <<runVars, timeVars, answer, storeVars, wire, handlerVars, told>>

CreateErrorOf == [prepareFailed |-> "ANALYSIS_PREPARATION_FAILED",
                  submitFailed |-> "NOZOMI_REQUEST_FAILED"]

(* The catch blocks: what markAnalysisRunFailed returns is not looked at.  *)
FailCreation(r) ==
    /\ creating[r] \in DOMAIN CreateErrorOf
    /\ MarkFailed(r, CreateErrorOf[creating[r]])
    /\ answer' = [answer EXCEPT ![r] = CreateErrorOf[creating[r]]]
    /\ creating' = [creating EXCEPT ![r] = "over"]
    /\ UNCHANGED <<timeVars, task, storeVars, wire, handlerVars, told>>

(* The process dies, or a statement throws, in the middle of the request.  *)
AbandonCreation(r) ==
    /\ creating[r] \notin {"idle", "over"}
    /\ creating' = [creating EXCEPT ![r] = "over"]
    /\ UNCHANGED <<runVars, timeVars, answer, task, storeVars, wire, handlerVars, told>>

------------------------------------------------------------------------------
(* StayHeatmapRunner.run, a background task of Nozomi.                     *)

(* The enriched CSV of one input; their order is not looked at by Kaede.   *)
UploadCsv(r, t) ==
    /\ task[r] = "analyze"
    /\ t \in InputsOf[r]
    /\ <<r, t>> \notin csvs
    /\ csvs' = csvs \cup {<<r, t>>}
    /\ UNCHANGED <<runVars, timeVars, createVars, task, heatmap, wire, handlerVars, told>>

AllCsvs(r) == {r} \X InputsOf[r] \subseteq csvs

(* The cells come from the analysis library: the artifact need not satisfy *)
(* Kaede's schema.                                                         *)
UploadHeatmap(r) ==
    /\ task[r] = "analyze"
    /\ AllCsvs(r)
    /\ \E content \in {"valid", "malformed"} : heatmap' = [heatmap EXCEPT ![r] = content]
    /\ task' = [task EXCEPT ![r] = "report"]
    /\ UNCHANGED <<runVars, timeVars, createVars, csvs, wire, handlerVars, told>>

ReportCompleted(r) ==
    /\ task[r] = "report"
    /\ wire' = wire \cup {<<r, "completed">>}
    /\ task' = [task EXCEPT ![r] = "await"]
    /\ UNCHANGED <<runVars, timeVars, createVars, storeVars, handlerVars, told>>

Acknowledged(r) ==
    /\ task[r] = "await"
    /\ <<r, "completed">> \in told
    /\ task' = [task EXCEPT ![r] = "over"]
    /\ UNCHANGED <<runVars, timeVars, createVars, storeVars, wire, handlerVars, told>>

(* Whatever raises in the try block, an unanswered or refused completed    *)
(* callback included, is reported as a failure.                            *)
ReportFailed(r) ==
    /\ task[r] \in {"analyze", "report", "await"}
    /\ \E code \in NozomiErrorCodes : wire' = wire \cup {<<r, code>>}
    /\ task' = [task EXCEPT ![r] = "over"]
    /\ UNCHANGED <<runVars, timeVars, createVars, storeVars, handlerVars, told>>

(* Nozomi stops: the task is not resumed.                                  *)
LoseTask(r) ==
    /\ task[r] \in {"analyze", "report", "await"}
    /\ task' = [task EXCEPT ![r] = "over"]
    /\ UNCHANGED <<runVars, timeVars, createVars, storeVars, wire, handlerVars, told>>

------------------------------------------------------------------------------
(* receiveAnalysisCallback.                                                *)

Hold(h, r, report, next) ==
    /\ serving' = [serving EXCEPT ![h] = r]
    /\ carries' = [carries EXCEPT ![h] = report]
    /\ stage' = [stage EXCEPT ![h] = next]

Release(h) ==
    /\ serving' = [serving EXCEPT ![h] = NoRun]
    /\ carries' = [carries EXCEPT ![h] = "completed"]
    /\ stage' = [stage EXCEPT ![h] = "idle"]

(* A callback with a live token: the run is read.  A callback that repeats *)
(* the recorded outcome is accepted; one that contradicts it is refused,   *)
(* which changes nothing and is no step.                                   *)
ReceiveRepeated(h, r, report) ==
    /\ stage[h] = "idle"
    /\ r \notin lapsed
    /\ \/ report = "completed" /\ status[r] = "completed"
       \/ report # "completed" /\ status[r] = "failed" /\ errorCode[r] = report
    /\ told' = told \cup {<<r, status[r]>>}
    /\ UNCHANGED <<runVars, timeVars, createVars, task, storeVars, wire, handlerVars>>

(* Mutant: the status of the payload is not looked at.                     *)
StageForAny(report) == "fail"

StageFor(report) == IF report = "completed" THEN "verify" ELSE "fail"

ReceiveFirst(h, r, report) ==
    /\ stage[h] = "idle"
    /\ r \notin lapsed
    /\ status[r] \notin Final
    /\ Hold(h, r, report, StageFor(report))
    /\ UNCHANGED <<runVars, timeVars, createVars, task, storeVars, wire, told>>

FailRun(h) ==
    /\ stage[h] = "fail"
    /\ MarkFailed(serving[h], carries[h])
    /\ told' = IF Failable(serving[h]) THEN told \cup {<<serving[h], "failed">>} ELSE told
    /\ Release(h)
    /\ UNCHANGED <<timeVars, createVars, task, storeVars, wire>>

ArtifactsOK(r) == heatmap[r] = "valid" /\ AllCsvs(r)

(* Mutant: the heatmap is only asked for, as a trajectory's result is.      *)
VerificationOfPresence(r) ==
    IF heatmap[r] # "missing" /\ AllCsvs(r) THEN "complete" ELSE "reject"

(* The heatmap is parsed and compared with the run's trajectories, and     *)
(* every CSV must exist.                                                   *)
Verification(r) == IF ArtifactsOK(r) THEN "complete" ELSE "reject"

VerifyArtifacts(h) ==
    /\ stage[h] = "verify"
    /\ stage' = [stage EXCEPT ![h] = Verification(serving[h])]
    /\ UNCHANGED <<runVars, timeVars, createVars, task, storeVars, wire, serving, carries, told>>

RejectArtifacts(h) ==
    /\ stage[h] = "reject"
    /\ MarkFailed(serving[h], "ARTIFACT_VALIDATION_FAILED")
    /\ Release(h)
    /\ UNCHANGED <<timeVars, createVars, task, storeVars, wire, told>>

CompleteRun(h) ==
    /\ stage[h] = "complete"
    /\ MarkCompleted(serving[h])
    /\ told' = told \cup {<<serving[h], "completed">>}
    /\ Release(h)
    /\ UNCHANGED <<timeVars, createVars, task, storeVars, wire>>

(* The update matched no row: the run is read again.                       *)
CompleteTooLate(h) ==
    /\ stage[h] = "complete"
    /\ ~Completable(serving[h])
    /\ stage' = [stage EXCEPT ![h] = "reread"]
    /\ UNCHANGED <<runVars, timeVars, createVars, task, storeVars, wire, serving, carries, told>>

(* Mutant: it is accepted once the run has ended.                          *)
EndedSomehow(r) == status[r] \in Final

(* The completed callback is accepted only if another one completed it.    *)
AlreadyCompleted(r) == status[r] = "completed"

Reread(h) ==
    /\ stage[h] = "reread"
    /\ told' = IF AlreadyCompleted(serving[h])
               THEN told \cup {<<serving[h], "completed">>} ELSE told
    /\ Release(h)
    /\ UNCHANGED <<runVars, timeVars, createVars, task, storeVars, wire>>

AbandonRequest(h) ==
    /\ stage[h] # "idle"
    /\ Release(h)
    /\ UNCHANGED <<runVars, timeVars, createVars, task, storeVars, wire, told>>

------------------------------------------------------------------------------
(* Time, and the start of a Kaede process.                                 *)

DeadlinePasses(r) ==
    /\ status[r] # "absent"
    /\ r \notin overdue
    /\ overdue' = overdue \cup {r}
    /\ UNCHANGED <<runVars, lapsed, createVars, task, storeVars, wire, handlerVars, told>>

TokenLapses(r) ==
    /\ status[r] # "absent"
    /\ r \notin lapsed
    /\ lapsed' = lapsed \cup {r}
    /\ UNCHANGED <<runVars, overdue, createVars, task, storeVars, wire, handlerVars, told>>

(* Mutant: the update is not conditional on the status.                    *)
OverdueInAnyStatus(r) == r \in overdue /\ status[r] # "absent"

(* markTimedOutAnalysisRunsFailed.                                         *)
Expirable(r) == r \in overdue /\ status[r] = "processing"

ExpireOverdueRuns ==
    /\ \E r \in Runs : Expirable(r)
    /\ status' = [r \in Runs |-> IF Expirable(r) THEN "failed" ELSE status[r]]
    /\ errorCode' = [r \in Runs |-> IF Expirable(r) THEN "ANALYSIS_TIMEOUT" ELSE errorCode[r]]
    /\ UNCHANGED <<timeVars, createVars, task, storeVars, wire, handlerVars, told>>

------------------------------------------------------------------------------
CreateStep(r) ==
    CreateRun(r) \/ Prepare(r) \/ SubmitAccepted(r) \/ SubmitFails(r) \/ FailCreation(r)

TaskStep(r) ==
    \/ \E t \in Inputs : UploadCsv(r, t)
    \/ UploadHeatmap(r) \/ ReportCompleted(r) \/ Acknowledged(r) \/ ReportFailed(r)

HandlerStep(h) ==
    \/ \E m \in wire : ReceiveRepeated(h, m[1], m[2]) \/ ReceiveFirst(h, m[1], m[2])
    \/ FailRun(h) \/ VerifyArtifacts(h) \/ RejectArtifacts(h)
    \/ CompleteRun(h) \/ CompleteTooLate(h) \/ Reread(h)

Fault ==
    \/ \E r \in Runs : AbandonCreation(r) \/ LoseTask(r)
    \/ \E h \in Handlers : AbandonRequest(h)

HeatmapNext ==
    \/ \E r \in Runs : CreateStep(r) \/ TaskStep(r) \/ DeadlinePasses(r) \/ TokenLapses(r)
    \/ \E h \in Handlers : HandlerStep(h)
    \/ ExpireOverdueRuns
    \/ Fault

HeatmapSpec == HeatmapInit /\ [][HeatmapNext]_heatmapVars

------------------------------------------------------------------------------
(* A completed run has a heatmap Kaede's schema accepts and the CSV of     *)
(* every input, whatever callbacks, repeats and start-ups came in between. *)
CompletedHasArtifacts == \A r \in Runs : status[r] = "completed" => ArtifactsOK(r)

(* What a caller was answered stays true: an outcome acknowledged to       *)
(* Nozomi is the run's outcome, and a create request that answered an      *)
(* error left a run that has ended.                                        *)
AnswersHold ==
    /\ \A r \in Runs, s \in Final : <<r, s>> \in told => status[r] = s
    /\ \A r \in Runs : answer[r] \in {"ANALYSIS_PREPARATION_FAILED", "NOZOMI_REQUEST_FAILED"}
                          => status[r] \in Final

(* The run as an analysis with one life cycle.                             *)
LC == INSTANCE AnalysisLifeCycle WITH
        Jobs <- Runs,
        outcome <- [r \in Runs |-> IF status[r] = "processing" THEN "open" ELSE status[r]],
        stored <- {r \in Runs : ArtifactsOK(r)}

(* Each run starts once and ends once, completed only with its artifacts,  *)
(* and an acknowledged outcome is final.                                   *)
OneLifeCycle == LC!LifeCycle
==============================================================================
