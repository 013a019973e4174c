------------------------- MODULE AnalysisChainProofs -------------------------
(***************************************************************************)
(* Proofs about StayHeatmap, TrajectoryAnalysis and the chain of both, for *)
(* any trajectories, runs, inputs, error codes and number of callbacks     *)
(* served at a time.                                                       *)
(***************************************************************************)
EXTENDS AnalysisChain, TLAPS

(***************************************************************************)
(* Stay heatmaps.                                                          *)
(***************************************************************************)
(* A run exists from its transaction on, and Nozomi has no task of a run   *)
(* that was not submitted.                                                 *)
CreationInv ==
    \A r \in Runs :
        /\ creating[r] = "idle" <=> status[r] = "absent"
        /\ creating[r] \in {"idle", "prepare", "submit"} => task[r] = "none"

(* The task has stored nothing to overwrite, and what a handler is about   *)
(* to complete has been verified.                                          *)
ArtifactInv ==
    /\ \A r \in Runs : task[r] \in {"none", "analyze"} => heatmap[r] = "missing"
    /\ \A r \in Runs : status[r] = "completed" => ArtifactsOK(r)
    /\ \A h \in Handlers : stage[h] = "complete" => ArtifactsOK(serving[h])

HeatmapInv ==
    /\ HeatmapTypeOK
    /\ CreationInv
    /\ ArtifactInv
    /\ AnswersHold

------------------------------------------------------------------------------
LEMMA InitHeatmap == HeatmapConstantsOK /\ HeatmapInit => HeatmapInv
BY DEF HeatmapInit, HeatmapInv, HeatmapTypeOK, CreationInv, ArtifactInv, AnswersHold,
       HeatmapConstantsOK, Final, ErrorCode, Report, ArtifactsOK

(* Every step leaves the rows and processes with values of their types.    *)
LEMMA StepType ==
    ASSUME HeatmapConstantsOK, HeatmapTypeOK, [HeatmapNext]_heatmapVars
    PROVE  HeatmapTypeOK'
<1>. USE DEF HeatmapTypeOK, runVars, createVars, storeVars, timeVars, handlerVars
<1>1. ASSUME NEW r \in Runs, CreateRun(r) PROVE HeatmapTypeOK'
  BY <1>1 DEF CreateRun
<1>2. ASSUME NEW r \in Runs, Prepare(r) PROVE HeatmapTypeOK'
  BY <1>2 DEF Prepare
<1>3. ASSUME NEW r \in Runs, SubmitAccepted(r) PROVE HeatmapTypeOK'
  BY <1>3 DEF SubmitAccepted
<1>4. ASSUME NEW r \in Runs, SubmitFails(r) PROVE HeatmapTypeOK'
  BY <1>4 DEF SubmitFails
<1>5. ASSUME NEW r \in Runs, FailCreation(r) PROVE HeatmapTypeOK'
  BY <1>5 DEF FailCreation, CreateErrorOf, MarkFailed, ErrorCode, Final
<1>6. ASSUME NEW r \in Runs, AbandonCreation(r) PROVE HeatmapTypeOK'
  BY <1>6 DEF AbandonCreation
<1>7. ASSUME NEW r \in Runs, NEW t \in Inputs, UploadCsv(r, t) PROVE HeatmapTypeOK'
  BY <1>7 DEF UploadCsv
<1>8. ASSUME NEW r \in Runs, UploadHeatmap(r) PROVE HeatmapTypeOK'
  BY <1>8 DEF UploadHeatmap
<1>9. ASSUME NEW r \in Runs, ReportCompleted(r) PROVE HeatmapTypeOK'
  BY <1>9 DEF ReportCompleted, Report
<1>10. ASSUME NEW r \in Runs, Acknowledged(r) PROVE HeatmapTypeOK'
  BY <1>10 DEF Acknowledged
<1>11. ASSUME NEW r \in Runs, ReportFailed(r) PROVE HeatmapTypeOK'
  BY <1>11 DEF ReportFailed, Report
<1>12. ASSUME NEW r \in Runs, LoseTask(r) PROVE HeatmapTypeOK'
  BY <1>12 DEF LoseTask
<1>13. ASSUME NEW h \in Handlers, NEW m \in wire, ReceiveRepeated(h, m[1], m[2])
       PROVE  HeatmapTypeOK'
  BY <1>13 DEF ReceiveRepeated, Final
<1>14. ASSUME NEW h \in Handlers, NEW m \in wire, ReceiveFirst(h, m[1], m[2])
       PROVE  HeatmapTypeOK'
  BY <1>14 DEF ReceiveFirst, Hold, StageFor, Report
<1>15. ASSUME NEW h \in Handlers, FailRun(h) PROVE HeatmapTypeOK'
  BY <1>15 DEF FailRun, MarkFailed, Failable, Release, Report, ErrorCode, Final
<1>16. ASSUME NEW h \in Handlers, VerifyArtifacts(h) PROVE HeatmapTypeOK'
  BY <1>16 DEF VerifyArtifacts, Verification
<1>17. ASSUME NEW h \in Handlers, RejectArtifacts(h) PROVE HeatmapTypeOK'
  BY <1>17 DEF RejectArtifacts, MarkFailed, Release, Report, ErrorCode, Final
<1>18. ASSUME NEW h \in Handlers, CompleteRun(h) PROVE HeatmapTypeOK'
  BY <1>18 DEF CompleteRun, MarkCompleted, Release, Report, Final
<1>19. ASSUME NEW h \in Handlers, CompleteTooLate(h) PROVE HeatmapTypeOK'
  BY <1>19 DEF CompleteTooLate
<1>20. ASSUME NEW h \in Handlers, Reread(h) PROVE HeatmapTypeOK'
  BY <1>20 DEF Reread, Release, Report, Final
<1>21. ASSUME NEW h \in Handlers, AbandonRequest(h) PROVE HeatmapTypeOK'
  BY <1>21 DEF AbandonRequest, Release, Report
<1>22. ASSUME NEW r \in Runs, DeadlinePasses(r) \/ TokenLapses(r) PROVE HeatmapTypeOK'
  BY <1>22 DEF DeadlinePasses, TokenLapses
<1>23. CASE ExpireOverdueRuns
  BY <1>23 DEF ExpireOverdueRuns, ErrorCode, Final
<1>24. CASE UNCHANGED heatmapVars
  BY <1>24 DEF heatmapVars
<1>. QED
  BY <1>1, <1>2, <1>3, <1>4, <1>5, <1>6, <1>7, <1>8, <1>9, <1>10, <1>11, <1>12, <1>13, <1>14,
     <1>15, <1>16, <1>17, <1>18, <1>19, <1>20, <1>21, <1>22, <1>23, <1>24
  DEF HeatmapNext, CreateStep, TaskStep, HandlerStep, Fault
------------------------------------------------------------------------------
(* The steps that touch a row, the object store or an acknowledgement.     *)
LoudStep ==
    \/ \E r \in Runs : \/ CreateRun(r) \/ FailCreation(r) \/ UploadHeatmap(r)
                       \/ \E t \in Inputs : UploadCsv(r, t)
    \/ \E h \in Handlers : \/ \E m \in wire : ReceiveRepeated(h, m[1], m[2])
                           \/ FailRun(h) \/ RejectArtifacts(h) \/ CompleteRun(h) \/ Reread(h)
    \/ ExpireOverdueRuns

Quiet == UNCHANGED <<status, csvs, heatmap, told>>

LEMMA QuietOrLoud ==
    ASSUME [HeatmapNext]_heatmapVars
    PROVE  Quiet \/ LoudStep
<1>. USE DEF runVars, storeVars, Quiet
<1>1. ASSUME NEW r \in Runs, CreateStep(r) \/ DeadlinePasses(r) \/ TokenLapses(r)
      PROVE  Quiet \/ LoudStep
  BY <1>1 DEF CreateStep, LoudStep, Prepare, SubmitAccepted, SubmitFails, DeadlinePasses,
              TokenLapses
<1>2. ASSUME NEW r \in Runs, TaskStep(r)
      PROVE  Quiet \/ LoudStep
  BY <1>2 DEF TaskStep, LoudStep, ReportCompleted, Acknowledged, ReportFailed
<1>3. ASSUME NEW h \in Handlers, HandlerStep(h)
      PROVE  Quiet \/ LoudStep
  BY <1>3 DEF HandlerStep, LoudStep, ReceiveFirst, VerifyArtifacts, CompleteTooLate
<1>4. CASE Fault
  BY <1>4 DEF Fault, AbandonCreation, LoseTask, AbandonRequest
<1>. QED
  BY <1>1, <1>2, <1>3, <1>4 DEF HeatmapNext, LoudStep, heatmapVars

(* A row moves on, and one that has ended stays as it ended.               *)
LEMMA StatusStep ==
    ASSUME HeatmapTypeOK, CreationInv, [HeatmapNext]_heatmapVars, NEW r \in Runs
    PROVE  \/ status'[r] = status[r]
           \/ status[r] = "absent" /\ status'[r] = "processing"
           \/ status[r] = "processing" /\ status'[r] \in Final
<1>. DEFINE Moves == \/ status'[r] = status[r]
                     \/ status[r] = "absent" /\ status'[r] = "processing"
                     \/ status[r] = "processing" /\ status'[r] \in Final
<1>. USE DEF HeatmapTypeOK, Final
<1>1. ASSUME NEW q \in Runs, CreateRun(q) PROVE Moves
  BY <1>1 DEF CreateRun, CreationInv
<1>2. ASSUME NEW q \in Runs, FailCreation(q) PROVE Moves
  BY <1>2 DEF FailCreation, MarkFailed, Failable, runVars
<1>3. ASSUME NEW q \in Runs, UploadHeatmap(q) \/ \E t \in Inputs : UploadCsv(q, t) PROVE Moves
  BY <1>3 DEF UploadHeatmap, UploadCsv, runVars
<1>4. ASSUME NEW h \in Handlers, \E m \in wire : ReceiveRepeated(h, m[1], m[2]) PROVE Moves
  BY <1>4 DEF ReceiveRepeated, runVars
<1>5. ASSUME NEW h \in Handlers, FailRun(h) \/ RejectArtifacts(h) PROVE Moves
  BY <1>5 DEF FailRun, RejectArtifacts, MarkFailed, Failable, runVars
<1>6. ASSUME NEW h \in Handlers, CompleteRun(h) PROVE Moves
  BY <1>6 DEF CompleteRun, MarkCompleted, Completable
<1>7. ASSUME NEW h \in Handlers, Reread(h) PROVE Moves
  BY <1>7 DEF Reread, runVars
<1>8. CASE ExpireOverdueRuns
  BY <1>8 DEF ExpireOverdueRuns, Expirable
<1>. QED
  BY <1>1, <1>2, <1>3, <1>4, <1>5, <1>6, <1>7, <1>8, QuietOrLoud DEF LoudStep, Quiet

(* Artifacts that satisfy the callback's verification stay as they are.    *)
LEMMA StoredStep ==
    ASSUME HeatmapTypeOK, ArtifactInv, [HeatmapNext]_heatmapVars, NEW r \in Runs, ArtifactsOK(r)
    PROVE  ArtifactsOK(r)'
<1>. USE DEF ArtifactsOK, AllCsvs
<1>1. CASE UNCHANGED <<csvs, heatmap>>
  BY <1>1
<1>2. ASSUME NEW q \in Runs, NEW t \in Inputs, UploadCsv(q, t) PROVE ArtifactsOK(r)'
  BY <1>2 DEF UploadCsv
<1>3. ASSUME NEW q \in Runs, UploadHeatmap(q) PROVE ArtifactsOK(r)'
  <2>1. q # r
    BY <1>3 DEF UploadHeatmap, ArtifactInv
  <2>. QED
    BY <1>3, <2>1 DEF UploadHeatmap, HeatmapTypeOK
<1>4. LoudStep => \/ UNCHANGED <<csvs, heatmap>>
                  \/ \E q \in Runs : UploadHeatmap(q) \/ \E t \in Inputs : UploadCsv(q, t)
  BY DEF LoudStep, CreateRun, FailCreation, ReceiveRepeated, FailRun, RejectArtifacts,
         CompleteRun, Reread, ExpireOverdueRuns, storeVars
<1>. QED
  BY <1>1, <1>2, <1>3, <1>4, QuietOrLoud DEF Quiet
------------------------------------------------------------------------------
(* Preservation of the invariant.                                          *)

LEMMA StepCreation ==
    ASSUME HeatmapTypeOK, CreationInv, [HeatmapNext]_heatmapVars
    PROVE  CreationInv'
<1>. USE DEF HeatmapTypeOK, CreationInv, Final, runVars, createVars, storeVars, timeVars
<1>1. ASSUME NEW r \in Runs, CreateRun(r) PROVE CreationInv'
  BY <1>1 DEF CreateRun
<1>2. ASSUME NEW r \in Runs, Prepare(r) PROVE CreationInv'
  BY <1>2 DEF Prepare
<1>3. ASSUME NEW r \in Runs, SubmitAccepted(r) \/ SubmitFails(r) PROVE CreationInv'
  BY <1>3 DEF SubmitAccepted, SubmitFails
<1>4. ASSUME NEW r \in Runs, FailCreation(r) PROVE CreationInv'
  BY <1>4 DEF FailCreation, CreateErrorOf, MarkFailed, Failable
<1>5. ASSUME NEW r \in Runs, AbandonCreation(r) PROVE CreationInv'
  BY <1>5 DEF AbandonCreation
<1>6. ASSUME NEW r \in Runs, TaskStep(r) \/ LoseTask(r) PROVE CreationInv'
  <2>1. ASSUME NEW t \in Inputs, UploadCsv(r, t) PROVE CreationInv'
    BY <2>1 DEF UploadCsv
  <2>2. CASE UploadHeatmap(r)
    BY <2>2 DEF UploadHeatmap
  <2>3. CASE ReportCompleted(r) \/ Acknowledged(r)
    BY <2>3 DEF ReportCompleted, Acknowledged
  <2>4. CASE ReportFailed(r) \/ LoseTask(r)
    BY <2>4 DEF ReportFailed, LoseTask
  <2>. QED
    BY <1>6, <2>1, <2>2, <2>3, <2>4 DEF TaskStep
<1>7. ASSUME NEW r \in Runs, DeadlinePasses(r) \/ TokenLapses(r) PROVE CreationInv'
  BY <1>7 DEF DeadlinePasses, TokenLapses
<1>8. ASSUME NEW h \in Handlers, FailRun(h) \/ RejectArtifacts(h) PROVE CreationInv'
  BY <1>8 DEF FailRun, RejectArtifacts, MarkFailed, Failable
<1>9. ASSUME NEW h \in Handlers, CompleteRun(h) PROVE CreationInv'
  BY <1>9 DEF CompleteRun, MarkCompleted, Completable
<1>10. ASSUME NEW h \in Handlers, NEW m \in wire,
              ReceiveRepeated(h, m[1], m[2]) \/ ReceiveFirst(h, m[1], m[2])
       PROVE  CreationInv'
  BY <1>10 DEF ReceiveRepeated, ReceiveFirst
<1>11. ASSUME NEW h \in Handlers,
              VerifyArtifacts(h) \/ CompleteTooLate(h) \/ Reread(h) \/ AbandonRequest(h)
       PROVE  CreationInv'
  BY <1>11 DEF VerifyArtifacts, CompleteTooLate, Reread, AbandonRequest
<1>12. CASE ExpireOverdueRuns
  BY <1>12 DEF ExpireOverdueRuns, Expirable
<1>13. CASE UNCHANGED heatmapVars
  BY <1>13 DEF heatmapVars
<1>. HIDE DEF HeatmapTypeOK, CreationInv
<1>14. ASSUME NEW r \in Runs, CreateStep(r) PROVE CreationInv'
  BY <1>1, <1>2, <1>3, <1>4, <1>14 DEF CreateStep
<1>15. ASSUME NEW h \in Handlers, HandlerStep(h) PROVE CreationInv'
  BY <1>8, <1>9, <1>10, <1>11, <1>15 DEF HandlerStep
<1>16. CASE Fault
  BY <1>5, <1>6, <1>11, <1>16 DEF Fault
<1>. QED
  BY <1>6, <1>7, <1>12, <1>13, <1>14, <1>15, <1>16 DEF HeatmapNext

(* A handler comes to complete a run only by verifying its artifacts.      *)
LEMMA StageStep ==
    ASSUME HeatmapTypeOK, [HeatmapNext]_heatmapVars, NEW h \in Handlers,
           stage'[h] = "complete"
    PROVE  /\ serving'[h] = serving[h]
           /\ serving[h] \in Runs
           /\ stage[h] = "complete" \/ ArtifactsOK(serving[h])
<1>. DEFINE Verified == /\ serving'[h] = serving[h]
                        /\ serving[h] \in Runs
                        /\ stage[h] = "complete" \/ ArtifactsOK(serving[h])
<1>. USE DEF HeatmapTypeOK
<1>1. CASE UNCHANGED handlerVars
  BY <1>1 DEF handlerVars
<1>2. ASSUME NEW g \in Handlers, FailRun(g) \/ RejectArtifacts(g) \/ CompleteRun(g) \/ Reread(g)
                                 \/ AbandonRequest(g)
      PROVE  Verified
  BY <1>2 DEF FailRun, RejectArtifacts, CompleteRun, Reread, AbandonRequest, Release
<1>3. ASSUME NEW g \in Handlers, NEW m \in wire, ReceiveFirst(g, m[1], m[2]) PROVE Verified
  BY <1>3 DEF ReceiveFirst, Hold, StageFor
<1>4. ASSUME NEW g \in Handlers, VerifyArtifacts(g) PROVE Verified
  BY <1>4 DEF VerifyArtifacts, Verification
<1>5. ASSUME NEW g \in Handlers, CompleteTooLate(g) PROVE Verified
  BY <1>5 DEF CompleteTooLate
<1>6. ASSUME NEW r \in Runs, CreateStep(r) \/ TaskStep(r) PROVE UNCHANGED handlerVars
  BY <1>6 DEF CreateStep, CreateRun, Prepare, SubmitAccepted, SubmitFails, FailCreation,
              TaskStep, UploadCsv, UploadHeatmap, ReportCompleted, Acknowledged, ReportFailed
<1>7. ASSUME NEW r \in Runs, AbandonCreation(r) \/ LoseTask(r) \/ DeadlinePasses(r) \/ TokenLapses(r)
      PROVE  UNCHANGED handlerVars
  BY <1>7 DEF AbandonCreation, LoseTask, DeadlinePasses, TokenLapses
<1>8. CASE ExpireOverdueRuns
  BY <1>8, <1>1 DEF ExpireOverdueRuns
<1>9. ASSUME NEW g \in Handlers, NEW m \in wire, ReceiveRepeated(g, m[1], m[2])
      PROVE  UNCHANGED handlerVars
  BY <1>9 DEF ReceiveRepeated
<1>10. UNCHANGED heatmapVars => UNCHANGED handlerVars
  BY DEF heatmapVars
<1>. QED
  BY <1>1, <1>2, <1>3, <1>4, <1>5, <1>6, <1>7, <1>8, <1>9, <1>10
  DEF HeatmapNext, HandlerStep, Fault

(* The heatmap object is missing until the only task of the run uploads it. *)
LEMMA StepMissing ==
    ASSUME HeatmapTypeOK, CreationInv, ArtifactInv, [HeatmapNext]_heatmapVars,
           NEW r \in Runs, task'[r] \in {"none", "analyze"}
    PROVE  heatmap'[r] = "missing"
<1>. DEFINE Missing == heatmap'[r] = "missing"
<1>. USE DEF HeatmapTypeOK, ArtifactInv
<1>1. CASE UNCHANGED <<task, heatmap>>
  BY <1>1
<1>2. ASSUME NEW q \in Runs, SubmitAccepted(q) \/ SubmitFails(q) PROVE Missing
  BY <1>2 DEF SubmitAccepted, SubmitFails, CreationInv, storeVars
<1>3. ASSUME NEW q \in Runs, TaskStep(q) \/ LoseTask(q) PROVE Missing
  <2>1. CASE \E t \in Inputs : UploadCsv(q, t)
    BY <2>1, <1>1 DEF UploadCsv
  <2>2. CASE UploadHeatmap(q)
    BY <2>2 DEF UploadHeatmap
  <2>3. CASE ReportCompleted(q) \/ Acknowledged(q) \/ ReportFailed(q) \/ LoseTask(q)
    BY <2>3 DEF ReportCompleted, Acknowledged, ReportFailed, LoseTask, storeVars
  <2>. QED
    BY <1>3, <2>1, <2>2, <2>3 DEF TaskStep
<1>4. ASSUME NEW q \in Runs, CreateRun(q) \/ Prepare(q) \/ FailCreation(q) \/ AbandonCreation(q)
                             \/ DeadlinePasses(q) \/ TokenLapses(q)
      PROVE  UNCHANGED <<task, heatmap>>
  BY <1>4 DEF CreateRun, Prepare, FailCreation, AbandonCreation, DeadlinePasses, TokenLapses,
              storeVars
<1>5. ASSUME NEW h \in Handlers, HandlerStep(h) \/ AbandonRequest(h)
      PROVE  UNCHANGED <<task, heatmap>>
  BY <1>5 DEF HandlerStep, ReceiveRepeated, ReceiveFirst, FailRun, VerifyArtifacts,
              RejectArtifacts, CompleteRun, CompleteTooLate, Reread, AbandonRequest, storeVars
<1>6. ExpireOverdueRuns \/ UNCHANGED heatmapVars => UNCHANGED <<task, heatmap>>
  BY DEF ExpireOverdueRuns, heatmapVars, storeVars
<1>. QED
  BY <1>1, <1>2, <1>3, <1>4, <1>5, <1>6 DEF HeatmapNext, CreateStep, Fault

(* Only CompleteRun completes a run.                                       *)
LEMMA CompletionStep ==
    ASSUME HeatmapTypeOK, [HeatmapNext]_heatmapVars, NEW r \in Runs,
           status'[r] = "completed", status[r] # "completed"
    PROVE  \E h \in Handlers : stage[h] = "complete" /\ serving[h] = r
<1>. DEFINE Held == \E h \in Handlers : stage[h] = "complete" /\ serving[h] = r
<1>. USE DEF HeatmapTypeOK, runVars
<1>1. ASSUME NEW q \in Runs, CreateRun(q) PROVE Held
  BY <1>1 DEF CreateRun
<1>2. ASSUME NEW q \in Runs, FailCreation(q) PROVE Held
  BY <1>2 DEF FailCreation, MarkFailed
<1>3. ASSUME NEW q \in Runs, UploadHeatmap(q) \/ \E t \in Inputs : UploadCsv(q, t) PROVE Held
  BY <1>3 DEF UploadHeatmap, UploadCsv
<1>4. ASSUME NEW h \in Handlers, (\E m \in wire : ReceiveRepeated(h, m[1], m[2])) \/ Reread(h)
      PROVE  Held
  BY <1>4 DEF ReceiveRepeated, Reread
<1>5. ASSUME NEW h \in Handlers, FailRun(h) \/ RejectArtifacts(h) PROVE Held
  BY <1>5 DEF FailRun, RejectArtifacts, MarkFailed
<1>6. ASSUME NEW h \in Handlers, CompleteRun(h) PROVE Held
  BY <1>6 DEF CompleteRun, MarkCompleted
<1>7. CASE ExpireOverdueRuns
  BY <1>7 DEF ExpireOverdueRuns
<1>. QED
  BY <1>1, <1>2, <1>3, <1>4, <1>5, <1>6, <1>7, QuietOrLoud DEF LoudStep, Quiet

LEMMA StepArtifacts ==
    ASSUME HeatmapTypeOK, CreationInv, ArtifactInv, [HeatmapNext]_heatmapVars
    PROVE  ArtifactInv'
<1>1. ASSUME NEW r \in Runs, task'[r] \in {"none", "analyze"} PROVE heatmap'[r] = "missing"
  BY <1>1, StepMissing
<1>2. ASSUME NEW r \in Runs, status'[r] = "completed" PROVE ArtifactsOK(r)'
  <2>1. ArtifactsOK(r)
    BY <1>2, CompletionStep DEF ArtifactInv
  <2>. QED
    BY <2>1, StoredStep
<1>3. ASSUME NEW h \in Handlers, stage'[h] = "complete" PROVE ArtifactsOK(serving[h])'
  <2>1. serving'[h] = serving[h] /\ serving[h] \in Runs /\ ArtifactsOK(serving[h])
    BY <1>3, StageStep DEF ArtifactInv
  <2>2. ArtifactsOK(serving[h]) => heatmap'[serving[h]] = "valid"
                                    /\ {serving[h]} \X InputsOf[serving[h]] \subseteq csvs'
    BY <2>1, StoredStep DEF ArtifactsOK, AllCsvs
  <2>. QED
    BY <2>1, <2>2 DEF ArtifactsOK, AllCsvs
<1>. QED
  BY <1>1, <1>2, <1>3 DEF ArtifactInv
(* An acknowledgement that is new tells the run's outcome.                 *)
LEMMA ToldStep ==
    ASSUME HeatmapTypeOK, [HeatmapNext]_heatmapVars, NEW r \in Runs, NEW s \in Final,
           <<r, s>> \in told', <<r, s>> \notin told
    PROVE  status'[r] = s
<1>. DEFINE True == status'[r] = s
<1>. USE DEF HeatmapTypeOK, runVars, Final
<1>1. ASSUME NEW h \in Handlers, NEW m \in wire, ReceiveRepeated(h, m[1], m[2]) PROVE True
  BY <1>1 DEF ReceiveRepeated
<1>2. ASSUME NEW h \in Handlers, FailRun(h) PROVE True
  BY <1>2 DEF FailRun, MarkFailed
<1>3. ASSUME NEW h \in Handlers, CompleteRun(h) PROVE True
  BY <1>3 DEF CompleteRun, MarkCompleted
<1>4. ASSUME NEW h \in Handlers, Reread(h) PROVE True
  BY <1>4 DEF Reread, AlreadyCompleted
<1>5. ASSUME NEW q \in Runs, CreateRun(q) \/ FailCreation(q) \/ UploadHeatmap(q)
                             \/ \E t \in Inputs : UploadCsv(q, t)
      PROVE  told' = told
  BY <1>5 DEF CreateRun, FailCreation, UploadHeatmap, UploadCsv
<1>6. ASSUME NEW h \in Handlers, RejectArtifacts(h) PROVE told' = told
  BY <1>6 DEF RejectArtifacts
<1>7. ExpireOverdueRuns => told' = told
  BY DEF ExpireOverdueRuns
<1>. QED
  BY <1>1, <1>2, <1>3, <1>4, <1>5, <1>6, <1>7, QuietOrLoud DEF LoudStep, Quiet

CreateErrors == {"ANALYSIS_PREPARATION_FAILED", "NOZOMI_REQUEST_FAILED"}

(* A create request answers an error once its run has ended.               *)
LEMMA AnswerStep ==
    ASSUME HeatmapTypeOK, CreationInv, [HeatmapNext]_heatmapVars, NEW r \in Runs,
           answer'[r] \in CreateErrors, answer[r] \notin CreateErrors
    PROVE  status'[r] \in Final
<1>. DEFINE Ended == status'[r] \in Final
<1>. USE DEF HeatmapTypeOK, CreateErrors
<1>1. ASSUME NEW q \in Runs, FailCreation(q) PROVE Ended
  <2>1. q = r
    BY <1>1 DEF FailCreation
  <2>2. status[r] # "absent"
    BY <1>1, <2>1 DEF FailCreation, CreateErrorOf, CreationInv
  <2>. QED
    BY <1>1, <2>1, <2>2 DEF FailCreation, MarkFailed, Failable, Final, runVars
<1>2. ASSUME NEW q \in Runs, SubmitAccepted(q) PROVE Ended
  BY <1>2 DEF SubmitAccepted
<1>3. ASSUME NEW q \in Runs,
             CreateRun(q) \/ Prepare(q) \/ SubmitFails(q) \/ AbandonCreation(q) \/ LoseTask(q)
             \/ DeadlinePasses(q) \/ TokenLapses(q)
      PROVE  answer' = answer
  BY <1>3 DEF CreateRun, Prepare, SubmitFails, AbandonCreation, LoseTask, DeadlinePasses,
              TokenLapses, createVars
<1>4. ASSUME NEW q \in Runs, TaskStep(q) PROVE answer' = answer
  BY <1>4 DEF TaskStep, UploadCsv, UploadHeatmap, ReportCompleted, Acknowledged, ReportFailed,
              createVars
<1>5. ASSUME NEW h \in Handlers, HandlerStep(h) \/ AbandonRequest(h) PROVE answer' = answer
  BY <1>5 DEF HandlerStep, ReceiveRepeated, ReceiveFirst, FailRun, VerifyArtifacts,
              RejectArtifacts, CompleteRun, CompleteTooLate, Reread, AbandonRequest, createVars
<1>6. ExpireOverdueRuns \/ UNCHANGED heatmapVars => answer' = answer
  BY DEF ExpireOverdueRuns, heatmapVars, createVars
<1>7. answer' # answer
  OBVIOUS
<1>. HIDE DEF HeatmapTypeOK
<1>. QED
  BY <1>1, <1>2, <1>3, <1>4, <1>5, <1>6, <1>7 DEF HeatmapNext, CreateStep, Fault

LEMMA StepAnswers ==
    ASSUME HeatmapTypeOK, CreationInv, AnswersHold, [HeatmapNext]_heatmapVars
    PROVE  AnswersHold'
<1>1. ASSUME NEW r \in Runs, NEW s \in Final, <<r, s>> \in told' PROVE status'[r] = s
  <2>1. CASE <<r, s>> \in told
    BY <2>1, StatusStep DEF AnswersHold, Final
  <2>. QED
    BY <1>1, <2>1, ToldStep
<1>2. ASSUME NEW r \in Runs, answer'[r] \in CreateErrors PROVE status'[r] \in Final
  <2>1. CASE answer[r] \in CreateErrors
    <3>1. status[r] \in Final
      BY <2>1 DEF AnswersHold, CreateErrors
    <3>. QED
      BY <3>1, StatusStep DEF Final
  <2>. QED
    BY <1>2, <2>1, AnswerStep
<1>. QED
  BY <1>1, <1>2 DEF AnswersHold, CreateErrors

------------------------------------------------------------------------------
THEOREM HeatmapInvariant == HeatmapSpec => []HeatmapInv
<1>1. HeatmapInit => HeatmapInv
  BY HeatmapConstantsOK, InitHeatmap
<1>2. HeatmapInv /\ [HeatmapNext]_heatmapVars => HeatmapInv'
  BY HeatmapConstantsOK, StepType, StepCreation, StepArtifacts, StepAnswers DEF HeatmapInv
<1>. QED
  BY <1>1, <1>2, PTL DEF HeatmapSpec

(* Rows, requests, tasks and callbacks in hand stay well-formed.           *)
THEOREM HeatmapTypeCorrect == HeatmapSpec => []HeatmapTypeOK
BY HeatmapInvariant, PTL DEF HeatmapInv

(* A completed run has the artifacts the callback verifies, whichever      *)
(* process failed where, and however many callbacks were in flight.        *)
THEOREM CompletedArtifacts == HeatmapSpec => []CompletedHasArtifacts
<1>1. HeatmapInv => CompletedHasArtifacts
  BY DEF HeatmapInv, ArtifactInv, CompletedHasArtifacts
<1>. QED
  BY <1>1, HeatmapInvariant, PTL

(* What Nozomi and the caller of createStayHeatmap were answered stays     *)
(* true.                                                                   *)
THEOREM AnswersStayTrue == HeatmapSpec => []AnswersHold
BY HeatmapInvariant, PTL DEF HeatmapInv
------------------------------------------------------------------------------
(* Refinement of AnalysisLifeCycle.                                        *)

Outcome == [r \in Runs |-> IF status[r] = "processing" THEN "open" ELSE status[r]]
Stored == {r \in Runs : ArtifactsOK(r)}

(* The step that leaves the objects alone leaves the outputs of every run. *)
LEMMA SameStored ==
    ASSUME csvs' = csvs, heatmap' = heatmap
    PROVE  Stored' = Stored
BY DEF Stored, ArtifactsOK, AllCsvs

(* The actions of the abstract life cycle, in terms of Outcome and Stored. *)
LEMMA LifeOpen ==
    ASSUME NEW r \in Runs, Outcome[r] = "absent", Outcome' = [Outcome EXCEPT ![r] = "open"],
           Stored' = Stored, told' = told
    PROVE  LC!LifeNext
<1>1. LC!Open(r)
  BY DEF LC!Open, Outcome, Stored
<1>. QED
  BY <1>1 DEF LC!LifeNext

LEMMA LifeStore ==
    ASSUME NEW r \in Runs, r \notin Stored, Stored' = Stored \cup {r},
           Outcome' = Outcome, told' = told
    PROVE  LC!LifeNext
<1>1. LC!StoreOutputs(r)
  BY DEF LC!StoreOutputs, Outcome, Stored
<1>. QED
  BY <1>1 DEF LC!LifeNext

LEMMA LifeClose ==
    ASSUME NEW r \in Runs, NEW verdict \in Final, Outcome[r] = "open",
           verdict = "completed" => r \in Stored,
           Outcome' = [Outcome EXCEPT ![r] = verdict], Stored' = Stored,
           told' \in {told, told \cup {<<r, verdict>>}}
    PROVE  LC!LifeNext
<1>1. LC!Close(r, verdict)
  BY DEF LC!Close, Outcome, Stored
<1>. QED
  BY <1>1 DEF LC!LifeNext, Final

LEMMA LifeTell ==
    ASSUME NEW r \in Runs, Outcome[r] \in Final, told' = told \cup {<<r, Outcome[r]>>},
           Outcome' = Outcome, Stored' = Stored
    PROVE  LC!LifeNext
<1>1. LC!Tell(r)
  BY DEF LC!Tell, Outcome, Stored, Final
<1>. QED
  BY <1>1 DEF LC!LifeNext

LEMMA LifeCloseLate ==
    ASSUME NEW overdueRuns \in SUBSET Runs, \A r \in overdueRuns : Outcome[r] = "open",
           Outcome' = [r \in Runs |-> IF r \in overdueRuns THEN "failed" ELSE Outcome[r]],
           Stored' = Stored, told' = told
    PROVE  LC!LifeNext
<1>1. LC!CloseLate(overdueRuns)
  BY DEF LC!CloseLate, Outcome, Stored
<1>2. \E late \in SUBSET Runs : LC!CloseLate(late)
  BY <1>1
<1>. QED
  BY <1>2 DEF LC!LifeNext

LEMMA LifeStutter ==
    ASSUME Outcome' = Outcome, Stored' = Stored, told' = told
    PROVE  UNCHANGED LC!lifeVars
BY DEF LC!lifeVars, Outcome, Stored

LEMMA InitLife == HeatmapInit => LC!LifeInit
BY DEF HeatmapInit, LC!LifeInit, ArtifactsOK

(* Uploading one object either completes the outputs of a run, or is not   *)
(* seen.                                                                   *)
LEMMA UploadLife ==
    ASSUME HeatmapInv, NEW r \in Runs,
           UploadHeatmap(r) \/ \E t \in Inputs : UploadCsv(r, t)
    PROVE  \/ Stored' = Stored
           \/ r \notin Stored /\ Stored' = Stored \cup {r}
<1>0. HeatmapNext
  BY DEF HeatmapNext, TaskStep
<1>1. ArtifactsOK(r) => ArtifactsOK(r)'
  BY <1>0, StoredStep DEF HeatmapInv
<1>2. ASSUME NEW q \in Runs, q # r PROVE ArtifactsOK(q)' <=> ArtifactsOK(q)
  <2>1. heatmap'[q] = heatmap[q]
    BY <1>2 DEF UploadHeatmap, UploadCsv, HeatmapInv, HeatmapTypeOK
  <2>2. ASSUME NEW t PROVE <<q, t>> \in csvs' <=> <<q, t>> \in csvs
    BY <1>2 DEF UploadHeatmap, UploadCsv
  <2>. QED
    BY <2>1, <2>2 DEF ArtifactsOK, AllCsvs
<1>3. \A q \in Runs : q \in Stored' <=> q \in Stored \/ (q = r /\ ArtifactsOK(r)')
  <2>1. ASSUME NEW q \in Runs PROVE q \in Stored' <=> ArtifactsOK(q)'
    BY DEF Stored
  <2>2. ASSUME NEW q \in Runs PROVE q \in Stored <=> ArtifactsOK(q)
    BY DEF Stored
  <2>. QED
    BY <1>1, <1>2, <2>1, <2>2
<1>4. Stored \subseteq Runs /\ Stored' \subseteq Runs
  BY DEF Stored
<1>5. CASE r \in Stored \/ ~ArtifactsOK(r)'
  <2>1. Stored' = Stored
    BY <1>3, <1>4, <1>5
  <2>. QED
    BY <2>1
<1>6. CASE r \notin Stored /\ ArtifactsOK(r)'
  <2>1. Stored' = Stored \cup {r}
    BY <1>3, <1>4, <1>6
  <2>. QED
    BY <2>1, <1>6
<1>. QED
  BY <1>5, <1>6

LEMMA StepLife ==
    ASSUME HeatmapInv, [HeatmapNext]_heatmapVars
    PROVE  [LC!LifeNext]_(LC!lifeVars)
<1>. DEFINE Life == [LC!LifeNext]_(LC!lifeVars)
<1>. USE DEF HeatmapTypeOK, runVars, storeVars
<1>0. HeatmapTypeOK /\ CreationInv /\ ArtifactInv
  BY DEF HeatmapInv
<1>1. CASE Quiet
  BY <1>1, SameStored, LifeStutter DEF Quiet, Outcome
<1>2. ASSUME NEW r \in Runs, CreateRun(r) PROVE Life
  <2>1. Stored' = Stored /\ told' = told
    BY <1>2, SameStored DEF CreateRun
  <2>2. Outcome[r] = "absent" /\ Outcome' = [Outcome EXCEPT ![r] = "open"]
    BY <1>0, <1>2 DEF CreateRun, CreationInv, Outcome
  <2>. QED
    BY <2>1, <2>2, LifeOpen
<1>3. ASSUME NEW r \in Runs, FailCreation(r) PROVE Life
  <2>1. Stored' = Stored /\ told' = told
    BY <1>3, SameStored DEF FailCreation
  <2>2. CASE Failable(r)
    <3>1. status[r] = "processing" /\ status' = [status EXCEPT ![r] = "failed"]
      BY <1>3, <2>2 DEF FailCreation, MarkFailed, Failable
    <3>2. Outcome[r] = "open" /\ Outcome' = [Outcome EXCEPT ![r] = "failed"]
      BY <1>0, <3>1 DEF Outcome
    <3>. QED
      BY <2>1, <3>2, LifeClose DEF Final
  <2>3. CASE ~Failable(r)
    BY <1>3, <2>1, <2>3, LifeStutter DEF FailCreation, MarkFailed, Outcome
  <2>. QED
    BY <2>2, <2>3
<1>4. ASSUME NEW r \in Runs, UploadHeatmap(r) \/ \E t \in Inputs : UploadCsv(r, t) PROVE Life
  <2>1. Outcome' = Outcome /\ told' = told
    BY <1>4 DEF UploadHeatmap, UploadCsv, Outcome
  <2>. QED
    BY <1>4, <2>1, UploadLife, LifeStore, LifeStutter
<1>5. ASSUME NEW h \in Handlers, NEW m \in wire, ReceiveRepeated(h, m[1], m[2]) PROVE Life
  <2>1. Stored' = Stored /\ Outcome' = Outcome
    BY <1>5, SameStored DEF ReceiveRepeated, Outcome
  <2>2. m[1] \in Runs
    BY <1>0
  <2>3. Outcome[m[1]] = status[m[1]] /\ status[m[1]] \in Final
    BY <1>5, <2>2 DEF ReceiveRepeated, Outcome, Final
  <2>4. told' = told \cup {<<m[1], Outcome[m[1]]>>}
    BY <1>5, <2>3 DEF ReceiveRepeated
  <2>. QED
    BY <2>1, <2>2, <2>3, <2>4, LifeTell
<1>6. ASSUME NEW h \in Handlers, FailRun(h) \/ RejectArtifacts(h) PROVE Life
  <2>1. serving[h] \in Runs
    BY <1>0, <1>6 DEF FailRun, RejectArtifacts
  <2>2. Stored' = Stored
    BY <1>6, SameStored DEF FailRun, RejectArtifacts
  <2>3. CASE Failable(serving[h])
    <3>1. /\ status[serving[h]] = "processing"
          /\ status' = [status EXCEPT ![serving[h]] = "failed"]
      BY <1>6, <2>3 DEF FailRun, RejectArtifacts, MarkFailed, Failable
    <3>2. Outcome[serving[h]] = "open" /\ Outcome' = [Outcome EXCEPT ![serving[h]] = "failed"]
      BY <1>0, <2>1, <3>1 DEF Outcome
    <3>3. told' \in {told, told \cup {<<serving[h], "failed">>}}
      BY <1>6 DEF FailRun, RejectArtifacts
    <3>. QED
      BY <2>1, <2>2, <3>2, <3>3, LifeClose DEF Final
  <2>4. CASE ~Failable(serving[h])
    BY <1>6, <2>2, <2>4, LifeStutter DEF FailRun, RejectArtifacts, MarkFailed, Outcome
  <2>. QED
    BY <2>3, <2>4
<1>7. ASSUME NEW h \in Handlers, CompleteRun(h) PROVE Life
  <2>1. serving[h] \in Runs /\ serving[h] \in Stored
    BY <1>0, <1>7 DEF CompleteRun, ArtifactInv, Stored
  <2>2. Stored' = Stored
    BY <1>7, SameStored DEF CompleteRun
  <2>3. Outcome[serving[h]] = "open" /\ Outcome' = [Outcome EXCEPT ![serving[h]] = "completed"]
    BY <1>0, <1>7, <2>1 DEF CompleteRun, MarkCompleted, Completable, Outcome
  <2>4. told' = told \cup {<<serving[h], "completed">>}
    BY <1>7 DEF CompleteRun
  <2>. QED
    BY <2>1, <2>2, <2>3, <2>4, LifeClose DEF Final
<1>8. ASSUME NEW h \in Handlers, Reread(h) PROVE Life
  <2>1. serving[h] \in Runs
    BY <1>0, <1>8 DEF Reread
  <2>2. Stored' = Stored /\ Outcome' = Outcome
    BY <1>8, SameStored DEF Reread, Outcome
  <2>3. CASE AlreadyCompleted(serving[h])
    <3>1. Outcome[serving[h]] = "completed"
      BY <2>1, <2>3 DEF AlreadyCompleted, Outcome
    <3>2. told' = told \cup {<<serving[h], "completed">>}
      BY <1>8, <2>3 DEF Reread
    <3>. QED
      BY <2>1, <2>2, <3>1, <3>2, LifeTell DEF Final
  <2>4. CASE ~AlreadyCompleted(serving[h])
    BY <1>8, <2>2, <2>4, LifeStutter DEF Reread
  <2>. QED
    BY <2>3, <2>4
<1>9. CASE ExpireOverdueRuns
  <2>. DEFINE expired == {r \in Runs : Expirable(r)}
  <2>1. Stored' = Stored /\ told' = told
    BY <1>9, SameStored DEF ExpireOverdueRuns
  <2>2. status' = [r \in Runs |-> IF r \in expired THEN "failed" ELSE status[r]]
    BY <1>9 DEF ExpireOverdueRuns
  <2>3. \A r \in expired : status[r] = "processing"
    BY DEF Expirable
  <2>4. Outcome' = [r \in Runs |-> IF r \in expired THEN "failed" ELSE Outcome[r]]
    BY <2>2 DEF Outcome
  <2>5. \A r \in expired : r \in Runs /\ Outcome[r] = "open"
    BY <2>3 DEF Outcome
  <2>. HIDE DEF expired
  <2>6. expired \in SUBSET Runs
    BY DEF expired
  <2>. QED
    BY <2>1, <2>4, <2>5, <2>6, LifeCloseLate
<1>. QED
  BY <1>1, <1>2, <1>3, <1>4, <1>5, <1>6, <1>7, <1>8, <1>9, QuietOrLoud DEF LoudStep

(* Every heatmap run has the life cycle of an analysis: one start, one     *)
(* end, completed only with its artifacts, and no acknowledged outcome     *)
(* undone.                                                                 *)
THEOREM HeatmapLifeCycle == HeatmapSpec => OneLifeCycle
<1>1. HeatmapInit => LC!LifeInit
  BY InitLife
<1>2. HeatmapInv /\ [HeatmapNext]_heatmapVars => [LC!LifeNext]_(LC!lifeVars)
  BY StepLife
<1>. QED
  BY <1>1, <1>2, HeatmapInvariant, PTL DEF HeatmapSpec, OneLifeCycle, LC!LifeCycle
------------------------------------------------------------------------------
(***************************************************************************)
(* Trajectories.                                                           *)
(*                                                                         *)
(* A trajectory exists from its insert on, and Nozomi has no task of one   *)
(* that was not submitted.                                                 *)
(***************************************************************************)
TrajectoryCreationInv ==
    \A t \in Trajectories :
        /\ tCreating[t] = "idle" <=> tStatus[t] = "absent"
        /\ tCreating[t] \in {"idle", "mark", "prepare", "submit"} => tTask[t] = "none"

(* The only task of a trajectory stores its result once, and what a        *)
(* handler is about to complete has a result.                              *)
ResultInv ==
    /\ \A t \in Trajectories : tTask[t] \in {"none", "analyze"} => t \notin results
    /\ \A t \in Trajectories : tStatus[t] = "completed" => t \in results
    /\ \A h \in TrajectoryHandlers : tStage[h] = "complete" => tServing[h] \in results

TrajectoryInv ==
    /\ TrajectoryTypeOK
    /\ TrajectoryCreationInv
    /\ ResultInv
    /\ TrajectoryAnswersHold

LEMMA InitTrajectory == TrajectoryConstantsOK /\ TrajectoryInit => TrajectoryInv
BY DEF TrajectoryInit, TrajectoryInv, TrajectoryTypeOK, TrajectoryCreationInv, ResultInv,
       TrajectoryAnswersHold, TrajectoryConstantsOK, TrajectoryFinal

(* Every step leaves the rows and processes with values of their types.    *)
LEMMA StepTrajectoryType ==
    ASSUME TrajectoryConstantsOK, TrajectoryTypeOK, [TrajectoryNext]_trajectoryVars
    PROVE  TrajectoryTypeOK'
<1>. USE DEF TrajectoryTypeOK, tRowVars, tCreateVars, tHandlerVars, TrajectoryFinal
<1>1. ASSUME NEW t \in Trajectories, InsertTrajectory(t) PROVE TrajectoryTypeOK'
  BY <1>1 DEF InsertTrajectory
<1>2. ASSUME NEW t \in Trajectories, MarkTrajectoryProcessing(t) PROVE TrajectoryTypeOK'
  BY <1>2 DEF MarkTrajectoryProcessing
<1>3. ASSUME NEW t \in Trajectories, PrepareTrajectory(t) PROVE TrajectoryTypeOK'
  BY <1>3 DEF PrepareTrajectory
<1>4. ASSUME NEW t \in Trajectories, TrajectoryAccepted(t) PROVE TrajectoryTypeOK'
  BY <1>4 DEF TrajectoryAccepted
<1>5. ASSUME NEW t \in Trajectories, TrajectorySubmitFails(t) PROVE TrajectoryTypeOK'
  BY <1>5 DEF TrajectorySubmitFails
<1>6. ASSUME NEW t \in Trajectories, FailTrajectoryCreation(t) PROVE TrajectoryTypeOK'
  BY <1>6 DEF FailTrajectoryCreation, TrajectoryErrorOf, MarkTrajectoryFailed
<1>7. ASSUME NEW t \in Trajectories, AbandonTrajectoryCreation(t) PROVE TrajectoryTypeOK'
  BY <1>7 DEF AbandonTrajectoryCreation
<1>8. ASSUME NEW t \in Trajectories, DeleteTrajectory(t) PROVE TrajectoryTypeOK'
  BY <1>8 DEF DeleteTrajectory
<1>9. ASSUME NEW t \in Trajectories, TrajectoryTokenLapses(t) PROVE TrajectoryTypeOK'
  BY <1>9 DEF TrajectoryTokenLapses
<1>10. ASSUME NEW t \in Trajectories, UploadResult(t) PROVE TrajectoryTypeOK'
  BY <1>10 DEF UploadResult
<1>11. ASSUME NEW t \in Trajectories, ReportTrajectoryCompleted(t) PROVE TrajectoryTypeOK'
  BY <1>11 DEF ReportTrajectoryCompleted
<1>12. ASSUME NEW t \in Trajectories, TrajectoryAcknowledged(t) PROVE TrajectoryTypeOK'
  BY <1>12 DEF TrajectoryAcknowledged
<1>13. ASSUME NEW t \in Trajectories, ReportTrajectoryFailed(t) PROVE TrajectoryTypeOK'
  BY <1>13 DEF ReportTrajectoryFailed
<1>14. ASSUME NEW t \in Trajectories, LoseTrajectoryTask(t) PROVE TrajectoryTypeOK'
  BY <1>14 DEF LoseTrajectoryTask
<1>15. ASSUME NEW h \in TrajectoryHandlers, NEW m \in tWire, ReceiveRecorded(h, m[1], m[2])
       PROVE  TrajectoryTypeOK'
  BY <1>15 DEF ReceiveRecorded
<1>16. ASSUME NEW h \in TrajectoryHandlers, NEW m \in tWire, ReceiveOutcome(h, m[1], m[2])
       PROVE  TrajectoryTypeOK'
  BY <1>16 DEF ReceiveOutcome, TrajectoryStage
<1>17. ASSUME NEW h \in TrajectoryHandlers, CheckResult(h) PROVE TrajectoryTypeOK'
  BY <1>17 DEF CheckResult, TrajectoryStage, Leave
<1>18. ASSUME NEW h \in TrajectoryHandlers, CompleteTrajectory(h) PROVE TrajectoryTypeOK'
  BY <1>18 DEF CompleteTrajectory, TrajectoryStage, Leave
<1>19. ASSUME NEW h \in TrajectoryHandlers, FailTrajectory(h) PROVE TrajectoryTypeOK'
  BY <1>19 DEF FailTrajectory, MarkTrajectoryFailed, TrajectoryStage, Leave
<1>20. ASSUME NEW h \in TrajectoryHandlers, UpdateTooLate(h) PROVE TrajectoryTypeOK'
  BY <1>20 DEF UpdateTooLate, RereadStage, TrajectoryStage
<1>21. ASSUME NEW h \in TrajectoryHandlers, RereadTrajectory(h) PROVE TrajectoryTypeOK'
  BY <1>21 DEF RereadTrajectory, RereadOutcome, TrajectoryStage, Leave
<1>22. ASSUME NEW h \in TrajectoryHandlers, AbandonTrajectoryRequest(h) PROVE TrajectoryTypeOK'
  BY <1>22 DEF AbandonTrajectoryRequest, TrajectoryStage, Leave
<1>23. CASE UNCHANGED trajectoryVars
  BY <1>23 DEF trajectoryVars
<1>. QED
  BY <1>1, <1>2, <1>3, <1>4, <1>5, <1>6, <1>7, <1>8, <1>9, <1>10, <1>11, <1>12, <1>13, <1>14,
     <1>15, <1>16, <1>17, <1>18, <1>19, <1>20, <1>21, <1>22, <1>23
  DEF TrajectoryNext, TrajectoryStep, TrajectoryHandlerStep
------------------------------------------------------------------------------
(* The steps that touch a status, a result or an acknowledgement.          *)
LoudTrajectoryStep ==
    \/ \E t \in Trajectories : \/ InsertTrajectory(t) \/ MarkTrajectoryProcessing(t)
                               \/ FailTrajectoryCreation(t) \/ UploadResult(t)
    \/ \E h \in TrajectoryHandlers :
          \/ \E m \in tWire : ReceiveRecorded(h, m[1], m[2])
          \/ CompleteTrajectory(h) \/ FailTrajectory(h) \/ RereadTrajectory(h)

QuietTrajectoryStep == UNCHANGED <<tStatus, results, tTold>>

LEMMA TrajectoryQuietOrLoud ==
    ASSUME [TrajectoryNext]_trajectoryVars
    PROVE  QuietTrajectoryStep \/ LoudTrajectoryStep
<1>. USE DEF tRowVars, QuietTrajectoryStep
<1>1. ASSUME NEW t \in Trajectories, TrajectoryStep(t)
      PROVE  QuietTrajectoryStep \/ LoudTrajectoryStep
  BY <1>1 DEF TrajectoryStep, LoudTrajectoryStep, PrepareTrajectory, TrajectoryAccepted,
              TrajectorySubmitFails, AbandonTrajectoryCreation, DeleteTrajectory,
              TrajectoryTokenLapses, ReportTrajectoryCompleted, TrajectoryAcknowledged,
              ReportTrajectoryFailed, LoseTrajectoryTask
<1>2. ASSUME NEW h \in TrajectoryHandlers, TrajectoryHandlerStep(h)
      PROVE  QuietTrajectoryStep \/ LoudTrajectoryStep
  BY <1>2 DEF TrajectoryHandlerStep, LoudTrajectoryStep, ReceiveOutcome, CheckResult,
              UpdateTooLate, AbandonTrajectoryRequest
<1>. QED
  BY <1>1, <1>2 DEF TrajectoryNext, trajectoryVars

(* A row moves on, and one that has ended stays as it ended.               *)
LEMMA TrajectoryStatusStep ==
    ASSUME TrajectoryTypeOK, TrajectoryCreationInv, [TrajectoryNext]_trajectoryVars,
           NEW t \in Trajectories
    PROVE  \/ tStatus'[t] = tStatus[t]
           \/ tStatus[t] = "absent" /\ tStatus'[t] = "accepted"
           \/ tStatus[t] = "accepted" /\ tStatus'[t] = "processing"
           \/ tStatus[t] \in {"accepted", "processing"} /\ tStatus'[t] \in TrajectoryFinal
<1>. DEFINE Moves ==
           \/ tStatus'[t] = tStatus[t]
           \/ tStatus[t] = "absent" /\ tStatus'[t] = "accepted"
           \/ tStatus[t] = "accepted" /\ tStatus'[t] = "processing"
           \/ tStatus[t] \in {"accepted", "processing"} /\ tStatus'[t] \in TrajectoryFinal
<1>. USE DEF TrajectoryTypeOK, TrajectoryFinal, tRowVars
<1>1. ASSUME NEW q \in Trajectories, InsertTrajectory(q) PROVE Moves
  BY <1>1 DEF InsertTrajectory, TrajectoryCreationInv
<1>2. ASSUME NEW q \in Trajectories, MarkTrajectoryProcessing(q) PROVE Moves
  BY <1>2 DEF MarkTrajectoryProcessing
<1>3. ASSUME NEW q \in Trajectories, FailTrajectoryCreation(q) PROVE Moves
  BY <1>3 DEF FailTrajectoryCreation, MarkTrajectoryFailed, Unfinished
<1>4. ASSUME NEW q \in Trajectories, UploadResult(q) PROVE Moves
  BY <1>4 DEF UploadResult
<1>5. ASSUME NEW h \in TrajectoryHandlers,
             RereadTrajectory(h) \/ \E m \in tWire : ReceiveRecorded(h, m[1], m[2])
      PROVE  Moves
  BY <1>5 DEF ReceiveRecorded, RereadTrajectory
<1>6. ASSUME NEW h \in TrajectoryHandlers, CompleteTrajectory(h) PROVE Moves
  BY <1>6 DEF CompleteTrajectory, Unfinished
<1>7. ASSUME NEW h \in TrajectoryHandlers, FailTrajectory(h) PROVE Moves
  BY <1>7 DEF FailTrajectory, MarkTrajectoryFailed, Unfinished
<1>. QED
  BY <1>1, <1>2, <1>3, <1>4, <1>5, <1>6, <1>7, TrajectoryQuietOrLoud
  DEF LoudTrajectoryStep, QuietTrajectoryStep

LEMMA ResultsStay == [TrajectoryNext]_trajectoryVars => results \subseteq results'
<1>1. LoudTrajectoryStep => results \subseteq results'
  BY DEF LoudTrajectoryStep, InsertTrajectory, MarkTrajectoryProcessing, FailTrajectoryCreation,
         UploadResult, ReceiveRecorded, CompleteTrajectory, FailTrajectory, RereadTrajectory
<1>. QED
  BY <1>1, TrajectoryQuietOrLoud DEF QuietTrajectoryStep
------------------------------------------------------------------------------
(* Preservation of the invariant.                                          *)

LEMMA StepTrajectoryCreation ==
    ASSUME TrajectoryTypeOK, TrajectoryCreationInv, [TrajectoryNext]_trajectoryVars
    PROVE  TrajectoryCreationInv'
<1>. DEFINE Kept == TrajectoryCreationInv'
<1>. USE DEF TrajectoryTypeOK, TrajectoryCreationInv, TrajectoryFinal, tRowVars, tCreateVars
<1>1. ASSUME NEW t \in Trajectories, InsertTrajectory(t) PROVE Kept
  BY <1>1 DEF InsertTrajectory
<1>2. ASSUME NEW t \in Trajectories, MarkTrajectoryProcessing(t) PROVE Kept
  BY <1>2 DEF MarkTrajectoryProcessing
<1>3. ASSUME NEW t \in Trajectories, PrepareTrajectory(t) \/ TrajectoryAccepted(t)
                                     \/ TrajectorySubmitFails(t)
      PROVE  Kept
  BY <1>3 DEF PrepareTrajectory, TrajectoryAccepted, TrajectorySubmitFails
<1>4. ASSUME NEW t \in Trajectories, FailTrajectoryCreation(t) PROVE Kept
  BY <1>4 DEF FailTrajectoryCreation, MarkTrajectoryFailed, Unfinished, TrajectoryErrorOf
<1>5. ASSUME NEW t \in Trajectories, AbandonTrajectoryCreation(t) PROVE Kept
  BY <1>5 DEF AbandonTrajectoryCreation
<1>6. ASSUME NEW t \in Trajectories, DeleteTrajectory(t) \/ TrajectoryTokenLapses(t) PROVE Kept
  BY <1>6 DEF DeleteTrajectory, TrajectoryTokenLapses
<1>7. ASSUME NEW t \in Trajectories, UploadResult(t) \/ ReportTrajectoryCompleted(t) PROVE Kept
  BY <1>7 DEF UploadResult, ReportTrajectoryCompleted
<1>8. ASSUME NEW t \in Trajectories, TrajectoryAcknowledged(t) \/ ReportTrajectoryFailed(t)
                                     \/ LoseTrajectoryTask(t)
      PROVE  Kept
  BY <1>8 DEF TrajectoryAcknowledged, ReportTrajectoryFailed, LoseTrajectoryTask
<1>9. ASSUME NEW h \in TrajectoryHandlers, NEW m \in tWire,
             ReceiveRecorded(h, m[1], m[2]) \/ ReceiveOutcome(h, m[1], m[2])
      PROVE  Kept
  BY <1>9 DEF ReceiveRecorded, ReceiveOutcome
<1>10. ASSUME NEW h \in TrajectoryHandlers,
              CheckResult(h) \/ UpdateTooLate(h) \/ RereadTrajectory(h) \/ AbandonTrajectoryRequest(h)
       PROVE  Kept
  BY <1>10 DEF CheckResult, UpdateTooLate, RereadTrajectory, AbandonTrajectoryRequest
<1>11. ASSUME NEW h \in TrajectoryHandlers, CompleteTrajectory(h) PROVE Kept
  BY <1>11 DEF CompleteTrajectory, Unfinished
<1>12. ASSUME NEW h \in TrajectoryHandlers, FailTrajectory(h) PROVE Kept
  BY <1>12 DEF FailTrajectory, MarkTrajectoryFailed, Unfinished
<1>13. CASE UNCHANGED trajectoryVars
  BY <1>13 DEF trajectoryVars
<1>. HIDE DEF TrajectoryTypeOK, TrajectoryCreationInv
<1>. QED
  BY <1>1, <1>2, <1>3, <1>4, <1>5, <1>6, <1>7, <1>8, <1>9, <1>10, <1>11, <1>12, <1>13
  DEF TrajectoryNext, TrajectoryStep, TrajectoryHandlerStep

(* Only UploadResult stores a result, and it is the end of the analysis.   *)
LEMMA StepUnstored ==
    ASSUME TrajectoryTypeOK, TrajectoryCreationInv, ResultInv, [TrajectoryNext]_trajectoryVars,
           NEW t \in Trajectories, tTask'[t] \in {"none", "analyze"}
    PROVE  t \notin results'
<1>. USE DEF TrajectoryTypeOK, ResultInv
<1>1. CASE UNCHANGED <<tTask, results>>
  BY <1>1
<1>2. ASSUME NEW q \in Trajectories, TrajectoryAccepted(q) \/ TrajectorySubmitFails(q)
      PROVE  t \notin results'
  BY <1>2 DEF TrajectoryAccepted, TrajectorySubmitFails, TrajectoryCreationInv
<1>3. ASSUME NEW q \in Trajectories,
             \/ UploadResult(q) \/ ReportTrajectoryCompleted(q) \/ TrajectoryAcknowledged(q)
             \/ ReportTrajectoryFailed(q) \/ LoseTrajectoryTask(q)
      PROVE  t \notin results'
  BY <1>3 DEF UploadResult, ReportTrajectoryCompleted, TrajectoryAcknowledged,
              ReportTrajectoryFailed, LoseTrajectoryTask
<1>4. ASSUME NEW q \in Trajectories,
             \/ InsertTrajectory(q) \/ MarkTrajectoryProcessing(q) \/ PrepareTrajectory(q)
             \/ FailTrajectoryCreation(q) \/ AbandonTrajectoryCreation(q) \/ DeleteTrajectory(q)
             \/ TrajectoryTokenLapses(q)
      PROVE  UNCHANGED <<tTask, results>>
  BY <1>4 DEF InsertTrajectory, MarkTrajectoryProcessing, PrepareTrajectory,
              FailTrajectoryCreation, AbandonTrajectoryCreation, DeleteTrajectory,
              TrajectoryTokenLapses
<1>5. ASSUME NEW h \in TrajectoryHandlers, TrajectoryHandlerStep(h)
      PROVE  UNCHANGED <<tTask, results>>
  BY <1>5 DEF TrajectoryHandlerStep, ReceiveRecorded, ReceiveOutcome, CheckResult,
              CompleteTrajectory, FailTrajectory, UpdateTooLate, RereadTrajectory,
              AbandonTrajectoryRequest
<1>. QED
  BY <1>1, <1>2, <1>3, <1>4, <1>5 DEF TrajectoryNext, TrajectoryStep, trajectoryVars

(* A handler comes to complete a trajectory only by finding its result.    *)
LEMMA TrajectoryStageStep ==
    ASSUME TrajectoryTypeOK, [TrajectoryNext]_trajectoryVars, NEW h \in TrajectoryHandlers,
           tStage'[h] = "complete"
    PROVE  /\ tServing'[h] = tServing[h]
           /\ tStage[h] = "complete" \/ tServing[h] \in results
<1>. DEFINE Found == /\ tServing'[h] = tServing[h]
                     /\ tStage[h] = "complete" \/ tServing[h] \in results
<1>. USE DEF TrajectoryTypeOK, TrajectoryStage, tHandlerVars
<1>1. CASE UNCHANGED tHandlerVars
  BY <1>1
<1>2. ASSUME NEW t \in Trajectories, TrajectoryStep(t) PROVE UNCHANGED tHandlerVars
  BY <1>2 DEF TrajectoryStep, InsertTrajectory, MarkTrajectoryProcessing, PrepareTrajectory,
              TrajectoryAccepted, TrajectorySubmitFails, FailTrajectoryCreation,
              AbandonTrajectoryCreation, DeleteTrajectory, TrajectoryTokenLapses, UploadResult,
              ReportTrajectoryCompleted, TrajectoryAcknowledged, ReportTrajectoryFailed,
              LoseTrajectoryTask
<1>3. ASSUME NEW g \in TrajectoryHandlers, NEW m \in tWire,
             ReceiveRecorded(g, m[1], m[2]) \/ ReceiveOutcome(g, m[1], m[2])
      PROVE  Found
  BY <1>3 DEF ReceiveRecorded, ReceiveOutcome
<1>4. ASSUME NEW g \in TrajectoryHandlers, CheckResult(g) PROVE Found
  BY <1>4 DEF CheckResult, Leave
<1>5. ASSUME NEW g \in TrajectoryHandlers, UpdateTooLate(g) PROVE Found
  BY <1>5 DEF UpdateTooLate, RereadStage
<1>6. ASSUME NEW g \in TrajectoryHandlers,
             \/ CompleteTrajectory(g) \/ FailTrajectory(g) \/ RereadTrajectory(g)
             \/ AbandonTrajectoryRequest(g)
      PROVE  Found
  BY <1>6 DEF CompleteTrajectory, FailTrajectory, RereadTrajectory, AbandonTrajectoryRequest, Leave
<1>. QED
  BY <1>1, <1>2, <1>3, <1>4, <1>5, <1>6
  DEF TrajectoryNext, TrajectoryHandlerStep, trajectoryVars
LEMMA TrajectoryCompletionStep ==
    ASSUME TrajectoryTypeOK, [TrajectoryNext]_trajectoryVars, NEW t \in Trajectories,
           tStatus'[t] = "completed", tStatus[t] # "completed"
    PROVE  \E h \in TrajectoryHandlers : tStage[h] = "complete" /\ tServing[h] = t
<1>. DEFINE Held == \E h \in TrajectoryHandlers : tStage[h] = "complete" /\ tServing[h] = t
<1>. USE DEF TrajectoryTypeOK, tRowVars
<1>1. ASSUME NEW q \in Trajectories, InsertTrajectory(q) \/ UploadResult(q) PROVE Held
  BY <1>1 DEF InsertTrajectory, UploadResult
<1>2. ASSUME NEW q \in Trajectories, MarkTrajectoryProcessing(q) PROVE Held
  BY <1>2 DEF MarkTrajectoryProcessing
<1>3. ASSUME NEW q \in Trajectories, FailTrajectoryCreation(q) PROVE Held
  BY <1>3 DEF FailTrajectoryCreation, MarkTrajectoryFailed
<1>4. ASSUME NEW h \in TrajectoryHandlers,
             RereadTrajectory(h) \/ \E m \in tWire : ReceiveRecorded(h, m[1], m[2])
      PROVE  Held
  BY <1>4 DEF ReceiveRecorded, RereadTrajectory
<1>5. ASSUME NEW h \in TrajectoryHandlers, CompleteTrajectory(h) PROVE Held
  BY <1>5 DEF CompleteTrajectory
<1>6. ASSUME NEW h \in TrajectoryHandlers, FailTrajectory(h) PROVE Held
  BY <1>6 DEF FailTrajectory, MarkTrajectoryFailed
<1>. QED
  BY <1>1, <1>2, <1>3, <1>4, <1>5, <1>6, TrajectoryQuietOrLoud
  DEF LoudTrajectoryStep, QuietTrajectoryStep

LEMMA StepResults ==
    ASSUME TrajectoryTypeOK, TrajectoryCreationInv, ResultInv, [TrajectoryNext]_trajectoryVars
    PROVE  ResultInv'
<1>1. ASSUME NEW t \in Trajectories, tTask'[t] \in {"none", "analyze"} PROVE t \notin results'
  BY <1>1, StepUnstored
<1>2. ASSUME NEW t \in Trajectories, tStatus'[t] = "completed" PROVE t \in results'
  <2>1. t \in results
    BY <1>2, TrajectoryCompletionStep DEF ResultInv
  <2>. QED
    BY <2>1, ResultsStay
<1>3. ASSUME NEW h \in TrajectoryHandlers, tStage'[h] = "complete" PROVE tServing'[h] \in results'
  <2>1. tServing'[h] = tServing[h] /\ tServing[h] \in results
    BY <1>3, TrajectoryStageStep DEF ResultInv
  <2>. QED
    BY <2>1, ResultsStay
<1>. QED
  BY <1>1, <1>2, <1>3 DEF ResultInv

(* An acknowledgement that is new tells the trajectory's outcome.          *)
LEMMA TrajectoryToldStep ==
    ASSUME TrajectoryTypeOK, [TrajectoryNext]_trajectoryVars, NEW t \in Trajectories,
           NEW s \in TrajectoryFinal, <<t, s>> \in tTold', <<t, s>> \notin tTold
    PROVE  tStatus'[t] = s
<1>. DEFINE True == tStatus'[t] = s
<1>. USE DEF TrajectoryTypeOK, tRowVars, TrajectoryFinal
<1>1. ASSUME NEW h \in TrajectoryHandlers, NEW m \in tWire, ReceiveRecorded(h, m[1], m[2])
      PROVE  True
  BY <1>1 DEF ReceiveRecorded, Recorded
<1>2. ASSUME NEW h \in TrajectoryHandlers, CompleteTrajectory(h) PROVE True
  BY <1>2 DEF CompleteTrajectory
<1>3. ASSUME NEW h \in TrajectoryHandlers, FailTrajectory(h) PROVE True
  BY <1>3 DEF FailTrajectory, MarkTrajectoryFailed
<1>4. ASSUME NEW h \in TrajectoryHandlers, RereadTrajectory(h) PROVE True
  BY <1>4 DEF RereadTrajectory, RereadOutcome, Recorded
<1>5. ASSUME NEW q \in Trajectories,
             \/ InsertTrajectory(q) \/ MarkTrajectoryProcessing(q)
             \/ FailTrajectoryCreation(q) \/ UploadResult(q)
      PROVE  tTold' = tTold
  BY <1>5 DEF InsertTrajectory, MarkTrajectoryProcessing, FailTrajectoryCreation, UploadResult
<1>. QED
  BY <1>1, <1>2, <1>3, <1>4, <1>5, TrajectoryQuietOrLoud
  DEF LoudTrajectoryStep, QuietTrajectoryStep

TrajectoryErrors == {"TRAJECTORY_ANALYZE_PREPARATION_FAILED", "NOZOMI_REQUEST_FAILED"}

Gone(t) == tStatus[t] \in TrajectoryFinal \/ t \in deleted

LEMMA GoneStays ==
    ASSUME TrajectoryTypeOK, TrajectoryCreationInv, [TrajectoryNext]_trajectoryVars,
           NEW t \in Trajectories, Gone(t)
    PROVE  Gone(t)'
<1>1. deleted \subseteq deleted'
  BY DEF TrajectoryNext, TrajectoryStep, TrajectoryHandlerStep, InsertTrajectory,
         MarkTrajectoryProcessing, PrepareTrajectory, TrajectoryAccepted, TrajectorySubmitFails,
         FailTrajectoryCreation, AbandonTrajectoryCreation, DeleteTrajectory,
         TrajectoryTokenLapses, UploadResult, ReportTrajectoryCompleted, TrajectoryAcknowledged,
         ReportTrajectoryFailed, LoseTrajectoryTask, ReceiveRecorded, ReceiveOutcome, CheckResult,
         CompleteTrajectory, FailTrajectory, UpdateTooLate, RereadTrajectory,
         AbandonTrajectoryRequest, MarkTrajectoryFailed, tRowVars, trajectoryVars
<1>. QED
  BY <1>1, TrajectoryStatusStep DEF Gone, TrajectoryFinal

(* A create request answers an error once its trajectory has ended, or has *)
(* been deleted.                                                           *)
LEMMA TrajectoryAnswerStep ==
    ASSUME TrajectoryTypeOK, TrajectoryCreationInv, [TrajectoryNext]_trajectoryVars,
           NEW t \in Trajectories,
           tAnswer'[t] \in TrajectoryErrors, tAnswer[t] \notin TrajectoryErrors
    PROVE  Gone(t)'
<1>. USE DEF TrajectoryTypeOK, TrajectoryErrors, tCreateVars
<1>1. ASSUME NEW q \in Trajectories, FailTrajectoryCreation(q) PROVE Gone(t)'
  <2>1. q = t /\ tStatus[t] # "absent"
    BY <1>1 DEF FailTrajectoryCreation, TrajectoryErrorOf, TrajectoryCreationInv
  <2>2. CASE Unfinished(t)
    BY <1>1, <2>1, <2>2 DEF FailTrajectoryCreation, MarkTrajectoryFailed, Gone, TrajectoryFinal
  <2>3. CASE ~Unfinished(t)
    BY <1>1, <2>1, <2>3
    DEF FailTrajectoryCreation, MarkTrajectoryFailed, Unfinished, Gone, TrajectoryFinal, tRowVars
  <2>. QED
    BY <2>2, <2>3
<1>2. ASSUME NEW q \in Trajectories, TrajectoryAccepted(q) PROVE Gone(t)'
  BY <1>2 DEF TrajectoryAccepted
<1>3. ASSUME NEW q \in Trajectories,
             \/ InsertTrajectory(q) \/ MarkTrajectoryProcessing(q) \/ PrepareTrajectory(q)
             \/ TrajectorySubmitFails(q) \/ AbandonTrajectoryCreation(q)
             \/ DeleteTrajectory(q) \/ TrajectoryTokenLapses(q) \/ UploadResult(q)
             \/ ReportTrajectoryCompleted(q) \/ TrajectoryAcknowledged(q)
             \/ ReportTrajectoryFailed(q) \/ LoseTrajectoryTask(q)
      PROVE  tAnswer' = tAnswer
  BY <1>3 DEF InsertTrajectory, MarkTrajectoryProcessing, PrepareTrajectory, TrajectorySubmitFails,
              AbandonTrajectoryCreation, DeleteTrajectory, TrajectoryTokenLapses, UploadResult,
              ReportTrajectoryCompleted, TrajectoryAcknowledged, ReportTrajectoryFailed,
              LoseTrajectoryTask
<1>4. ASSUME NEW h \in TrajectoryHandlers, TrajectoryHandlerStep(h) PROVE tAnswer' = tAnswer
  BY <1>4 DEF TrajectoryHandlerStep, ReceiveRecorded, ReceiveOutcome, CheckResult,
              CompleteTrajectory, FailTrajectory, UpdateTooLate, RereadTrajectory,
              AbandonTrajectoryRequest
<1>5. tAnswer' # tAnswer
  OBVIOUS
<1>. HIDE DEF TrajectoryTypeOK
<1>. QED
  BY <1>1, <1>2, <1>3, <1>4, <1>5 DEF TrajectoryNext, TrajectoryStep, trajectoryVars

LEMMA StepTrajectoryAnswers ==
    ASSUME TrajectoryTypeOK, TrajectoryCreationInv, TrajectoryAnswersHold,
           [TrajectoryNext]_trajectoryVars
    PROVE  TrajectoryAnswersHold'
<1>1. ASSUME NEW t \in Trajectories, NEW s \in TrajectoryFinal, <<t, s>> \in tTold'
      PROVE  tStatus'[t] = s
  <2>1. CASE <<t, s>> \in tTold
    BY <2>1, TrajectoryStatusStep DEF TrajectoryAnswersHold, TrajectoryFinal
  <2>. QED
    BY <1>1, <2>1, TrajectoryToldStep
<1>2. ASSUME NEW t \in Trajectories, tAnswer'[t] \in TrajectoryErrors PROVE Gone(t)'
  <2>1. CASE tAnswer[t] \in TrajectoryErrors
    <3>1. Gone(t)
      BY <2>1 DEF TrajectoryAnswersHold, TrajectoryErrors, Gone
    <3>. QED
      BY <3>1, GoneStays
  <2>. QED
    BY <1>2, <2>1, TrajectoryAnswerStep
<1>. QED
  BY <1>1, <1>2 DEF TrajectoryAnswersHold, TrajectoryErrors, Gone

LEMMA StepTrajectory == TrajectoryInv /\ [TrajectoryNext]_trajectoryVars => TrajectoryInv'
BY TrajectoryConstantsOK, StepTrajectoryType, StepTrajectoryCreation, StepResults,
   StepTrajectoryAnswers DEF TrajectoryInv

------------------------------------------------------------------------------
THEOREM TrajectoryInvariant == TrajectorySpec => []TrajectoryInv
<1>1. TrajectoryInit => TrajectoryInv
  BY TrajectoryConstantsOK, InitTrajectory
<1>. QED
  BY <1>1, StepTrajectory, PTL DEF TrajectorySpec

(* Rows, requests, tasks and callbacks in hand stay well-formed.           *)
THEOREM TrajectoryTypeCorrect == TrajectorySpec => []TrajectoryTypeOK
BY TrajectoryInvariant, PTL DEF TrajectoryInv

(* What Nozomi and the caller of createTrajectory were answered stays      *)
(* true, deletions included.                                               *)
THEOREM TrajectoryAnswersStayTrue == TrajectorySpec => []TrajectoryAnswersHold
BY TrajectoryInvariant, PTL DEF TrajectoryInv
------------------------------------------------------------------------------
(* Refinement of AnalysisLifeCycle.                                        *)

TrajectoryOutcome ==
    [t \in Trajectories |-> IF tStatus[t] \in {"accepted", "processing"} THEN "open" ELSE tStatus[t]]

LEMMA TrajectoryOpens ==
    ASSUME NEW t \in Trajectories, TrajectoryOutcome[t] = "absent",
           TrajectoryOutcome' = [TrajectoryOutcome EXCEPT ![t] = "open"],
           results' = results, tTold' = tTold
    PROVE  TrajectoryLife!LifeNext
<1>1. TrajectoryLife!Open(t)
  BY DEF TrajectoryLife!Open, TrajectoryOutcome
<1>. QED
  BY <1>1 DEF TrajectoryLife!LifeNext

LEMMA TrajectoryCloses ==
    ASSUME NEW t \in Trajectories, NEW verdict \in TrajectoryFinal, TrajectoryOutcome[t] = "open",
           verdict = "completed" => t \in results,
           TrajectoryOutcome' = [TrajectoryOutcome EXCEPT ![t] = verdict], results' = results,
           tTold' \in {tTold, tTold \cup {<<t, verdict>>}}
    PROVE  TrajectoryLife!LifeNext
<1>1. TrajectoryLife!Close(t, verdict)
  BY DEF TrajectoryLife!Close, TrajectoryOutcome
<1>. QED
  BY <1>1 DEF TrajectoryLife!LifeNext, TrajectoryFinal

LEMMA TrajectoryTells ==
    ASSUME NEW t \in Trajectories, TrajectoryOutcome[t] \in TrajectoryFinal,
           tTold' = tTold \cup {<<t, TrajectoryOutcome[t]>>},
           TrajectoryOutcome' = TrajectoryOutcome, results' = results
    PROVE  TrajectoryLife!LifeNext
<1>1. TrajectoryLife!Tell(t)
  BY DEF TrajectoryLife!Tell, TrajectoryOutcome, TrajectoryFinal
<1>. QED
  BY <1>1 DEF TrajectoryLife!LifeNext

LEMMA TrajectoryStutters ==
    ASSUME TrajectoryOutcome' = TrajectoryOutcome, results' = results, tTold' = tTold
    PROVE  UNCHANGED TrajectoryLife!lifeVars
BY DEF TrajectoryLife!lifeVars, TrajectoryOutcome

LEMMA StepTrajectoryLife ==
    ASSUME TrajectoryInv, [TrajectoryNext]_trajectoryVars
    PROVE  [TrajectoryLife!LifeNext]_(TrajectoryLife!lifeVars)
<1>. DEFINE Life == [TrajectoryLife!LifeNext]_(TrajectoryLife!lifeVars)
<1>. USE DEF TrajectoryTypeOK, tRowVars
<1>0. TrajectoryTypeOK /\ TrajectoryCreationInv /\ ResultInv
  BY DEF TrajectoryInv
<1>1. CASE QuietTrajectoryStep
  BY <1>1, TrajectoryStutters DEF QuietTrajectoryStep, TrajectoryOutcome
<1>2. ASSUME NEW t \in Trajectories, InsertTrajectory(t) PROVE Life
  <2>1. /\ TrajectoryOutcome[t] = "absent"
        /\ TrajectoryOutcome' = [TrajectoryOutcome EXCEPT ![t] = "open"]
    BY <1>0, <1>2 DEF InsertTrajectory, TrajectoryCreationInv, TrajectoryOutcome
  <2>. QED
    BY <1>2, <2>1, TrajectoryOpens DEF InsertTrajectory
<1>3. ASSUME NEW t \in Trajectories, MarkTrajectoryProcessing(t) PROVE Life
  <2>1. TrajectoryOutcome' = TrajectoryOutcome
    BY <1>0, <1>3 DEF MarkTrajectoryProcessing, TrajectoryOutcome
  <2>. QED
    BY <1>3, <2>1, TrajectoryStutters DEF MarkTrajectoryProcessing
<1>4. ASSUME NEW t \in Trajectories, FailTrajectoryCreation(t) PROVE Life
  <2>1. CASE Unfinished(t)
    <3>1. /\ TrajectoryOutcome[t] = "open"
          /\ TrajectoryOutcome' = [TrajectoryOutcome EXCEPT ![t] = "failed"]
      BY <1>0, <1>4, <2>1
      DEF FailTrajectoryCreation, MarkTrajectoryFailed, Unfinished, TrajectoryOutcome
    <3>. QED
      BY <1>4, <3>1, TrajectoryCloses DEF FailTrajectoryCreation, TrajectoryFinal
  <2>2. CASE ~Unfinished(t)
    BY <1>4, <2>2, TrajectoryStutters
    DEF FailTrajectoryCreation, MarkTrajectoryFailed, TrajectoryOutcome
  <2>. QED
    BY <2>1, <2>2
<1>5. ASSUME NEW t \in Trajectories, UploadResult(t) PROVE Life
  <2>1. t \notin results /\ results' = results \cup {t}
    BY <1>0, <1>5 DEF UploadResult, ResultInv
  <2>2. TrajectoryLife!StoreOutputs(t)
    BY <1>5, <2>1 DEF UploadResult, TrajectoryLife!StoreOutputs
  <2>. QED
    BY <2>2 DEF TrajectoryLife!LifeNext
<1>6. ASSUME NEW h \in TrajectoryHandlers, NEW m \in tWire, ReceiveRecorded(h, m[1], m[2]) PROVE Life
  <2>1. m[1] \in Trajectories /\ m[2] \in TrajectoryFinal
    BY <1>0
  <2>2. TrajectoryOutcome[m[1]] = m[2] /\ TrajectoryOutcome' = TrajectoryOutcome
    BY <1>6, <2>1 DEF ReceiveRecorded, Recorded, TrajectoryOutcome, TrajectoryFinal
  <2>3. tTold' = tTold \cup {<<m[1], m[2]>>} /\ results' = results
    BY <1>6 DEF ReceiveRecorded
  <2>. QED
    BY <2>1, <2>2, <2>3, TrajectoryTells
<1>7. ASSUME NEW h \in TrajectoryHandlers, CompleteTrajectory(h) PROVE Life
  <2>1. tServing[h] \in Trajectories /\ tServing[h] \in results
    BY <1>0, <1>7 DEF CompleteTrajectory, ResultInv
  <2>2. /\ TrajectoryOutcome[tServing[h]] = "open"
        /\ TrajectoryOutcome' = [TrajectoryOutcome EXCEPT ![tServing[h]] = "completed"]
    BY <1>0, <1>7, <2>1 DEF CompleteTrajectory, Unfinished, TrajectoryOutcome
  <2>. QED
    BY <1>7, <2>1, <2>2, TrajectoryCloses DEF CompleteTrajectory, TrajectoryFinal
<1>8. ASSUME NEW h \in TrajectoryHandlers, FailTrajectory(h) PROVE Life
  <2>1. tServing[h] \in Trajectories
    BY <1>0, <1>8 DEF FailTrajectory
  <2>2. /\ tStatus[tServing[h]] \in {"accepted", "processing"}
        /\ tStatus' = [tStatus EXCEPT ![tServing[h]] = "failed"]
    BY <1>8 DEF FailTrajectory, MarkTrajectoryFailed, Unfinished
  <2>3. /\ TrajectoryOutcome[tServing[h]] = "open"
        /\ TrajectoryOutcome' = [TrajectoryOutcome EXCEPT ![tServing[h]] = "failed"]
    BY <1>0, <2>1, <2>2 DEF TrajectoryOutcome
  <2>. QED
    BY <1>8, <2>1, <2>3, TrajectoryCloses DEF FailTrajectory, TrajectoryFinal
<1>9. ASSUME NEW h \in TrajectoryHandlers, RereadTrajectory(h) PROVE Life
  <2>. DEFINE t == tServing[h]
              verdict == RereadOutcome[tStage[h]]
  <2>1. t \in Trajectories /\ verdict \in TrajectoryFinal
    BY <1>0, <1>9 DEF RereadTrajectory, RereadOutcome, TrajectoryFinal
  <2>2. TrajectoryOutcome' = TrajectoryOutcome /\ results' = results
    BY <1>9 DEF RereadTrajectory, TrajectoryOutcome
  <2>3. CASE t \notin deleted /\ Recorded(t, verdict)
    <3>1. tTold' = tTold \cup {<<t, verdict>>}
      BY <1>9, <2>3 DEF RereadTrajectory
    <3>2. TrajectoryOutcome[t] = verdict
      BY <2>1, <2>3 DEF Recorded, TrajectoryOutcome, TrajectoryFinal
    <3>. QED
      BY <2>1, <2>2, <3>1, <3>2, TrajectoryTells
  <2>4. CASE ~(t \notin deleted /\ Recorded(t, verdict))
    <3>1. tTold' = tTold
      BY <1>9, <2>4 DEF RereadTrajectory
    <3>. QED
      BY <2>2, <3>1, TrajectoryStutters
  <2>. QED
    BY <2>3, <2>4
<1>. QED
  BY <1>1, <1>2, <1>3, <1>4, <1>5, <1>6, <1>7, <1>8, <1>9, TrajectoryQuietOrLoud
  DEF LoudTrajectoryStep

(* Every trajectory has the life cycle of an analysis: one start, one end, *)
(* completed only with its result, and no acknowledged outcome undone.     *)
THEOREM TrajectoryHasOneLife == TrajectorySpec => TrajectoryLifeCycle
<1>1. TrajectoryInit => TrajectoryLife!LifeInit
  BY DEF TrajectoryInit, TrajectoryLife!LifeInit
<1>2. TrajectoryInv /\ [TrajectoryNext]_trajectoryVars
      => [TrajectoryLife!LifeNext]_(TrajectoryLife!lifeVars)
  BY StepTrajectoryLife
<1>. QED
  BY <1>1, <1>2, TrajectoryInvariant, PTL
  DEF TrajectorySpec, TrajectoryLifeCycle, TrajectoryLife!LifeCycle
------------------------------------------------------------------------------
(***************************************************************************)
(* The chain.                                                              *)
(*                                                                         *)
(* A trajectory that was found completed stays completed, so the read that *)
(* createStayHeatmap makes before its transaction is still good when the   *)
(* run is inserted, and as long as the run exists.                         *)
(***************************************************************************)
ReadInputsInv ==
    /\ \A r \in Runs : status[r] # "absent" => r \in validated
    /\ \A r \in validated \cap Runs : \A t \in InputsOf[r] : tStatus[t] = "completed"

(* Each of the two sees its own steps only.                                *)
LEMMA ChainStep ==
    [ChainNext]_chainVars => [TrajectoryNext]_trajectoryVars /\ [HeatmapNext]_heatmapVars
BY DEF ChainNext, HeatmapStep, ValidateInputs, chainVars

THEOREM ChainRefinesBoth == ChainSpec => TrajectorySpec /\ HeatmapSpec
BY ChainStep, PTL DEF ChainSpec, ChainInit, TrajectorySpec, HeatmapSpec

LEMMA StepReadInputs ==
    ASSUME TrajectoryInv, ReadInputsInv, [ChainNext]_chainVars
    PROVE  ReadInputsInv'
<1>1. ASSUME NEW r \in Runs, status'[r] # "absent" PROVE r \in validated'
  <2>1. validated \subseteq validated'
    BY DEF ChainNext, ValidateInputs, HeatmapStep, chainVars
  <2>2. status[r] # "absent" \/ r \in validated
    BY <1>1 DEF ChainNext, ValidateInputs, HeatmapStep, chainVars, heatmapVars, runVars
  <2>. QED
    BY <2>1, <2>2 DEF ReadInputsInv
<1>2. ASSUME NEW r \in validated' \cap Runs, NEW t \in InputsOf[r] PROVE tStatus'[t] = "completed"
  <2>1. t \in Trajectories
    BY <1>2, ChainConstantsOK
  <2>2. tStatus[t] = "completed"
    BY <1>2 DEF ReadInputsInv, ChainNext, ValidateInputs, HeatmapStep, chainVars, Usable
  <2>. QED
    BY <2>1, <2>2, ChainStep, TrajectoryStatusStep DEF TrajectoryInv, TrajectoryFinal
<1>. QED
  BY <1>1, <1>2 DEF ReadInputsInv

(* A stay heatmap is only ever drawn over trajectories that are completed  *)
(* and whose results exist, whenever they are deleted.                     *)
THEOREM InputsCompleted == ChainSpec => []InputsStayCompleted
<1>1. ChainInit => ReadInputsInv
  BY DEF ChainInit, HeatmapInit, ReadInputsInv
<1>2. ChainSpec => []TrajectoryInv
  BY ChainRefinesBoth, TrajectoryInvariant, PTL
<1>3. ChainSpec => []ReadInputsInv
  BY <1>1, <1>2, StepReadInputs, PTL DEF ChainSpec
<1>4. TrajectoryInv /\ ReadInputsInv => InputsStayCompleted
  BY ChainConstantsOK DEF TrajectoryInv, ResultInv, ReadInputsInv, InputsStayCompleted
<1>. QED
  BY <1>2, <1>3, <1>4, PTL
==============================================================================
