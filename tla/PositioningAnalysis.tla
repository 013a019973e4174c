------------------------- MODULE PositioningAnalysis -------------------------
(***************************************************************************)
(* Kaede's side of a positioning analysis: the run and its items, the      *)
(* outbox job that dispatches each item to Nozomi, the outbox workers, and *)
(* the callback endpoint.  (apps/kaede/src/services/analysis-runs,         *)
(* apps/kaede/src/usecases/analysis-runs)                                  *)
(*                                                                         *)
(* One action is one statement the database commits: the worker runs       *)
(* without a transaction, so every "await" of processOutboxJob is a step   *)
(* other actors may come between.  The callback endpoint runs in one       *)
(* READ COMMITTED transaction: it is split where it reads the sibling      *)
(* items, because another transaction may commit after that read.          *)
(***************************************************************************)
EXTENDS Naturals, FiniteSets, ExecutionContract

CONSTANTS
    Runs,               \* positioning_analysis_runs ids
    RunOf,              \* Items -> Runs, analysis_run_id
    ArtifactItems,      \* items whose pipeline uploads output artifacts
    Workers,            \* processes that run an OutboxWorker
    NoItem,             \* "no current job"
    MaxAttempts,        \* outbox_jobs.max_attempts (3 in the code)
    ClaimLimit,         \* jobs one tick claims (10 in the code)
    MaxLeaseExpiries,   \* bound: leases that run out in a behaviour
    MaxFaults           \* bound: crashed ticks and rolled back callbacks

ASSUME ConstantsOK ==
    /\ RunOf \in [Items -> Runs]
    /\ ArtifactItems \subseteq Items
    /\ NoItem \notin Items
    /\ MaxAttempts \in Nat \ {0}
    /\ ClaimLimit \in Nat \ {0}
    /\ MaxLeaseExpiries \in Nat
    /\ MaxFaults \in Nat

VARIABLES
    itemStatus,     \* positioning_analysis_run_items.status
    itemResult,     \* result_trajectory_id IS NOT NULL
    itemError,      \* error.code, "none" when NULL
    itemAged,       \* updated_at is more than 30 minutes ago
    manifest,       \* items whose output_manifest lists artifacts
    runStatus,      \* positioning_analysis_runs.status
    trajectories,   \* items i that have a trajectories row with id = i
    events,         \* positioning_analysis_callbacks: <<item, status>> = event_id
    jobStatus,      \* outbox_jobs.status, one job per item
    jobAttempts,    \* outbox_jobs.attempts
    jobDue,         \* run_at <= clock_timestamp()
    jobLease,       \* leased_until: "none", "held" (future) or "expired"
    pc,             \* worker: the statement it executes next
    batch,          \* worker: jobs (or timed-out items) still to handle
    cur,            \* worker: the job (or timed-out item) in hand
    seen,           \* worker: job.attempts as returned by its claim
    why,            \* worker: error code it is about to record
    view,           \* worker: run status it computed from the items it read
    txEvent,        \* open callback transaction on an item: its event
    txView,         \* open callback transaction: run status it computed
    expiries,       \* leases that ran out so far
    faults          \* faults so far

itemVars   == <<itemStatus, itemResult, itemError, itemAged>>
jobVars    == <<jobStatus, jobAttempts, jobDue, jobLease>>
workerVars == <<pc, batch, cur, seen, why, view>>
txVars     == <<txEvent, txView>>
resultVars == <<manifest, trajectories, events>>
boundVars  == <<expiries, faults>>
vars == <<record, itemVars, runStatus, resultVars, jobVars, workerVars, txVars,
          boundVars>>

Terminal   == Verdicts
ItemStatus == {"queued"} \cup EventStatus
RunStatus  == {"accepted", "processing", "completed", "partially_completed", "failed"}
JobStatus  == {"pending", "processing", "completed", "failed"}
ErrorCode  == {"none", "EXECUTION_FAILED", "EXECUTION_TIMEOUT",
               "DISPATCH_REJECTED", "DISPATCH_RETRY_EXHAUSTED"}
JobPC      == {"skip", "mark", "markRun", "dispatch", "complete", "retryJob", "failJob"}
PC         == JobPC \cup {"idle", "next", "expire", "failItem", "aggRead", "aggWrite"}

TypeOK ==
    /\ RecordTypeOK
    /\ itemStatus \in [Items -> ItemStatus]
    /\ itemResult \in [Items -> BOOLEAN]
    /\ itemError \in [Items -> ErrorCode]
    /\ itemAged \in [Items -> BOOLEAN]
    /\ manifest \subseteq Items
    /\ runStatus \in [Runs -> RunStatus]
    /\ trajectories \subseteq Items
    /\ events \subseteq Items \X EventStatus
    /\ jobStatus \in [Items -> JobStatus]
    /\ jobAttempts \in [Items -> Nat]
    /\ jobDue \in [Items -> BOOLEAN]
    /\ jobLease \in [Items -> {"none", "held", "expired"}]
    /\ pc \in [Workers -> PC]
    /\ batch \in [Workers -> SUBSET Items]
    /\ cur \in [Workers -> Items \cup {NoItem}]
    /\ seen \in [Workers -> [Items -> Nat]]
    /\ why \in [Workers -> ErrorCode]
    /\ view \in [Workers -> RunStatus \cup {"keep"}]
    /\ txEvent \in [Items -> EventStatus \cup {"none"}]
    /\ txView \in [Items -> RunStatus \cup {"keep"}]
    /\ expiries \in Nat
    /\ faults \in Nat

(* A run has just been created: createPositioningAnalysisRun commits the   *)
(* run, its items and one due job per item in one transaction.             *)
Init ==
    /\ NoExecutions
    /\ itemStatus = [i \in Items |-> "queued"]
    /\ itemResult = [i \in Items |-> FALSE]
    /\ itemError = [i \in Items |-> "none"]
    /\ itemAged = [i \in Items |-> FALSE]
    /\ manifest = {}
    /\ runStatus = [r \in Runs |-> "accepted"]
    /\ trajectories = {}
    /\ events = {}
    /\ jobStatus = [i \in Items |-> "pending"]
    /\ jobAttempts = [i \in Items |-> 0]
    /\ jobDue = [i \in Items |-> TRUE]
    /\ jobLease = [i \in Items |-> "none"]
    /\ pc = [w \in Workers |-> "idle"]
    /\ batch = [w \in Workers |-> {}]
    /\ cur = [w \in Workers |-> NoItem]
    /\ seen = [w \in Workers |-> [i \in Items |-> 0]]
    /\ why = [w \in Workers |-> "none"]
    /\ view = [w \in Workers |-> "keep"]
    /\ txEvent = [i \in Items |-> "none"]
    /\ txView = [i \in Items |-> "keep"]
    /\ expiries = 0
    /\ faults = 0
-----------------------------------------------------------------------------
(* Statements on the item and run rows                                     *)

ItemsOf(r) == {i \in Items : RunOf[i] = r}

(* Mutant: open items do not hold the verdict of their siblings back.      *)
AggregateIgnoringOpenItems(st, r) ==
    LET S == {st[i] : i \in ItemsOf(r)} \cap Terminal IN
    CASE S = {"completed"} -> "completed"
      [] S = {"failed"} -> "failed"
      [] S = {"completed", "failed"} -> "partially_completed"
      [] OTHER -> "keep"

(* The run status aggregatePositioningRunStatus derives from item statuses *)
(* st; "keep" when it leaves the run alone.                                *)
Aggregate(st, r) ==
    LET S == {st[i] : i \in ItemsOf(r)} IN
    CASE S = {"completed"} -> "completed"
      [] S = {"failed"} -> "failed"
      [] S = {"completed", "failed"} -> "partially_completed"
      [] ~(S \subseteq Terminal) /\ S \cap {"processing", "completed"} # {} -> "processing"
      [] OTHER -> "keep"

(* Mutant: the CHECK constraint is dropped.                                *)
AnyRowAllowed(status, result, error) == TRUE

(* CHECK positioning_analysis_run_items_state_chk.                         *)
RowAllowed(status, result, error) ==
    /\ result <=> status = "completed"
    /\ error # "none" <=> status = "failed"

(* A callback transaction holds the row lock of its item until it ends.    *)
RowFree(i) == txEvent[i] = "none"

(* Mutant: a NULL result in the update keeps the stored one.               *)
UpdateItemKeepingResult(i, status, result, error) ==
    /\ itemStatus' = [itemStatus EXCEPT ![i] = status]
    /\ itemResult' = [itemResult EXCEPT ![i] = @ \/ result]
    /\ itemError' = [itemError EXCEPT ![i] = error]
    /\ itemAged' = [itemAged EXCEPT ![i] = FALSE]

(* updatePositioningRunItemState: every column is overwritten, whatever    *)
(* the row holds.                                                          *)
UpdateItem(i, status, result, error) ==
    /\ itemStatus' = [itemStatus EXCEPT ![i] = status]
    /\ itemResult' = [itemResult EXCEPT ![i] = result]
    /\ itemError' = [itemError EXCEPT ![i] = error]
    /\ itemAged' = [itemAged EXCEPT ![i] = FALSE]

WriteRun(r, status) ==
    runStatus' = IF status = "keep" THEN runStatus ELSE [runStatus EXCEPT ![r] = status]
-----------------------------------------------------------------------------
(* OutboxWorker.tick: claim, handle the jobs one by one, expire timeouts   *)

(* Mutant: a leased job is claimed again without waiting for the lease.    *)
ClaimableIgnoringLease(i) ==
    jobStatus[i] = "processing" \/ (jobStatus[i] = "pending" /\ jobDue[i])

Claimable(i) ==
    \/ jobStatus[i] = "pending" /\ jobDue[i]
    \/ jobStatus[i] = "processing" /\ jobLease[i] = "expired"

ClaimSets ==
    LET ready == {i \in Items : Claimable(i)} IN
    {S \in SUBSET ready :
        \/ S = ready /\ Cardinality(ready) <= ClaimLimit
        \/ Cardinality(S) = ClaimLimit}

(* claimPendingOutboxJobs: one UPDATE ... RETURNING.  attempts is compared *)
(* with max_attempts only after a dispatch failed, never here.             *)
ClaimJobs(w) ==
    /\ pc[w] = "idle"
    /\ \E S \in ClaimSets :
         /\ batch' = [batch EXCEPT ![w] = S]
         /\ jobStatus' = [i \in Items |-> IF i \in S THEN "processing" ELSE jobStatus[i]]
         /\ jobLease' = [i \in Items |-> IF i \in S THEN "held" ELSE jobLease[i]]
         /\ jobAttempts' = [i \in Items |-> IF i \in S THEN jobAttempts[i] + 1
                                                       ELSE jobAttempts[i]]
         /\ seen' = [seen EXCEPT ![w] = [i \in Items |-> IF i \in S THEN jobAttempts[i] + 1
                                                                    ELSE 0]]
    /\ pc' = [pc EXCEPT ![w] = "next"]
    /\ UNCHANGED <<record, itemVars, runStatus, resultVars, jobDue, cur, why, view,
                   txVars, boundVars>>

(* Mutant: whatever is not queued counts as dispatched.                    *)
NotQueued(i) == itemStatus[i] # "queued"

(* Nothing is left to dispatch.                                            *)
Settled(i) == itemStatus[i] \in Terminal

(* The item is read here, long before it is written: the presigned URLs    *)
(* are issued in between.                                                  *)
ReadItem(w) ==
    /\ pc[w] = "next"
    /\ \E i \in batch[w] :
         /\ batch' = [batch EXCEPT ![w] = @ \ {i}]
         /\ cur' = [cur EXCEPT ![w] = i]
         /\ pc' = [pc EXCEPT ![w] = IF Settled(i) THEN "skip" ELSE "mark"]
    /\ UNCHANGED <<record, itemVars, runStatus, resultVars, jobVars, seen, why, view,
                   txVars, boundVars>>

MarkItemProcessing(w) ==
    /\ pc[w] = "mark"
    /\ RowFree(cur[w])
    /\ UpdateItem(cur[w], "processing", FALSE, "none")
    /\ pc' = [pc EXCEPT ![w] = "markRun"]
    /\ UNCHANGED <<record, runStatus, resultVars, jobVars, batch, cur, seen, why, view,
                   txVars, boundVars>>

MarkRunProcessing(w) ==
    /\ pc[w] = "markRun"
    /\ WriteRun(RunOf[cur[w]], "processing")
    /\ pc' = [pc EXCEPT ![w] = "dispatch"]
    /\ UNCHANGED <<record, itemVars, resultVars, jobVars, batch, cur, seen, why, view,
                   txVars, boundVars>>

(* Mutants: the attempt limit is off by one, either way.                   *)
GivesUpEarly(w, fatal) == fatal \/ seen[w][cur[w]] + 1 >= MaxAttempts
GivesUpLate(w, fatal) == fatal \/ seen[w][cur[w]] > MaxAttempts

(* The catch block: a fatal error or the last attempt gives the job up.    *)
GivesUp(w, fatal) == fatal \/ seen[w][cur[w]] >= MaxAttempts

Catch(w, fatal) ==
    /\ pc' = [pc EXCEPT ![w] = IF GivesUp(w, fatal) THEN "failJob" ELSE "retryJob"]
    /\ why' = [why EXCEPT ![w] = CASE fatal -> "DISPATCH_REJECTED"
                                   [] ~fatal /\ GivesUp(w, fatal) -> "DISPATCH_RETRY_EXHAUSTED"
                                   [] OTHER -> "none"]

(* 202 or 200.                                                             *)
DispatchAccepted(w) ==
    /\ pc[w] = "dispatch"
    /\ Reserve(cur[w])
    /\ pc' = [pc EXCEPT ![w] = "complete"]
    /\ UNCHANGED <<itemVars, runStatus, resultVars, jobVars, batch, cur, seen, why, view,
                   txVars, boundVars>>

(* No answer in time, no connection, or a 5xx: Nozomi may or may not have  *)
(* accepted the request.                                                   *)
DispatchRetriable(w) ==
    /\ pc[w] = "dispatch"
    /\ Reserve(cur[w]) \/ UNCHANGED record
    /\ Catch(w, FALSE)
    /\ UNCHANGED <<itemVars, runStatus, resultVars, jobVars, batch, cur, seen, view,
                   txVars, boundVars>>

(* Any other status, 409 for an item Nozomi already runs included.         *)
DispatchRejected(w) ==
    /\ pc[w] = "dispatch"
    /\ Catch(w, TRUE)
    /\ UNCHANGED <<record, itemVars, runStatus, resultVars, jobVars, batch, cur, seen, view,
                   txVars, boundVars>>

(* Any other exception inside the try block: a URL that cannot be signed,  *)
(* a statement the database refuses.                                       *)
StepThrows(w) ==
    /\ pc[w] \in {"mark", "markRun", "complete"}
    /\ Catch(w, FALSE)
    /\ UNCHANGED <<record, itemVars, runStatus, resultVars, jobVars, batch, cur, seen, view,
                   txVars, boundVars>>

(* completeOutboxJob and failOutboxJob write by id: the lease token is     *)
(* cleared and never compared.                                             *)
SetJob(i, status, due) ==
    /\ jobStatus' = [jobStatus EXCEPT ![i] = status]
    /\ jobLease' = [jobLease EXCEPT ![i] = "none"]
    /\ jobDue' = [jobDue EXCEPT ![i] = due]
    /\ UNCHANGED jobAttempts

(* The locals of the iteration go out of scope.                            *)
EndIteration(w) ==
    /\ cur' = [cur EXCEPT ![w] = NoItem]
    /\ seen' = [seen EXCEPT ![w][cur[w]] = 0]
    /\ why' = [why EXCEPT ![w] = "none"]

CompleteJob(w) ==
    /\ pc[w] \in {"skip", "complete"}
    /\ SetJob(cur[w], "completed", jobDue[cur[w]])
    /\ pc' = [pc EXCEPT ![w] = "next"]
    /\ EndIteration(w)
    /\ UNCHANGED <<record, itemVars, runStatus, resultVars, batch, view, txVars, boundVars>>

RetryJob(w) ==
    /\ pc[w] = "retryJob"
    /\ SetJob(cur[w], "pending", FALSE)
    /\ pc' = [pc EXCEPT ![w] = "next"]
    /\ EndIteration(w)
    /\ UNCHANGED <<record, itemVars, runStatus, resultVars, batch, view, txVars, boundVars>>

FailJob(w) ==
    /\ pc[w] = "failJob"
    /\ SetJob(cur[w], "failed", jobDue[cur[w]])
    /\ pc' = [pc EXCEPT ![w] = "failItem"]
    /\ UNCHANGED <<record, itemVars, runStatus, resultVars, batch, cur, seen, why, view,
                   txVars, boundVars>>

FailItem(w) ==
    /\ pc[w] = "failItem"
    /\ RowFree(cur[w])
    /\ UpdateItem(cur[w], "failed", FALSE, why[w])
    /\ pc' = [pc EXCEPT ![w] = "aggRead"]
    /\ UNCHANGED <<record, runStatus, resultVars, jobVars, batch, cur, seen, why, view,
                   txVars, boundVars>>

(* The worker aggregates outside any transaction.                          *)
ReadSiblings(w) ==
    /\ pc[w] = "aggRead"
    /\ view' = [view EXCEPT ![w] = Aggregate(itemStatus, RunOf[cur[w]])]
    /\ pc' = [pc EXCEPT ![w] = "aggWrite"]
    /\ UNCHANGED <<record, itemVars, runStatus, resultVars, jobVars, batch, cur, seen, why,
                   txVars, boundVars>>

WriteAggregate(w) ==
    /\ pc[w] = "aggWrite"
    /\ WriteRun(RunOf[cur[w]], view[w])
    /\ view' = [view EXCEPT ![w] = "keep"]
    /\ pc' = [pc EXCEPT ![w] = IF why[w] = "EXECUTION_TIMEOUT" THEN "expire" ELSE "next"]
    /\ EndIteration(w)
    /\ UNCHANGED <<record, itemVars, resultVars, jobVars, batch, txVars, boundVars>>

(* Mutant: the timeout looks for items that were never started.            *)
QueuedTooLong(i) == itemStatus[i] = "queued" /\ itemAged[i]

(* findTimedOutPositioningRunItems.                                        *)
TimedOut(i) == itemStatus[i] = "processing" /\ itemAged[i]

(* checkExecutionTimeouts reads the whole list first and then fails each   *)
(* item of it, whatever has become of the item.                            *)
ScanTimeouts(w) ==
    /\ pc[w] = "next" /\ batch[w] = {}
    /\ batch' = [batch EXCEPT ![w] = {i \in Items : TimedOut(i)}]
    /\ pc' = [pc EXCEPT ![w] = "expire"]
    /\ UNCHANGED <<record, itemVars, runStatus, resultVars, jobVars, cur, seen, why, view,
                   txVars, boundVars>>

PickTimedOut(w) ==
    /\ pc[w] = "expire"
    /\ \E i \in batch[w] :
         /\ batch' = [batch EXCEPT ![w] = @ \ {i}]
         /\ cur' = [cur EXCEPT ![w] = i]
    /\ why' = [why EXCEPT ![w] = "EXECUTION_TIMEOUT"]
    /\ pc' = [pc EXCEPT ![w] = "failItem"]
    /\ UNCHANGED <<record, itemVars, runStatus, resultVars, jobVars, seen, view,
                   txVars, boundVars>>

ResetWorker(w) ==
    /\ pc' = [pc EXCEPT ![w] = "idle"]
    /\ batch' = [batch EXCEPT ![w] = {}]
    /\ cur' = [cur EXCEPT ![w] = NoItem]
    /\ seen' = [seen EXCEPT ![w] = [i \in Items |-> 0]]
    /\ why' = [why EXCEPT ![w] = "none"]
    /\ view' = [view EXCEPT ![w] = "keep"]

(* The tick ends and start() schedules the next one.                       *)
EndTick(w) ==
    /\ pc[w] = "expire" /\ batch[w] = {}
    /\ ResetWorker(w)
    /\ UNCHANGED <<record, itemVars, runStatus, resultVars, jobVars, txVars, boundVars>>

(* The process stops, or a statement outside the try block throws and      *)
(* tick() rejects: the rest of the claimed batch is forgotten and a new    *)
(* tick starts from nothing.  A request on the wire may still arrive.      *)
AbandonTick(w) ==
    /\ pc[w] # "idle"
    /\ faults < MaxFaults
    /\ faults' = faults + 1
    /\ ResetWorker(w)
    /\ UNCHANGED record \/ (pc[w] = "dispatch" /\ Reserve(cur[w]))
    /\ UNCHANGED <<itemVars, runStatus, resultVars, jobVars, txVars, expiries>>
-----------------------------------------------------------------------------
(* receivePositioningAnalysisCallback                                      *)

(* Mutant: only a failure is recognised when it is repeated.               *)
FailureProcessed(i, event) == event = "failed" /\ <<i, event>> \in events

AlreadyProcessed(i, event) == <<i, event>> \in events

(* Mutant: the error code is the callback's status.                        *)
ErrorAsSent(event) == IF event = "failed" THEN event ELSE "none"

(* result_trajectory_id and error the transaction writes.                  *)
ResultAfter(i, event) == event = "completed" \/ itemResult[i]
ErrorAfter(event) == IF event = "failed" THEN "EXECUTION_FAILED" ELSE "none"

(* insertTrajectory runs only when the item has no result; its primary key *)
(* is the item's id, so a second insert aborts the transaction.            *)
TrajectoryInsertable(i, event) ==
    event = "completed" /\ ~itemResult[i] => i \notin trajectories

(* A request whose event is known, or whose update the database refuses,   *)
(* changes nothing and is not a step.                                      *)
BeginCallback(i, event) ==
    /\ MaySend(i, event)
    /\ ~AlreadyProcessed(i, event)
    /\ RowFree(i)
    /\ TrajectoryInsertable(i, event)
    /\ RowAllowed(event, ResultAfter(i, event), ErrorAfter(event))
    /\ txEvent' = [txEvent EXCEPT ![i] = event]
    /\ txView' = [txView EXCEPT ![i] =
                    Aggregate([itemStatus EXCEPT ![i] = event], RunOf[i])]
    /\ UNCHANGED <<record, itemVars, runStatus, resultVars, jobVars, workerVars, boundVars>>

(* The rows a transaction leaves beside the item: the event, the           *)
(* trajectory and the merged output manifest.                              *)
StoreOutputs(i, event) ==
    LET done == event = "completed" IN
    /\ events' = events \cup {<<i, event>>}
    /\ trajectories' = IF done THEN trajectories \cup {i} ELSE trajectories
    /\ manifest' = IF done THEN manifest \cup ({i} \cap ArtifactItems) ELSE manifest

CommitCallback(i) ==
    LET event == txEvent[i] IN
    /\ event # "none"
    /\ UpdateItem(i, event, ResultAfter(i, event), ErrorAfter(event))
    /\ StoreOutputs(i, event)
    /\ WriteRun(RunOf[i], txView[i])
    /\ txEvent' = [txEvent EXCEPT ![i] = "none"]
    /\ txView' = [txView EXCEPT ![i] = "keep"]
    /\ UNCHANGED <<record, jobVars, workerVars, boundVars>>

AbortCallback(i) ==
    /\ txEvent[i] # "none"
    /\ faults < MaxFaults
    /\ faults' = faults + 1
    /\ txEvent' = [txEvent EXCEPT ![i] = "none"]
    /\ txView' = [txView EXCEPT ![i] = "keep"]
    /\ UNCHANGED <<record, itemVars, runStatus, resultVars, jobVars, workerVars, expiries>>
-----------------------------------------------------------------------------
(* Nozomi ends an execution, and the clock                                 *)

NozomiFinishes(i) ==
    /\ \E v \in Verdicts : Finish(i, v)
    /\ UNCHANGED <<itemVars, runStatus, resultVars, jobVars, workerVars, txVars, boundVars>>

RetryFallsDue(i) ==
    /\ jobStatus[i] = "pending" /\ ~jobDue[i]
    /\ jobDue' = [jobDue EXCEPT ![i] = TRUE]
    /\ UNCHANGED <<record, itemVars, runStatus, resultVars, jobStatus, jobAttempts, jobLease,
                   workerVars, txVars, boundVars>>

(* 60 seconds have passed since the claim.                                 *)
LeaseExpires(i) ==
    /\ jobStatus[i] = "processing" /\ jobLease[i] = "held"
    /\ expiries < MaxLeaseExpiries
    /\ expiries' = expiries + 1
    /\ jobLease' = [jobLease EXCEPT ![i] = "expired"]
    /\ UNCHANGED <<record, itemVars, runStatus, resultVars, jobStatus, jobAttempts, jobDue,
                   workerVars, txVars, faults>>

(* 30 minutes have passed since the item was last written.                 *)
ItemAges(i) ==
    /\ itemStatus[i] = "processing" /\ ~itemAged[i]
    /\ itemAged' = [itemAged EXCEPT ![i] = TRUE]
    /\ UNCHANGED <<record, itemStatus, itemResult, itemError, runStatus, resultVars, jobVars,
                   workerVars, txVars, boundVars>>
-----------------------------------------------------------------------------
TickStep(w) ==
    \/ ClaimJobs(w) \/ ReadItem(w)
    \/ MarkItemProcessing(w) \/ MarkRunProcessing(w)
    \/ DispatchAccepted(w) \/ DispatchRetriable(w) \/ DispatchRejected(w) \/ StepThrows(w)
    \/ CompleteJob(w) \/ RetryJob(w) \/ FailJob(w)
    \/ FailItem(w) \/ ReadSiblings(w) \/ WriteAggregate(w)
    \/ ScanTimeouts(w) \/ PickTimedOut(w) \/ EndTick(w)

Next ==
    \/ \E w \in Workers : TickStep(w) \/ AbandonTick(w)
    \/ \E i \in Items, e \in EventStatus : BeginCallback(i, e)
    \/ \E i \in Items :
         \/ CommitCallback(i) \/ AbortCallback(i) \/ NozomiFinishes(i)
         \/ RetryFallsDue(i) \/ LeaseExpires(i) \/ ItemAges(i)

Spec == Init /\ [][Next]_vars

(* start() reschedules a tick whatever became of the last one, a           *)
(* transaction ends, and time passes.  Nothing makes Nozomi finish or call *)
(* back.                                                                   *)
Fairness ==
    /\ \A w \in Workers : WF_vars(TickStep(w))
    /\ \A i \in Items :
         /\ WF_vars(CommitCallback(i))
         /\ WF_vars(RetryFallsDue(i))
         /\ WF_vars(LeaseExpires(i))
         /\ WF_vars(ItemAges(i))

FairSpec == Spec /\ Fairness
-----------------------------------------------------------------------------
(* Safety                                                                  *)

(* Every row the workers and the endpoint write satisfies the table's      *)
(* CHECK constraint: a result only on a completed item, an error only on a *)
(* failed one.  The workers overwrite rows they read long ago, and a       *)
(* refused statement would end the tick with the job still leased.         *)
ItemRowsConsistent ==
    \A i \in Items : RowAllowed(itemStatus[i], itemResult[i], itemError[i])

(* However often Nozomi repeats a callback, before or after the first one  *)
(* is committed and whatever has become of the item since, one transaction *)
(* alone processes a completion: none is open once the trajectory is       *)
(* there.  The trajectory is there exactly when the completed event is     *)
(* recorded, and an item that reads completed has it and all artifacts.    *)
CompletedOnce ==
    \A i \in Items :
      /\ txEvent[i] = "completed" => i \notin trajectories
      /\ <<i, "completed">> \in events <=> i \in trajectories
      /\ itemStatus[i] = "completed" =>
            i \in trajectories /\ (i \in ArtifactItems => i \in manifest)

(* A run is reported completed only if every item has produced its         *)
(* trajectory, and partially completed only if one has: whatever the       *)
(* interleaving of the aggregations, none of them invents a result.        *)
RunStatusBacked ==
    \A r \in Runs :
      /\ runStatus[r] = "completed" => ItemsOf(r) \subseteq trajectories
      /\ runStatus[r] = "partially_completed" => ItemsOf(r) \cap trajectories # {}

(* The tick of worker w still has claimed jobs to handle: it has not come  *)
(* to the items that timed out.                                            *)
HandlesJobs(w) == pc[w] \notin {"idle", "expire"} /\ why[w] # "EXECUTION_TIMEOUT"

(* The jobs worker w has claimed and not yet disposed of.                  *)
Holding(w) ==
    (IF HandlesJobs(w) THEN batch[w] ELSE {})
    \cup (IF pc[w] \in JobPC THEN {cur[w]} ELSE {})

(* A lease is exclusive: a job is in the hands of one worker, and of one   *)
(* more for every lease that ran out under a slow worker.  The slow worker *)
(* still completes, retries or fails the job by id, the lease token is     *)
(* never compared, but what it writes admits no further holder.            *)
HoldersBounded ==
    \A i \in Items : Cardinality({w \in Workers : i \in Holding(w)}) <= 1 + expiries

(* Beyond max_attempts a job is claimed again only because a lease ran     *)
(* out, and an item is failed for exhausted retries only after             *)
(* max_attempts claims.                                                    *)
RetryLimitKept ==
    \A i \in Items :
        /\ jobAttempts[i] <= MaxAttempts + expiries
        /\ itemError[i] = "DISPATCH_RETRY_EXHAUSTED" => jobAttempts[i] >= MaxAttempts

(* With one worker process, a job is closed as completed only if Nozomi    *)
(* has the execution or the item has ended: no item is left to a dispatch  *)
(* nobody will make.                                                       *)
NoLostDispatch ==
    \A i \in Items :
      jobStatus[i] = "completed" => record[i] # "absent" \/ itemStatus[i] \in Terminal
-----------------------------------------------------------------------------
(* Steps                                                                   *)

(* No callback, however late, takes a completed item back: the endpoint    *)
(* does not check the item's status, the CHECK constraint and the row lock *)
(* do.                                                                     *)
CallbackNeverUndoesCompleted ==
    [][\A i \in Items : CommitCallback(i) /\ itemStatus[i] = "completed"
                          => itemStatus'[i] = "completed"]_vars

(* The comment on claimQueuedPositioningRunItem has the worker claim an    *)
(* item with "status = queued" before it dispatches; a claim made that way *)
(* never puts a completed item back to processing.                         *)
ClaimBoundaryKeepsCompleted ==
    [][\A i \in Items : itemStatus[i] = "completed" => itemStatus'[i] # "processing"]_vars
-----------------------------------------------------------------------------
(* The parent run, once nobody is about to write it                        *)

Quiet == /\ \A w \in Workers : pc[w] \in {"idle", "next", "expire"}
         /\ \A i \in Items : txEvent[i] = "none"

(* The tests of the endpoint and of the worker say that recording the last *)
(* outcome aggregates the parent: with all items completed the run reads   *)
(* completed.                                                              *)
ParentAggregated ==
    Quiet => \A r \in Runs :
               ItemsOf(r) # {} /\ (\A i \in ItemsOf(r) : itemStatus[i] = "completed")
               => runStatus[r] = "completed"
-----------------------------------------------------------------------------
(* Liveness                                                                *)

(* Whatever Nozomi does, every item ends, completed or failed, and stays   *)
(* so: the retry limit ends an item that cannot be dispatched, the timeout *)
(* one that never reports.                                                 *)
EventuallyTerminal == \A i \in Items : <>[](itemStatus[i] \in Terminal)

(* The worker's test has an item whose last attempt failed end as failed   *)
(* with its job.                                                           *)
FailedJobFailsItem ==
    \A i \in Items : jobStatus[i] = "failed" ~> itemStatus[i] \in Terminal
=============================================================================
