---------------------- MODULE PositioningAnalysisProofs ----------------------
(***************************************************************************)
(* Theorems about PositioningAnalysis, for every value of its constants.   *)
(***************************************************************************)
EXTENDS PositioningAnalysis, FiniteSetTheorems, TLAPS

(* The worker's catch block leads to a retry or to a failed job.           *)
LEMMA CatchType ==
    ASSUME TypeOK, NEW w \in Workers, NEW fatal \in BOOLEAN, Catch(w, fatal)
    PROVE  pc' \in [Workers -> PC] /\ why' \in [Workers -> ErrorCode]
BY DEF TypeOK, Catch, PC, JobPC, ErrorCode

(* aggregatePositioningRunStatus writes a run status or leaves the run.    *)
LEMMA AggregateType ==
    ASSUME NEW st, NEW r
    PROVE  Aggregate(st, r) \in RunStatus \cup {"keep"}
BY DEF Aggregate, RunStatus

LEMMA InitType == ConstantsOK /\ Init => TypeOK
BY DEF ConstantsOK, Init, TypeOK, NoExecutions, RecordTypeOK, RecordStatus, EventStatus, Verdicts,
       ItemStatus, RunStatus, JobStatus, ErrorCode, JobPC, PC

LEMMA UpdateItemType ==
    ASSUME TypeOK, NEW i, NEW status \in ItemStatus, NEW result \in BOOLEAN,
           NEW error \in ErrorCode, UpdateItem(i, status, result, error)
    PROVE  /\ itemStatus' \in [Items -> ItemStatus]
           /\ itemResult' \in [Items -> BOOLEAN]
           /\ itemError' \in [Items -> ErrorCode]
           /\ itemAged' \in [Items -> BOOLEAN]
BY DEF TypeOK, UpdateItem

LEMMA WriteRunType ==
    ASSUME TypeOK, NEW r, NEW status \in RunStatus \cup {"keep"}, WriteRun(r, status)
    PROVE  runStatus' \in [Runs -> RunStatus]
<1>1. CASE status = "keep"
  BY <1>1 DEF TypeOK, WriteRun
<1>2. CASE status # "keep"
  <2>1. status \in RunStatus
    BY <1>2
  <2>. QED
    BY <1>2, <2>1 DEF TypeOK, WriteRun
<1>. QED
  BY <1>1, <1>2

LEMMA SetJobType ==
    ASSUME TypeOK, NEW i, NEW status \in JobStatus, NEW isDue,
           i \in Items => isDue \in BOOLEAN, SetJob(i, status, isDue)
    PROVE  /\ jobStatus' \in [Items -> JobStatus]
           /\ jobAttempts' \in [Items -> Nat]
           /\ jobDue' \in [Items -> BOOLEAN]
           /\ jobLease' \in [Items -> {"none", "held", "expired"}]
BY DEF TypeOK, SetJob

LEMMA EndIterationType ==
    ASSUME TypeOK, NEW w \in Workers, EndIteration(w)
    PROVE  /\ cur' \in [Workers -> Items \cup {NoItem}]
           /\ seen' \in [Workers -> [Items -> Nat]]
           /\ why' \in [Workers -> ErrorCode]
BY DEF TypeOK, EndIteration, ErrorCode

LEMMA ResetWorkerType ==
    ASSUME TypeOK, NEW w \in Workers, ResetWorker(w)
    PROVE  /\ pc' \in [Workers -> PC]
           /\ batch' \in [Workers -> SUBSET Items]
           /\ cur' \in [Workers -> Items \cup {NoItem}]
           /\ seen' \in [Workers -> [Items -> Nat]]
           /\ why' \in [Workers -> ErrorCode]
           /\ view' \in [Workers -> RunStatus \cup {"keep"}]
BY DEF TypeOK, ResetWorker, PC, ErrorCode

LEMMA ReserveType ==
    ASSUME RecordTypeOK, NEW i, Reserve(i)
    PROVE  RecordTypeOK'
BY DEF RecordTypeOK, Reserve, RecordStatus, EventStatus

LEMMA StepType ==
    ASSUME ConstantsOK, TypeOK, [Next]_vars
    PROVE  TypeOK'
<1>. USE DEF TypeOK, RecordTypeOK, itemVars, resultVars, jobVars, workerVars, txVars, boundVars
<1>1. ASSUME NEW w \in Workers, ClaimJobs(w) PROVE TypeOK'
  <2>1. PICK S \in ClaimSets :
            /\ batch' = [batch EXCEPT ![w] = S]
            /\ jobStatus' = [i \in Items |-> IF i \in S THEN "processing" ELSE jobStatus[i]]
            /\ jobLease' = [i \in Items |-> IF i \in S THEN "held" ELSE jobLease[i]]
            /\ jobAttempts' = [i \in Items |-> IF i \in S THEN jobAttempts[i] + 1
                                                          ELSE jobAttempts[i]]
            /\ seen' = [seen EXCEPT ![w] = [i \in Items |-> IF i \in S
                                                           THEN jobAttempts[i] + 1 ELSE 0]]
    BY <1>1 DEF ClaimJobs
  <2>2. batch' \in [Workers -> SUBSET Items]
    BY <2>1 DEF ClaimSets
  <2>3. jobStatus' \in [Items -> JobStatus]
    BY <2>1 DEF JobStatus
  <2>4. jobLease' \in [Items -> {"none", "held", "expired"}]
    BY <2>1
  <2>5. jobAttempts' \in [Items -> Nat] /\ seen' \in [Workers -> [Items -> Nat]]
    BY <2>1
  <2>6. pc' \in [Workers -> PC]
    BY <1>1 DEF ClaimJobs, PC
  <2>. QED
    BY <1>1, <2>2, <2>3, <2>4, <2>5, <2>6 DEF ClaimJobs
<1>2. ASSUME NEW w \in Workers, ReadItem(w) PROVE TypeOK'
  BY <1>2 DEF ReadItem, PC, JobPC
<1>3. ASSUME NEW w \in Workers, MarkItemProcessing(w) PROVE TypeOK'
  BY <1>3, UpdateItemType DEF MarkItemProcessing, PC, JobPC, ItemStatus, EventStatus, ErrorCode
<1>4. ASSUME NEW w \in Workers, MarkRunProcessing(w) PROVE TypeOK'
  BY <1>4, WriteRunType DEF MarkRunProcessing, PC, JobPC, RunStatus
<1>5. ASSUME NEW w \in Workers, DispatchAccepted(w) PROVE TypeOK'
  BY <1>5, ReserveType DEF DispatchAccepted, PC, JobPC
<1>6. ASSUME NEW w \in Workers, DispatchRetriable(w) PROVE TypeOK'
  BY <1>6, ReserveType, CatchType DEF DispatchRetriable
<1>7. ASSUME NEW w \in Workers, DispatchRejected(w) PROVE TypeOK'
  BY <1>7, CatchType DEF DispatchRejected
<1>8. ASSUME NEW w \in Workers, StepThrows(w) PROVE TypeOK'
  BY <1>8, CatchType DEF StepThrows
<1>9. ASSUME NEW w \in Workers, CompleteJob(w) PROVE TypeOK'
  BY <1>9, SetJobType, EndIterationType DEF CompleteJob, PC, JobStatus
<1>10. ASSUME NEW w \in Workers, RetryJob(w) PROVE TypeOK'
  BY <1>10, SetJobType, EndIterationType DEF RetryJob, PC, JobStatus
<1>11. ASSUME NEW w \in Workers, FailJob(w) PROVE TypeOK'
  BY <1>11, SetJobType DEF FailJob, PC, JobStatus
<1>12. ASSUME NEW w \in Workers, FailItem(w) PROVE TypeOK'
  BY <1>12, UpdateItemType DEF FailItem, PC, ItemStatus, EventStatus, Verdicts
<1>13. ASSUME NEW w \in Workers, ReadSiblings(w) PROVE TypeOK'
  BY <1>13, AggregateType DEF ReadSiblings, PC
<1>14. ASSUME NEW w \in Workers, WriteAggregate(w) PROVE TypeOK'
  BY <1>14, WriteRunType, EndIterationType DEF WriteAggregate, PC
<1>15. ASSUME NEW w \in Workers, ScanTimeouts(w) PROVE TypeOK'
  BY <1>15 DEF ScanTimeouts, PC
<1>16. ASSUME NEW w \in Workers, PickTimedOut(w) PROVE TypeOK'
  BY <1>16 DEF PickTimedOut, PC, ErrorCode
<1>17. ASSUME NEW w \in Workers, EndTick(w) PROVE TypeOK'
  BY <1>17, ResetWorkerType DEF EndTick
<1>18. ASSUME NEW w \in Workers, AbandonTick(w) PROVE TypeOK'
  BY <1>18, ResetWorkerType, ReserveType DEF AbandonTick
<1>19. ASSUME NEW i \in Items, NEW e \in EventStatus, BeginCallback(i, e) PROVE TypeOK'
  BY <1>19, AggregateType DEF BeginCallback
<1>20. ASSUME NEW i \in Items, CommitCallback(i) PROVE TypeOK'
  <2>. DEFINE e == txEvent[i]
  <2>1. e \in EventStatus /\ txView[i] \in RunStatus \cup {"keep"}
    BY <1>20 DEF CommitCallback
  <2>2. e \in ItemStatus /\ ResultAfter(i, e) \in BOOLEAN /\ ErrorAfter(e) \in ErrorCode
    BY <2>1 DEF ItemStatus, ResultAfter, ErrorAfter, ErrorCode
  <2>3. UpdateItem(i, e, ResultAfter(i, e), ErrorAfter(e)) /\ WriteRun(RunOf[i], txView[i])
    BY <1>20 DEF CommitCallback
  <2>4. events' \subseteq Items \X EventStatus /\ trajectories' \subseteq Items
        /\ manifest' \subseteq Items
    BY <1>20, <2>1 DEF CommitCallback, StoreOutputs
  <2>5. /\ itemStatus' \in [Items -> ItemStatus] /\ itemResult' \in [Items -> BOOLEAN]
        /\ itemError' \in [Items -> ErrorCode] /\ itemAged' \in [Items -> BOOLEAN]
    BY <2>2, <2>3 DEF UpdateItem
  <2>6. runStatus' \in [Runs -> RunStatus]
    BY <2>1, <2>3, WriteRunType
  <2>7. txEvent' \in [Items -> EventStatus \cup {"none"}]
        /\ txView' \in [Items -> RunStatus \cup {"keep"}]
    BY <1>20 DEF CommitCallback
  <2>. HIDE DEF e
  <2>. QED
    BY <1>20, <2>4, <2>5, <2>6, <2>7 DEF CommitCallback
<1>21. ASSUME NEW i \in Items, AbortCallback(i) PROVE TypeOK'
  BY <1>21 DEF AbortCallback
<1>22. ASSUME NEW i \in Items, NozomiFinishes(i) PROVE TypeOK'
  BY <1>22 DEF NozomiFinishes, Finish, RecordStatus, EventStatus
<1>23. ASSUME NEW i \in Items, RetryFallsDue(i) PROVE TypeOK'
  BY <1>23 DEF RetryFallsDue
<1>24. ASSUME NEW i \in Items, LeaseExpires(i) PROVE TypeOK'
  BY <1>24 DEF LeaseExpires
<1>25. ASSUME NEW i \in Items, ItemAges(i) PROVE TypeOK'
  BY <1>25 DEF ItemAges
<1>26. ASSUME UNCHANGED vars PROVE TypeOK'
  BY <1>26 DEF vars, workerVars
<1>. QED
  BY <1>1, <1>2, <1>3, <1>4, <1>5, <1>6, <1>7, <1>8, <1>9, <1>10, <1>11,
     <1>12, <1>13, <1>14, <1>15, <1>16, <1>17, <1>18, <1>19, <1>20, <1>21,
     <1>22, <1>23, <1>24, <1>25, <1>26
     DEF Next, TickStep

(* Every variable keeps its type, whatever the numbers of runs, items,     *)
(* workers, attempts and faults.                                           *)
THEOREM TypeCorrect == ConstantsOK /\ Spec => []TypeOK
<1>1. ConstantsOK /\ TypeOK /\ [Next]_vars => TypeOK'
  BY StepType
<1>. QED
  BY <1>1, InitType, ConstantsOK, PTL DEF Spec
-----------------------------------------------------------------------------
(***************************************************************************)
(* A run never claims a result no item produced.                           *)
(*                                                                         *)
(* Status views are computed in one step and written in a later one, by    *)
(* workers and by callback transactions, while other actors move the items *)
(* on.  What makes them safe nevertheless is that the evidence for a       *)
(* positive verdict, the trajectories, only grows: a view that was backed  *)
(* when it was computed is still backed when it is written.                *)
(***************************************************************************)

(* The trajectories in done justify status s of run r.                     *)
Backed(r, s, done) ==
    /\ s = "completed" => ItemsOf(r) \subseteq done
    /\ s = "partially_completed" => ItemsOf(r) \cap done # {}

(* What a completed item leaves behind, stronger than CompletedOnce: it    *)
(* stays behind when the item is overwritten.                              *)
OutputsAgree ==
    \A i \in Items :
      /\ <<i, "completed">> \in events <=> i \in trajectories
      /\ itemStatus[i] = "completed" => i \in trajectories
      /\ i \in trajectories /\ i \in ArtifactItems => i \in manifest

(* Once open transaction i commits, its trajectory exists.                 *)
TrajectoriesAfter(i) ==
    IF txEvent[i] = "completed" THEN trajectories \cup {i} ELSE trajectories

RunInv ==
    /\ TypeOK
    /\ OutputsAgree
    /\ \A r \in Runs : Backed(r, runStatus[r], trajectories)
    /\ \A w \in Workers :
         pc[w] = "aggWrite" => Backed(RunOf[cur[w]], view[w], trajectories)
    /\ \A i \in Items :
         txEvent[i] # "none" => Backed(RunOf[i], txView[i], TrajectoriesAfter(i))

(* The verdict aggregated from item statuses is backed when every          *)
(* completed item is.                                                      *)
LEMMA AggregateBacked ==
    ASSUME NEW st, NEW r, NEW done, \A j \in ItemsOf(r) : st[j] = "completed" => j \in done
    PROVE  Backed(r, Aggregate(st, r), done)
<1>. DEFINE S == {st[j] : j \in ItemsOf(r)}
<1>1. Aggregate(st, r) = "completed" => S = {"completed"}
  BY DEF Aggregate
<1>2. Aggregate(st, r) = "partially_completed" => "completed" \in S
  BY DEF Aggregate
<1>3. S = {"completed"} => ItemsOf(r) \subseteq done
  <2>. SUFFICES ASSUME S = {"completed"}, NEW j \in ItemsOf(r) PROVE j \in done
    OBVIOUS
  <2>1. st[j] = "completed"
    OBVIOUS
  <2>. QED
    BY <2>1
<1>4. "completed" \in S => ItemsOf(r) \cap done # {}
  OBVIOUS
<1>. QED
  BY <1>1, <1>2, <1>3, <1>4 DEF Backed

LEMMA BackedGrows ==
    ASSUME NEW r, NEW s, NEW done, NEW more, Backed(r, s, done), done \subseteq more
    PROVE  Backed(r, s, more)
BY DEF Backed

LEMMA BackedWrite ==
    ASSUME NEW r, NEW s, NEW done, TypeOK, WriteRun(r, s), Backed(r, s, done),
           \A q \in Runs : Backed(q, runStatus[q], done)
    PROVE  \A q \in Runs : Backed(q, runStatus'[q], done)
<1>1. runStatus \in [Runs -> RunStatus]
  BY DEF TypeOK
<1>. QED
  BY <1>1 DEF WriteRun

(* A step of worker w that writes no run, no result and no open            *)
(* transaction, completes no item, and does not end with a new view.       *)
LEMMA FrameStep ==
    ASSUME RunInv, TypeOK', NEW w \in Workers, UNCHANGED <<runStatus, resultVars, txVars>>,
           pc'[w] # "aggWrite",
           \A v \in Workers \ {w} : pc'[v] = pc[v] /\ cur'[v] = cur[v] /\ view'[v] = view[v],
           \A i \in Items : itemStatus'[i] = "completed" => itemStatus[i] = "completed"
    PROVE  RunInv'
<1>1. OutputsAgree'
  BY DEF RunInv, OutputsAgree, resultVars
<1>2. \A r \in Runs : Backed(r, runStatus'[r], trajectories')
  BY DEF RunInv, resultVars
<1>3. ASSUME NEW v \in Workers, pc'[v] = "aggWrite"
      PROVE  Backed(RunOf[cur'[v]], view'[v], trajectories')
  BY <1>3 DEF RunInv, resultVars
<1>4. ASSUME NEW i \in Items, txEvent'[i] # "none"
      PROVE  Backed(RunOf[i], txView'[i], TrajectoriesAfter(i)')
  BY <1>4 DEF RunInv, resultVars, txVars, TrajectoriesAfter
<1>. QED
  BY <1>1, <1>2, <1>3, <1>4 DEF RunInv, Backed, ItemsOf

(* The catch block only moves its own worker.                              *)
LEMMA CatchFrame ==
    ASSUME TypeOK, NEW w \in Workers, NEW fatal \in BOOLEAN, Catch(w, fatal)
    PROVE  /\ pc'[w] # "aggWrite"
           /\ \A v \in Workers \ {w} : pc'[v] = pc[v]
<1>1. pc \in [Workers -> PC]
  BY DEF TypeOK
<1>. QED
  BY <1>1 DEF Catch

LEMMA InitRunInv == ConstantsOK /\ Init => RunInv
<1>. SUFFICES ASSUME ConstantsOK, Init PROVE RunInv
  OBVIOUS
<1>1. TypeOK
  BY InitType
<1>2. OutputsAgree
  BY DEF Init, OutputsAgree
<1>3. \A r \in Runs : Backed(r, runStatus[r], trajectories)
  BY DEF Init, Backed
<1>. QED
  BY <1>1, <1>2, <1>3 DEF Init, RunInv

LEMMA StepRunInv ==
    ASSUME ConstantsOK, RunInv, [Next]_vars
    PROVE  RunInv'
<1>. TypeOK'
  BY StepType DEF RunInv
<1>1. ASSUME NEW w \in Workers, ClaimJobs(w) PROVE RunInv'
  BY <1>1, FrameStep DEF RunInv, TypeOK, ClaimJobs, itemVars
<1>2. ASSUME NEW w \in Workers, ReadItem(w) PROVE RunInv'
  BY <1>2, FrameStep DEF RunInv, TypeOK, ReadItem, itemVars
<1>3. ASSUME NEW w \in Workers, MarkItemProcessing(w) PROVE RunInv'
  BY <1>3, FrameStep DEF RunInv, TypeOK, MarkItemProcessing, UpdateItem
<1>4. ASSUME NEW w \in Workers, MarkRunProcessing(w) PROVE RunInv'
  <2>1. Backed(RunOf[cur[w]], "processing", trajectories)
    BY DEF Backed
  <2>2. \A r \in Runs : Backed(r, runStatus'[r], trajectories)
    BY <1>4, <2>1, BackedWrite DEF MarkRunProcessing, RunInv
  <2>3. OutputsAgree' /\ trajectories' = trajectories
    BY <1>4 DEF MarkRunProcessing, RunInv, OutputsAgree, resultVars, itemVars
  <2>4. ASSUME NEW v \in Workers, pc'[v] = "aggWrite"
        PROVE  Backed(RunOf[cur'[v]], view'[v], trajectories)
    BY <1>4, <2>4 DEF MarkRunProcessing, RunInv, TypeOK
  <2>5. ASSUME NEW i \in Items, txEvent'[i] # "none"
        PROVE  Backed(RunOf[i], txView'[i], TrajectoriesAfter(i)')
    BY <1>4, <2>3, <2>5 DEF MarkRunProcessing, RunInv, txVars, TrajectoriesAfter
  <2>. QED
    BY <2>2, <2>3, <2>4, <2>5 DEF RunInv, Backed, ItemsOf
<1>5. ASSUME NEW w \in Workers, DispatchAccepted(w) PROVE RunInv'
  BY <1>5, FrameStep DEF RunInv, TypeOK, DispatchAccepted, itemVars
<1>6. ASSUME NEW w \in Workers, DispatchRetriable(w) PROVE RunInv'
  <2>1. /\ pc'[w] # "aggWrite"
        /\ \A v \in Workers \ {w} : pc'[v] = pc[v]
    BY <1>6, CatchFrame DEF DispatchRetriable, RunInv
  <2>. QED
    BY <1>6, <2>1, FrameStep DEF DispatchRetriable, itemVars
<1>7. ASSUME NEW w \in Workers, DispatchRejected(w) PROVE RunInv'
  <2>1. /\ pc'[w] # "aggWrite"
        /\ \A v \in Workers \ {w} : pc'[v] = pc[v]
    BY <1>7, CatchFrame DEF DispatchRejected, RunInv
  <2>. QED
    BY <1>7, <2>1, FrameStep DEF DispatchRejected, itemVars
<1>8. ASSUME NEW w \in Workers, StepThrows(w) PROVE RunInv'
  <2>1. /\ pc'[w] # "aggWrite"
        /\ \A v \in Workers \ {w} : pc'[v] = pc[v]
    BY <1>8, CatchFrame DEF StepThrows, RunInv
  <2>. QED
    BY <1>8, <2>1, FrameStep DEF StepThrows, itemVars
<1>9. ASSUME NEW w \in Workers, CompleteJob(w) PROVE RunInv'
  BY <1>9, FrameStep DEF RunInv, TypeOK, CompleteJob, itemVars, EndIteration
<1>10. ASSUME NEW w \in Workers, RetryJob(w) PROVE RunInv'
  BY <1>10, FrameStep DEF RunInv, TypeOK, RetryJob, itemVars, EndIteration
<1>11. ASSUME NEW w \in Workers, FailJob(w) PROVE RunInv'
  BY <1>11, FrameStep DEF RunInv, TypeOK, FailJob, itemVars
<1>12. ASSUME NEW w \in Workers, FailItem(w) PROVE RunInv'
  BY <1>12, FrameStep DEF RunInv, TypeOK, FailItem, UpdateItem
<1>13. ASSUME NEW w \in Workers, ReadSiblings(w) PROVE RunInv'
  <2>1. \A j \in ItemsOf(RunOf[cur[w]]) : itemStatus[j] = "completed" => j \in trajectories
    BY DEF ItemsOf, RunInv, OutputsAgree
  <2>2. Backed(RunOf[cur[w]], Aggregate(itemStatus, RunOf[cur[w]]), trajectories)
    BY <2>1, AggregateBacked
  <2>3. OutputsAgree' /\ UNCHANGED <<trajectories, runStatus, txEvent, txView, cur>>
    BY <1>13 DEF ReadSiblings, RunInv, OutputsAgree, resultVars, itemVars, txVars
  <2>4. ASSUME NEW v \in Workers, pc'[v] = "aggWrite"
        PROVE  Backed(RunOf[cur[v]], view'[v], trajectories)
    BY <1>13, <2>2, <2>4 DEF ReadSiblings, RunInv, TypeOK
  <2>5. ASSUME NEW i \in Items, txEvent[i] # "none"
        PROVE  Backed(RunOf[i], txView[i], TrajectoriesAfter(i)')
    BY <2>3, <2>5 DEF RunInv, TrajectoriesAfter
  <2>. QED
    BY <2>3, <2>4, <2>5 DEF RunInv, Backed, ItemsOf
<1>14. ASSUME NEW w \in Workers, WriteAggregate(w) PROVE RunInv'
  <2>1. Backed(RunOf[cur[w]], view[w], trajectories)
    BY <1>14 DEF WriteAggregate, RunInv
  <2>2. \A r \in Runs : Backed(r, runStatus'[r], trajectories)
    BY <1>14, <2>1, BackedWrite DEF WriteAggregate, RunInv
  <2>3. OutputsAgree' /\ UNCHANGED <<trajectories, txEvent, txView>>
    BY <1>14 DEF WriteAggregate, RunInv, OutputsAgree, resultVars, itemVars, txVars
  <2>4. ASSUME NEW v \in Workers, pc'[v] = "aggWrite"
        PROVE  Backed(RunOf[cur'[v]], view'[v], trajectories)
    BY <1>14, <2>4 DEF WriteAggregate, EndIteration, RunInv, TypeOK
  <2>5. ASSUME NEW i \in Items, txEvent[i] # "none"
        PROVE  Backed(RunOf[i], txView[i], TrajectoriesAfter(i)')
    BY <2>3, <2>5 DEF RunInv, TrajectoriesAfter
  <2>. QED
    BY <2>2, <2>3, <2>4, <2>5 DEF RunInv, Backed, ItemsOf
<1>15. ASSUME NEW w \in Workers, ScanTimeouts(w) PROVE RunInv'
  BY <1>15, FrameStep DEF RunInv, TypeOK, ScanTimeouts, itemVars
<1>16. ASSUME NEW w \in Workers, PickTimedOut(w) PROVE RunInv'
  BY <1>16, FrameStep DEF RunInv, TypeOK, PickTimedOut, itemVars
<1>17. ASSUME NEW w \in Workers, EndTick(w) PROVE RunInv'
  BY <1>17, FrameStep DEF RunInv, TypeOK, EndTick, itemVars, ResetWorker
<1>18. ASSUME NEW w \in Workers, AbandonTick(w) PROVE RunInv'
  BY <1>18, FrameStep DEF RunInv, TypeOK, AbandonTick, itemVars, ResetWorker
<1>19. ASSUME NEW i \in Items, NEW e \in EventStatus, BeginCallback(i, e) PROVE RunInv'
  <2>. DEFINE st == [itemStatus EXCEPT ![i] = e]
              done == IF e = "completed" THEN trajectories \cup {i} ELSE trajectories
  <2>1. \A j \in ItemsOf(RunOf[i]) : st[j] = "completed" => j \in done
    BY DEF ItemsOf, RunInv, TypeOK, OutputsAgree
  <2>2. Backed(RunOf[i], Aggregate(st, RunOf[i]), done)
    BY <2>1, AggregateBacked
  <2>3. OutputsAgree' /\ UNCHANGED <<trajectories, runStatus, pc, cur, view>>
    BY <1>19 DEF BeginCallback, RunInv, OutputsAgree, resultVars, itemVars, workerVars
  <2>4. ASSUME NEW j \in Items, txEvent'[j] # "none"
        PROVE  Backed(RunOf[j], txView'[j], TrajectoriesAfter(j)')
    <3>1. CASE j = i
      <4>1. txEvent'[i] = e /\ txView'[i] = Aggregate(st, RunOf[i])
        BY <1>19 DEF BeginCallback, RunInv, TypeOK
      <4>2. TrajectoriesAfter(i)' = done
        BY <2>3, <4>1 DEF TrajectoriesAfter
      <4>. QED
        BY <2>2, <3>1, <4>1, <4>2
    <3>2. CASE j # i
      <4>1. txEvent'[j] = txEvent[j] /\ txView'[j] = txView[j]
        BY <1>19, <3>2 DEF BeginCallback, RunInv, TypeOK
      <4>2. TrajectoriesAfter(j)' = TrajectoriesAfter(j)
        BY <2>3, <4>1 DEF TrajectoriesAfter
      <4>. QED
        BY <2>4, <4>1, <4>2 DEF RunInv
    <3>. QED
      BY <3>1, <3>2
  <2>. QED
    BY <2>3, <2>4 DEF RunInv, Backed, ItemsOf
<1>20. ASSUME NEW i \in Items, CommitCallback(i) PROVE RunInv'
  <2>1. txEvent[i] # "none" /\ trajectories' = TrajectoriesAfter(i)
    BY <1>20 DEF CommitCallback, StoreOutputs, TrajectoriesAfter
  <2>2. trajectories \subseteq trajectories'
    BY <2>1 DEF TrajectoriesAfter
  <2>3. OutputsAgree'
    <3>. DEFINE e == txEvent[i]
    <3>1. StoreOutputs(i, e) /\ itemStatus' = [itemStatus EXCEPT ![i] = e]
      BY <1>20 DEF CommitCallback, UpdateItem
    <3>. SUFFICES ASSUME NEW j \in Items
                  PROVE  /\ <<j, "completed">> \in events' <=> j \in trajectories'
                         /\ itemStatus'[j] = "completed" => j \in trajectories'
                         /\ j \in trajectories' /\ j \in ArtifactItems => j \in manifest'
      BY DEF OutputsAgree
    <3>. HIDE DEF e
    <3>2. CASE e = "completed"
      BY <3>1, <3>2 DEF StoreOutputs, RunInv, TypeOK, OutputsAgree
    <3>3. CASE e # "completed"
      BY <3>1, <3>3 DEF StoreOutputs, RunInv, TypeOK, OutputsAgree
    <3>. QED
      BY <3>2, <3>3
  <2>4. \A r \in Runs : Backed(r, runStatus'[r], trajectories')
    <3>1. \A r \in Runs : Backed(r, runStatus[r], trajectories')
      BY <2>2, BackedGrows DEF RunInv
    <3>2. Backed(RunOf[i], txView[i], trajectories') /\ WriteRun(RunOf[i], txView[i])
      BY <1>20, <2>1 DEF CommitCallback, RunInv
    <3>. QED
      BY <3>1, <3>2, BackedWrite DEF RunInv
  <2>5. ASSUME NEW v \in Workers, pc'[v] = "aggWrite"
        PROVE  Backed(RunOf[cur'[v]], view'[v], trajectories')
    <3>1. Backed(RunOf[cur[v]], view[v], trajectories) /\ UNCHANGED <<cur, view>>
      BY <1>20, <2>5 DEF CommitCallback, RunInv, workerVars
    <3>. QED
      BY <3>1, <2>2, BackedGrows
  <2>6. ASSUME NEW j \in Items, txEvent'[j] # "none"
        PROVE  Backed(RunOf[j], txView'[j], TrajectoriesAfter(j)')
    <3>1. j # i /\ txEvent'[j] = txEvent[j] /\ txView'[j] = txView[j]
      BY <1>20, <2>6 DEF CommitCallback, RunInv, TypeOK
    <3>2. Backed(RunOf[j], txView[j], TrajectoriesAfter(j))
      BY <2>6, <3>1 DEF RunInv
    <3>3. TrajectoriesAfter(j) \subseteq TrajectoriesAfter(j)'
      BY <2>2, <3>1 DEF TrajectoriesAfter
    <3>. QED
      BY <3>1, <3>2, <3>3, BackedGrows
  <2>7. (\A r \in Runs : Backed(r, runStatus[r], trajectories))'
    BY <2>4 DEF Backed, ItemsOf
  <2>8. (\A v \in Workers : pc[v] = "aggWrite" => Backed(RunOf[cur[v]], view[v], trajectories))'
    BY <2>5 DEF Backed, ItemsOf
  <2>9. (\A j \in Items : txEvent[j] # "none" =>
          Backed(RunOf[j], txView[j], TrajectoriesAfter(j)))'
    BY <2>6 DEF Backed, ItemsOf
  <2>. QED
    BY <2>3, <2>7, <2>8, <2>9 DEF RunInv
<1>21. ASSUME NEW i \in Items, AbortCallback(i) PROVE RunInv'
  <2>1. OutputsAgree' /\ UNCHANGED <<trajectories, runStatus, pc, cur, view>>
    BY <1>21 DEF AbortCallback, RunInv, OutputsAgree, resultVars, itemVars, workerVars
  <2>2. ASSUME NEW j \in Items, txEvent'[j] # "none"
        PROVE  Backed(RunOf[j], txView'[j], TrajectoriesAfter(j)')
    <3>1. txEvent'[j] = txEvent[j] /\ txView'[j] = txView[j]
      BY <1>21, <2>2 DEF AbortCallback, RunInv, TypeOK
    <3>2. TrajectoriesAfter(j)' = TrajectoriesAfter(j)
      BY <2>1, <3>1 DEF TrajectoriesAfter
    <3>. QED
      BY <2>2, <3>1, <3>2 DEF RunInv
  <2>. QED
    BY <2>1, <2>2 DEF RunInv, Backed, ItemsOf
<1>22. ASSUME UNCHANGED <<itemStatus, runStatus, resultVars, workerVars, txVars>> PROVE RunInv'
  BY <1>22 DEF RunInv, OutputsAgree, Backed, ItemsOf, TrajectoriesAfter, resultVars, workerVars,
           txVars
<1>23. ASSUME NEW i \in Items,
             NozomiFinishes(i) \/ RetryFallsDue(i) \/ LeaseExpires(i) \/ ItemAges(i)
      PROVE  RunInv'
  BY <1>23, <1>22
     DEF NozomiFinishes, RetryFallsDue, LeaseExpires, ItemAges, itemVars
<1>24. ASSUME UNCHANGED vars PROVE RunInv'
  BY <1>24, <1>22 DEF vars, itemVars
<1>. QED
  BY <1>1, <1>2, <1>3, <1>4, <1>5, <1>6, <1>7, <1>8, <1>9, <1>10, <1>11,
     <1>12, <1>13, <1>14, <1>15, <1>16, <1>17, <1>18, <1>19, <1>20, <1>21,
     <1>23, <1>24
     DEF Next, TickStep

LEMMA RunInvHolds == ConstantsOK /\ Spec => []RunInv
<1>1. ConstantsOK /\ RunInv /\ [Next]_vars => RunInv'
  BY StepRunInv
<1>. QED
  BY <1>1, InitRunInv, ConstantsOK, PTL DEF Spec

(* However the aggregations of workers and callbacks interleave, a run     *)
(* that reads completed has a trajectory for every item.                   *)
THEOREM RunStatusIsBacked == ConstantsOK /\ Spec => []RunStatusBacked
<1>1. RunInv => RunStatusBacked
  BY DEF RunInv, RunStatusBacked, Backed
<1>. QED
  BY <1>1, RunInvHolds, PTL

(* A transaction that processes a completion is the only one of its item   *)
(* ever to do so.                                                          *)
OpenIsFirst == \A i \in Items : txEvent[i] = "completed" => i \notin trajectories

(* The worker and the clock open no transaction and store no output.       *)
LEMMA OnlyCallbacksStore ==
    /\ \A w \in Workers : TickStep(w) \/ AbandonTick(w) => UNCHANGED <<txEvent, trajectories>>
    /\ \A i \in Items : NozomiFinishes(i) \/ RetryFallsDue(i) \/ LeaseExpires(i) \/ ItemAges(i) =>
           UNCHANGED <<txEvent, trajectories>>
<1>. USE DEF resultVars, txVars
<1>1. ASSUME NEW w \in Workers, TickStep(w) \/ AbandonTick(w) PROVE UNCHANGED <<txEvent, trajectories>>
  <2>1. CASE ClaimJobs(w) \/ ReadItem(w) \/ MarkItemProcessing(w) \/ MarkRunProcessing(w)
    BY <2>1 DEF ClaimJobs, ReadItem, MarkItemProcessing, MarkRunProcessing
  <2>2. CASE DispatchAccepted(w) \/ DispatchRetriable(w) \/ DispatchRejected(w) \/ StepThrows(w)
    BY <2>2 DEF DispatchAccepted, DispatchRetriable, DispatchRejected, StepThrows
  <2>3. CASE CompleteJob(w) \/ RetryJob(w) \/ FailJob(w) \/ FailItem(w)
    BY <2>3 DEF CompleteJob, RetryJob, FailJob, FailItem
  <2>4. CASE ReadSiblings(w) \/ WriteAggregate(w) \/ ScanTimeouts(w) \/ PickTimedOut(w) \/ EndTick(w)
    BY <2>4 DEF ReadSiblings, WriteAggregate, ScanTimeouts, PickTimedOut, EndTick
  <2>5. CASE AbandonTick(w)
    BY <2>5 DEF AbandonTick
  <2>. QED
    BY <1>1, <2>1, <2>2, <2>3, <2>4, <2>5 DEF TickStep
<1>2. ASSUME NEW i \in Items, NozomiFinishes(i) \/ RetryFallsDue(i) \/ LeaseExpires(i) \/ ItemAges(i)
      PROVE  UNCHANGED <<txEvent, trajectories>>
  BY <1>2 DEF NozomiFinishes, RetryFallsDue, LeaseExpires, ItemAges
<1>. QED
  BY <1>1, <1>2

LEMMA StepOpenIsFirst ==
    ASSUME RunInv, OpenIsFirst, [Next]_vars
    PROVE  OpenIsFirst'
<1>1. ASSUME UNCHANGED <<txEvent, trajectories>> PROVE OpenIsFirst'
  BY <1>1 DEF OpenIsFirst
<1>2. ASSUME NEW i \in Items, NEW e \in EventStatus, BeginCallback(i, e) PROVE OpenIsFirst'
  <2>1. trajectories' = trajectories /\ txEvent' = [txEvent EXCEPT ![i] = e]
    BY <1>2 DEF BeginCallback, resultVars
  <2>2. e = "completed" => i \notin trajectories
    BY <1>2 DEF BeginCallback, AlreadyProcessed, RunInv, OutputsAgree
  <2>. QED
    BY <2>1, <2>2 DEF OpenIsFirst, RunInv, TypeOK
<1>3. ASSUME NEW i \in Items, CommitCallback(i) \/ AbortCallback(i) PROVE OpenIsFirst'
  <2>1. /\ txEvent' = [txEvent EXCEPT ![i] = "none"]
        /\ \A j \in Items \ {i} : j \in trajectories' => j \in trajectories
    BY <1>3 DEF CommitCallback, AbortCallback, StoreOutputs, resultVars
  <2>. QED
    BY <2>1 DEF OpenIsFirst, RunInv, TypeOK
<1>4. CASE UNCHANGED vars
  BY <1>1, <1>4 DEF vars, resultVars, txVars
<1>. QED
  BY <1>1, <1>2, <1>3, <1>4, OnlyCallbacksStore DEF Next

(* A repeated, late or overtaken callback is processed by one transaction  *)
(* per completed execution and leaves one trajectory, and a completed item *)
(* keeps all its outputs.                                                  *)
THEOREM OutputsExactlyOnce == ConstantsOK /\ Spec => []CompletedOnce
<1>1. Init => OpenIsFirst
  BY DEF Init, OpenIsFirst
<1>2. RunInv /\ OpenIsFirst /\ [Next]_vars => OpenIsFirst'
  BY StepOpenIsFirst
<1>3. RunInv /\ OpenIsFirst => CompletedOnce
  BY DEF RunInv, OutputsAgree, OpenIsFirst, CompletedOnce
<1>. QED
  BY <1>1, <1>2, <1>3, RunInvHolds, PTL DEF Spec
-----------------------------------------------------------------------------
(***************************************************************************)
(* Item rows satisfy their CHECK constraint, and no callback takes a       *)
(* completed item back.  The endpoint never looks at the item's status:    *)
(* the row lock it holds and the constraint its update must satisfy are    *)
(* what the argument rests on.                                             *)
(***************************************************************************)

(* A worker about to record a failure has an error to record.              *)
ErrorInHand(w) == pc[w] \in {"failJob", "failItem"} => why[w] # "none"

(* The row lock keeps true what the constraint check found.                *)
UpdateAccepted(i) ==
    LET e == txEvent[i] IN e # "none" => RowAllowed(e, ResultAfter(i, e), ErrorAfter(e))

RowInv ==
    /\ TypeOK
    /\ ItemRowsConsistent
    /\ \A w \in Workers : ErrorInHand(w)
    /\ \A i \in Items : UpdateAccepted(i)

LEMMA InitRowInv == ConstantsOK /\ Init => RowInv
<1>. SUFFICES ASSUME ConstantsOK, Init PROVE RowInv
  OBVIOUS
<1>1. TypeOK
  BY InitType
<1>2. ItemRowsConsistent
  BY DEF Init, ItemRowsConsistent, RowAllowed
<1>. QED
  BY <1>1, <1>2 DEF Init, RowInv, ErrorInHand, UpdateAccepted

(* A step of worker w that writes no item and no open transaction.         *)
LEMMA WorkerRowStep ==
    ASSUME RowInv, TypeOK', NEW w \in Workers, UNCHANGED <<itemVars, txVars>>, ErrorInHand(w)',
           \A v \in Workers \ {w} : pc'[v] = pc[v] /\ why'[v] = why[v]
    PROVE  RowInv'
<1>1. ItemRowsConsistent'
  BY DEF RowInv, ItemRowsConsistent, itemVars, RowAllowed
<1>2. \A v \in Workers : ErrorInHand(v)'
  BY DEF RowInv, ErrorInHand
<1>3. \A i \in Items : UpdateAccepted(i)'
  BY DEF RowInv, UpdateAccepted, itemVars, txVars, RowAllowed, ResultAfter, ErrorAfter
<1>. QED
  BY <1>1, <1>2, <1>3 DEF RowInv

(* A worker writes an item nobody has locked.                              *)
LEMMA ItemRowStep ==
    ASSUME RowInv, TypeOK', NEW w \in Workers, NEW i, RowFree(i), UNCHANGED txVars,
           NEW status \in ItemStatus, NEW error,
           UpdateItem(i, status, FALSE, error), RowAllowed(status, FALSE, error),
           ErrorInHand(w)', \A v \in Workers \ {w} : pc'[v] = pc[v] /\ why'[v] = why[v]
    PROVE  RowInv'
<1>1. ASSUME NEW j \in Items
      PROVE  RowAllowed(itemStatus'[j], itemResult'[j], itemError'[j])
  <2>1. CASE j = i
    BY <2>1 DEF RowInv, TypeOK, UpdateItem
  <2>2. CASE j # i
    BY <2>2 DEF RowInv, TypeOK, UpdateItem, ItemRowsConsistent
  <2>. QED
    BY <2>1, <2>2
<1>2. ItemRowsConsistent'
  BY <1>1 DEF ItemRowsConsistent, RowAllowed
<1>3. \A v \in Workers : ErrorInHand(v)'
  BY DEF RowInv, ErrorInHand
<1>4. ASSUME NEW j \in Items PROVE UpdateAccepted(j)'
  <2>1. CASE j = i
    BY <2>1 DEF RowFree, UpdateAccepted, txVars
  <2>2. CASE j # i
    <3>1. itemResult'[j] = itemResult[j] /\ txEvent'[j] = txEvent[j]
      BY <2>2 DEF RowInv, TypeOK, UpdateItem, txVars
    <3>. QED
      BY <3>1 DEF RowInv, UpdateAccepted, RowAllowed, ResultAfter, ErrorAfter
  <2>. QED
    BY <2>1, <2>2
<1>. QED
  BY <1>2, <1>3, <1>4 DEF RowInv

LEMMA StepRowInv ==
    ASSUME ConstantsOK, RowInv, [Next]_vars
    PROVE  RowInv'
<1>. TypeOK'
  BY StepType DEF RowInv
<1>1. ASSUME NEW w \in Workers, ClaimJobs(w) PROVE RowInv'
  <2>1. ErrorInHand(w)' /\ \A v \in Workers \ {w} : pc'[v] = pc[v] /\ why'[v] = why[v]
    BY <1>1 DEF RowInv, TypeOK, ErrorInHand, ClaimJobs
  <2>. QED
    BY <1>1, <2>1, WorkerRowStep DEF ClaimJobs
<1>2. ASSUME NEW w \in Workers, ReadItem(w) PROVE RowInv'
  <2>1. ErrorInHand(w)' /\ \A v \in Workers \ {w} : pc'[v] = pc[v] /\ why'[v] = why[v]
    BY <1>2 DEF RowInv, TypeOK, ErrorInHand, ReadItem
  <2>. QED
    BY <1>2, <2>1, WorkerRowStep DEF ReadItem
<1>3. ASSUME NEW w \in Workers, MarkItemProcessing(w) PROVE RowInv'
  <2>1. ErrorInHand(w)' /\ \A v \in Workers \ {w} : pc'[v] = pc[v] /\ why'[v] = why[v]
    BY <1>3 DEF RowInv, TypeOK, ErrorInHand, MarkItemProcessing
  <2>2. "processing" \in ItemStatus /\ RowAllowed("processing", FALSE, "none")
    BY DEF ItemStatus, EventStatus, RowAllowed
  <2>. QED
    BY <1>3, <2>1, <2>2, ItemRowStep DEF MarkItemProcessing
<1>4. ASSUME NEW w \in Workers, MarkRunProcessing(w) PROVE RowInv'
  <2>1. ErrorInHand(w)' /\ \A v \in Workers \ {w} : pc'[v] = pc[v] /\ why'[v] = why[v]
    BY <1>4 DEF RowInv, TypeOK, ErrorInHand, MarkRunProcessing
  <2>. QED
    BY <1>4, <2>1, WorkerRowStep DEF MarkRunProcessing
<1>5. ASSUME NEW w \in Workers, DispatchAccepted(w) PROVE RowInv'
  <2>1. ErrorInHand(w)' /\ \A v \in Workers \ {w} : pc'[v] = pc[v] /\ why'[v] = why[v]
    BY <1>5 DEF RowInv, TypeOK, ErrorInHand, DispatchAccepted
  <2>. QED
    BY <1>5, <2>1, WorkerRowStep DEF DispatchAccepted
<1>6. ASSUME NEW w \in Workers, DispatchRetriable(w) PROVE RowInv'
  <2>1. ErrorInHand(w)' /\ \A v \in Workers \ {w} : pc'[v] = pc[v] /\ why'[v] = why[v]
    BY <1>6 DEF RowInv, TypeOK, ErrorInHand, DispatchRetriable, Catch
  <2>. QED
    BY <1>6, <2>1, WorkerRowStep DEF DispatchRetriable
<1>7. ASSUME NEW w \in Workers, DispatchRejected(w) PROVE RowInv'
  <2>1. ErrorInHand(w)' /\ \A v \in Workers \ {w} : pc'[v] = pc[v] /\ why'[v] = why[v]
    BY <1>7 DEF RowInv, TypeOK, ErrorInHand, DispatchRejected, Catch
  <2>. QED
    BY <1>7, <2>1, WorkerRowStep DEF DispatchRejected
<1>8. ASSUME NEW w \in Workers, StepThrows(w) PROVE RowInv'
  <2>1. ErrorInHand(w)' /\ \A v \in Workers \ {w} : pc'[v] = pc[v] /\ why'[v] = why[v]
    BY <1>8 DEF RowInv, TypeOK, ErrorInHand, StepThrows, Catch
  <2>. QED
    BY <1>8, <2>1, WorkerRowStep DEF StepThrows
<1>9. ASSUME NEW w \in Workers, CompleteJob(w) PROVE RowInv'
  <2>1. ErrorInHand(w)' /\ \A v \in Workers \ {w} : pc'[v] = pc[v] /\ why'[v] = why[v]
    BY <1>9 DEF RowInv, TypeOK, ErrorInHand, CompleteJob, EndIteration
  <2>. QED
    BY <1>9, <2>1, WorkerRowStep DEF CompleteJob
<1>10. ASSUME NEW w \in Workers, RetryJob(w) PROVE RowInv'
  <2>1. ErrorInHand(w)' /\ \A v \in Workers \ {w} : pc'[v] = pc[v] /\ why'[v] = why[v]
    BY <1>10 DEF RowInv, TypeOK, ErrorInHand, RetryJob, EndIteration
  <2>. QED
    BY <1>10, <2>1, WorkerRowStep DEF RetryJob
<1>11. ASSUME NEW w \in Workers, FailJob(w) PROVE RowInv'
  <2>1. ErrorInHand(w)' /\ \A v \in Workers \ {w} : pc'[v] = pc[v] /\ why'[v] = why[v]
    BY <1>11 DEF RowInv, TypeOK, ErrorInHand, FailJob
  <2>. QED
    BY <1>11, <2>1, WorkerRowStep DEF FailJob
<1>12. ASSUME NEW w \in Workers, FailItem(w) PROVE RowInv'
  <2>1. ErrorInHand(w)' /\ \A v \in Workers \ {w} : pc'[v] = pc[v] /\ why'[v] = why[v]
    BY <1>12 DEF RowInv, TypeOK, ErrorInHand, FailItem
  <2>2. "failed" \in ItemStatus /\ RowAllowed("failed", FALSE, why[w])
    BY <1>12 DEF FailItem, RowInv, ErrorInHand, ItemStatus, EventStatus, Verdicts, RowAllowed
  <2>. QED
    BY <1>12, <2>1, <2>2, ItemRowStep DEF FailItem
<1>13. ASSUME NEW w \in Workers, ReadSiblings(w) PROVE RowInv'
  <2>1. ErrorInHand(w)' /\ \A v \in Workers \ {w} : pc'[v] = pc[v] /\ why'[v] = why[v]
    BY <1>13 DEF RowInv, TypeOK, ErrorInHand, ReadSiblings
  <2>. QED
    BY <1>13, <2>1, WorkerRowStep DEF ReadSiblings
<1>14. ASSUME NEW w \in Workers, WriteAggregate(w) PROVE RowInv'
  <2>1. ErrorInHand(w)' /\ \A v \in Workers \ {w} : pc'[v] = pc[v] /\ why'[v] = why[v]
    BY <1>14 DEF RowInv, TypeOK, ErrorInHand, WriteAggregate, EndIteration
  <2>. QED
    BY <1>14, <2>1, WorkerRowStep DEF WriteAggregate
<1>15. ASSUME NEW w \in Workers, ScanTimeouts(w) PROVE RowInv'
  <2>1. ErrorInHand(w)' /\ \A v \in Workers \ {w} : pc'[v] = pc[v] /\ why'[v] = why[v]
    BY <1>15 DEF RowInv, TypeOK, ErrorInHand, ScanTimeouts
  <2>. QED
    BY <1>15, <2>1, WorkerRowStep DEF ScanTimeouts
<1>16. ASSUME NEW w \in Workers, PickTimedOut(w) PROVE RowInv'
  <2>1. ErrorInHand(w)' /\ \A v \in Workers \ {w} : pc'[v] = pc[v] /\ why'[v] = why[v]
    BY <1>16 DEF RowInv, TypeOK, ErrorInHand, PickTimedOut
  <2>. QED
    BY <1>16, <2>1, WorkerRowStep DEF PickTimedOut
<1>17. ASSUME NEW w \in Workers, EndTick(w) PROVE RowInv'
  <2>1. ErrorInHand(w)' /\ \A v \in Workers \ {w} : pc'[v] = pc[v] /\ why'[v] = why[v]
    BY <1>17 DEF RowInv, TypeOK, ErrorInHand, EndTick, ResetWorker
  <2>. QED
    BY <1>17, <2>1, WorkerRowStep DEF EndTick
<1>18. ASSUME NEW w \in Workers, AbandonTick(w) PROVE RowInv'
  <2>1. ErrorInHand(w)' /\ \A v \in Workers \ {w} : pc'[v] = pc[v] /\ why'[v] = why[v]
    BY <1>18 DEF RowInv, TypeOK, ErrorInHand, AbandonTick, ResetWorker
  <2>. QED
    BY <1>18, <2>1, WorkerRowStep DEF AbandonTick
<1>19. ASSUME NEW i \in Items, NEW e \in EventStatus, BeginCallback(i, e) PROVE RowInv'
  <2>1. ItemRowsConsistent' /\ UNCHANGED <<itemResult, pc, why>>
    BY <1>19 DEF BeginCallback, RowInv, ItemRowsConsistent, itemVars, workerVars
  <2>2. ASSUME NEW j \in Items PROVE UpdateAccepted(j)'
    <3>1. CASE j = i
      <4>1. txEvent'[j] = e /\ RowAllowed(e, ResultAfter(i, e), ErrorAfter(e))
        BY <1>19, <3>1 DEF BeginCallback, RowInv, TypeOK
      <4>. QED
        BY <2>1, <3>1, <4>1 DEF UpdateAccepted, RowAllowed, ResultAfter, ErrorAfter
    <3>2. CASE j # i
      <4>1. txEvent'[j] = txEvent[j]
        BY <1>19, <3>2 DEF BeginCallback, RowInv, TypeOK
      <4>. QED
        BY <2>1, <4>1 DEF RowInv, UpdateAccepted, RowAllowed, ResultAfter, ErrorAfter
    <3>. QED
      BY <3>1, <3>2
  <2>. QED
    BY <2>1, <2>2 DEF RowInv, ErrorInHand
<1>20. ASSUME NEW i \in Items, CommitCallback(i) PROVE RowInv'
  <2>1. /\ txEvent[i] # "none" /\ UNCHANGED <<pc, why>>
        /\ txEvent' = [txEvent EXCEPT ![i] = "none"]
        /\ UpdateItem(i, txEvent[i], ResultAfter(i, txEvent[i]), ErrorAfter(txEvent[i]))
    BY <1>20 DEF CommitCallback, workerVars
  <2>2. RowAllowed(txEvent[i], ResultAfter(i, txEvent[i]), ErrorAfter(txEvent[i]))
    BY <2>1 DEF RowInv, UpdateAccepted
  <2>3. ASSUME NEW j \in Items
        PROVE  RowAllowed(itemStatus'[j], itemResult'[j], itemError'[j])
    <3>1. CASE j = i
      BY <2>1, <2>2, <3>1 DEF RowInv, TypeOK, UpdateItem
    <3>2. CASE j # i
      BY <2>1, <3>2 DEF RowInv, TypeOK, UpdateItem, ItemRowsConsistent
    <3>. QED
      BY <3>1, <3>2
  <2>4. ItemRowsConsistent'
    BY <2>3 DEF ItemRowsConsistent, RowAllowed
  <2>5. ASSUME NEW j \in Items PROVE UpdateAccepted(j)'
    <3>1. CASE j = i
      BY <2>1, <3>1 DEF RowInv, TypeOK, UpdateAccepted
    <3>2. CASE j # i
      <4>1. itemResult'[j] = itemResult[j] /\ txEvent'[j] = txEvent[j]
        BY <2>1, <3>2 DEF RowInv, TypeOK, UpdateItem
      <4>. QED
        BY <4>1 DEF RowInv, UpdateAccepted, RowAllowed, ResultAfter, ErrorAfter
    <3>. QED
      BY <3>1, <3>2
  <2>. QED
    BY <2>1, <2>4, <2>5 DEF RowInv, ErrorInHand
<1>21. ASSUME NEW i \in Items, AbortCallback(i) PROVE RowInv'
  <2>1. ItemRowsConsistent' /\ UNCHANGED <<itemResult, pc, why>>
    BY <1>21 DEF AbortCallback, RowInv, ItemRowsConsistent, itemVars, workerVars
  <2>2. ASSUME NEW j \in Items PROVE UpdateAccepted(j)'
    <3>1. txEvent'[j] \in {txEvent[j], "none"}
      BY <1>21 DEF AbortCallback, RowInv, TypeOK
    <3>. QED
      BY <2>1, <3>1 DEF RowInv, UpdateAccepted, RowAllowed, ResultAfter, ErrorAfter
  <2>. QED
    BY <2>1, <2>2 DEF RowInv, ErrorInHand
<1>22. ASSUME UNCHANGED <<itemStatus, itemResult, itemError, workerVars, txVars>> PROVE RowInv'
  <2>1. ItemRowsConsistent'
    BY <1>22 DEF RowInv, ItemRowsConsistent, RowAllowed
  <2>2. \A j \in Items : UpdateAccepted(j)'
    BY <1>22 DEF RowInv, UpdateAccepted, RowAllowed, ResultAfter, ErrorAfter, txVars
  <2>. QED
    BY <1>22, <2>1, <2>2 DEF RowInv, ErrorInHand, workerVars
<1>23. ASSUME NEW i \in Items,
             NozomiFinishes(i) \/ RetryFallsDue(i) \/ LeaseExpires(i) \/ ItemAges(i)
      PROVE  RowInv'
  BY <1>23, <1>22
     DEF NozomiFinishes, RetryFallsDue, LeaseExpires, ItemAges, itemVars
<1>24. ASSUME UNCHANGED vars PROVE RowInv'
  BY <1>24, <1>22 DEF vars, itemVars
<1>. QED
  BY <1>1, <1>2, <1>3, <1>4, <1>5, <1>6, <1>7, <1>8, <1>9, <1>10, <1>11,
     <1>12, <1>13, <1>14, <1>15, <1>16, <1>17, <1>18, <1>19, <1>20, <1>21,
     <1>23, <1>24
     DEF Next, TickStep

LEMMA RowInvHolds == ConstantsOK /\ Spec => []RowInv
<1>1. ConstantsOK /\ RowInv /\ [Next]_vars => RowInv'
  BY StepRowInv
<1>. QED
  BY <1>1, InitRowInv, ConstantsOK, PTL DEF Spec

(* No statement of a worker or of the endpoint is refused by the CHECK     *)
(* constraint of the items table.                                          *)
THEOREM RowsStayConsistent == ConstantsOK /\ Spec => []ItemRowsConsistent
<1>1. RowInv => ItemRowsConsistent
  BY DEF RowInv
<1>. QED
  BY <1>1, RowInvHolds, PTL

(* A callback that commits on a completed item leaves it completed.        *)
THEOREM CallbackKeepsCompleted == ConstantsOK /\ Spec => CallbackNeverUndoesCompleted
<1>1. ASSUME RowInv, [Next]_vars
      PROVE  [\A i \in Items : CommitCallback(i) /\ itemStatus[i] = "completed"
                => itemStatus'[i] = "completed"]_vars
  <2>. SUFFICES ASSUME NEW i \in Items, CommitCallback(i), itemStatus[i] = "completed"
                PROVE  itemStatus'[i] = "completed"
    OBVIOUS
  <2>1. itemResult[i] = TRUE
    BY <1>1 DEF RowInv, TypeOK, ItemRowsConsistent, RowAllowed
  <2>2. txEvent[i] \in EventStatus /\ itemStatus'[i] = txEvent[i]
    BY <1>1 DEF CommitCallback, UpdateItem, RowInv, TypeOK
  <2>3. RowAllowed(txEvent[i], ResultAfter(i, txEvent[i]), ErrorAfter(txEvent[i]))
    BY <1>1 DEF CommitCallback, RowInv, UpdateAccepted
  <2>4. ResultAfter(i, txEvent[i]) = TRUE
    BY <2>1 DEF ResultAfter
  <2>5. txEvent[i] = "completed"
    BY <2>3, <2>4 DEF RowAllowed
  <2>. QED
    BY <2>2, <2>5
<1>. QED
  BY <1>1, RowInvHolds, PTL DEF Spec, CallbackNeverUndoesCompleted
-----------------------------------------------------------------------------
(***************************************************************************)
(* What the workers hold.                                                  *)
(*                                                                         *)
(* A worker never loses track of the job in its hand, and what it          *)
(* remembers of the job's attempts is never ahead of the row.              *)
(***************************************************************************)
FailPC == {"failItem", "aggRead", "aggWrite"}

Exhausted == "DISPATCH_RETRY_EXHAUSTED"

InHand(w) ==
    /\ pc[w] \in JobPC \cup FailPC => cur[w] \in Items /\ cur[w] \notin batch[w]
    /\ pc[w] \in JobPC \cup {"idle", "next"} => why[w] # "EXECUTION_TIMEOUT"
    /\ pc[w] = "retryJob" => seen[w][cur[w]] < MaxAttempts
    /\ why[w] = Exhausted => pc[w] \in {"failJob"} \cup FailPC /\ jobAttempts[cur[w]] >= MaxAttempts
    /\ \A i \in Holding(w) : seen[w][i] <= jobAttempts[i]

HandInv == TypeOK /\ \A w \in Workers : InHand(w)

WorkerKept(v) ==
    /\ pc'[v] = pc[v] /\ batch'[v] = batch[v] /\ cur'[v] = cur[v]
    /\ seen'[v] = seen[v] /\ why'[v] = why[v]

OthersKept(w) == \A v \in Workers \ {w} : WorkerKept(v)

LEMMA HoldingInItems ==
    ASSUME HandInv, NEW w \in Workers
    PROVE  Holding(w) \subseteq Items
BY DEF HandInv, TypeOK, InHand, Holding

LEMMA KeptHolding ==
    ASSUME NEW w, WorkerKept(w)
    PROVE  Holding(w)' = Holding(w)
BY DEF WorkerKept, Holding, HandlesJobs

(* What a worker holds is not disturbed by a step in which the attempts    *)
(* only grow.                                                              *)
LEMMA KeptInHand ==
    ASSUME ConstantsOK, HandInv, TypeOK', NEW w \in Workers, WorkerKept(w),
           \A i \in Items : jobAttempts'[i] >= jobAttempts[i]
    PROVE  InHand(w)'
<1>1. Holding(w)' = Holding(w) /\ Holding(w) \subseteq Items
  BY KeptHolding, HoldingInItems
<1>2. ASSUME NEW i \in Holding(w)' PROVE seen'[w][i] <= jobAttempts'[i]
  <2>1. i \in Items /\ seen[w][i] <= jobAttempts[i] /\ seen'[w][i] = seen[w][i]
    BY <1>1 DEF HandInv, InHand, WorkerKept
  <2>2. seen[w][i] \in Nat /\ jobAttempts[i] \in Nat /\ jobAttempts'[i] \in Nat
    BY <2>1 DEF HandInv, TypeOK
  <2>. QED
    BY <2>1, <2>2
<1>3. ASSUME why'[w] = Exhausted
      PROVE  pc'[w] \in {"failJob"} \cup FailPC /\ jobAttempts'[cur'[w]] >= MaxAttempts
  <2>1. pc[w] \in {"failJob"} \cup FailPC /\ jobAttempts[cur[w]] >= MaxAttempts
    BY <1>3 DEF HandInv, InHand, WorkerKept
  <2>2. cur[w] \in Items
    BY <2>1 DEF HandInv, InHand, JobPC, FailPC
  <2>3. jobAttempts[cur[w]] \in Nat /\ jobAttempts'[cur[w]] \in Nat /\ MaxAttempts \in Nat
    BY <2>2 DEF HandInv, TypeOK, ConstantsOK
  <2>. QED
    BY <2>1, <2>2, <2>3 DEF WorkerKept
<1>. QED
  BY <1>1, <1>2, <1>3 DEF HandInv, InHand, WorkerKept

LEMMA HandStep ==
    ASSUME ConstantsOK, HandInv, TypeOK', NEW w \in Workers, OthersKept(w), InHand(w)',
           \A i \in Items : jobAttempts'[i] >= jobAttempts[i]
    PROVE  HandInv'
BY KeptInHand DEF HandInv, OthersKept

(* Attempts that do not change have not shrunk.                            *)
LEMMA SameAttempts ==
    ASSUME TypeOK, jobAttempts' = jobAttempts
    PROVE  \A i \in Items : jobAttempts'[i] >= jobAttempts[i]
BY DEF TypeOK

LEMMA InitHandInv == ConstantsOK /\ Init => HandInv
<1>. SUFFICES ASSUME ConstantsOK, Init PROVE HandInv
  OBVIOUS
<1>1. TypeOK
  BY InitType
<1>2. ASSUME NEW w \in Workers PROVE InHand(w)
  BY DEF Init, InHand, Holding, HandlesJobs, JobPC, FailPC, Exhausted
<1>. QED
  BY <1>1, <1>2 DEF HandInv

(* The catch block keeps the job in hand: it is retried while attempts are *)
(* left, and given up for good only when none is.                          *)
LEMMA CaughtInHand ==
    ASSUME ConstantsOK, HandInv, NEW w \in Workers, jobAttempts' = jobAttempts,
           batch'[w] = batch[w], cur'[w] = cur[w], seen'[w] = seen[w],
           pc[w] \in JobPC, pc'[w] \in {"failJob", "retryJob"},
           why'[w] \in {"none", "DISPATCH_REJECTED", Exhausted},
           pc'[w] = "retryJob" => ~(seen[w][cur[w]] >= MaxAttempts),
           why'[w] = Exhausted => seen[w][cur[w]] >= MaxAttempts /\ pc'[w] = "failJob"
    PROVE  InHand(w)'
<1>1. cur[w] \in Items /\ cur[w] \notin batch[w]
  BY DEF HandInv, InHand
<1>2. seen[w][cur[w]] \in Nat /\ jobAttempts[cur[w]] \in Nat /\ MaxAttempts \in Nat
  BY <1>1 DEF HandInv, TypeOK, ConstantsOK
<1>3. why[w] # "EXECUTION_TIMEOUT" /\ why'[w] # "EXECUTION_TIMEOUT"
  BY DEF HandInv, InHand, Exhausted
<1>4. Holding(w)' = Holding(w) /\ cur[w] \in Holding(w)
  BY <1>3 DEF Holding, HandlesJobs, JobPC
<1>5. seen[w][cur[w]] <= jobAttempts[cur[w]]
  BY <1>4 DEF HandInv, InHand
<1>6. \A i \in Holding(w)' : seen'[w][i] <= jobAttempts'[i]
  BY <1>4 DEF HandInv, InHand
<1>7. pc'[w] = "retryJob" => seen'[w][cur'[w]] < MaxAttempts
  BY <1>2
<1>8. why'[w] = Exhausted => pc'[w] = "failJob" /\ jobAttempts'[cur'[w]] >= MaxAttempts
  BY <1>2, <1>5
<1>. QED
  BY <1>1, <1>3, <1>6, <1>7, <1>8 DEF InHand, JobPC, FailPC

(* Failing the job and then the item, or an item that timed out.           *)
LEMMA MovedInHand ==
    ASSUME HandInv, NEW w \in Workers, jobAttempts' = jobAttempts,
           batch'[w] = batch[w], cur'[w] = cur[w], seen'[w] = seen[w], why'[w] = why[w],
           pc[w] \in {"failJob", "failItem", "aggRead"}, pc'[w] \in FailPC
    PROVE  InHand(w)'
<1>1. Holding(w)' \subseteq Holding(w)
  BY DEF Holding, HandlesJobs, JobPC, FailPC
<1>2. \A i \in Holding(w)' : seen'[w][i] <= jobAttempts'[i]
  BY <1>1 DEF HandInv, InHand
<1>3. pc[w] \in JobPC \cup FailPC
  BY DEF JobPC, FailPC
<1>. QED
  BY <1>2, <1>3 DEF HandInv, InHand, JobPC, FailPC

(* The iteration ends.                                                     *)
LEMMA EndedInHand ==
    ASSUME HandInv, NEW w \in Workers, jobAttempts' = jobAttempts,
           batch'[w] = batch[w], cur'[w] = NoItem, why'[w] = "none",
           seen'[w] = [seen[w] EXCEPT ![cur[w]] = 0],
           pc[w] \in JobPC \cup FailPC,
           pc'[w] = IF why[w] = "EXECUTION_TIMEOUT" THEN "expire" ELSE "next"
    PROVE  InHand(w)'
<1>1. Holding(w)' \subseteq Holding(w) \ {cur[w]}
  BY DEF HandInv, InHand, Holding, HandlesJobs, JobPC, FailPC
<1>2. seen[w] \in [Items -> Nat] /\ Holding(w) \subseteq Items
  BY HoldingInItems DEF HandInv, TypeOK
<1>3. \A i \in Holding(w)' : seen'[w][i] = seen[w][i]
  BY <1>1, <1>2
<1>4. \A i \in Holding(w)' : seen'[w][i] <= jobAttempts'[i]
  BY <1>1, <1>3 DEF HandInv, InHand
<1>. QED
  BY <1>4 DEF InHand, JobPC, FailPC, Exhausted

LEMMA StepHandInv ==
    ASSUME ConstantsOK, HandInv, [Next]_vars
    PROVE  HandInv'
<1>. TypeOK'
  BY StepType DEF HandInv
<1>1. ASSUME NEW w \in Workers, ClaimJobs(w) PROVE HandInv'
  <2>1. PICK S \in ClaimSets :
            /\ batch' = [batch EXCEPT ![w] = S]
            /\ jobAttempts' = [i \in Items |-> IF i \in S THEN jobAttempts[i] + 1
                                                          ELSE jobAttempts[i]]
            /\ seen' = [seen EXCEPT ![w] = [i \in Items |-> IF i \in S
                                                           THEN jobAttempts[i] + 1 ELSE 0]]
    BY <1>1 DEF ClaimJobs
  <2>2. S \subseteq Items
    BY DEF ClaimSets
  <2>3. \A i \in Items : jobAttempts'[i] >= jobAttempts[i]
    BY <2>1 DEF HandInv, TypeOK
  <2>4. OthersKept(w)
    BY <1>1, <2>1 DEF ClaimJobs, HandInv, TypeOK, OthersKept, WorkerKept
  <2>5. pc'[w] = "next" /\ batch'[w] = S /\ why'[w] = why[w] /\ pc[w] = "idle"
    BY <1>1, <2>1 DEF ClaimJobs, HandInv, TypeOK
  <2>6. ASSUME NEW i \in S PROVE seen'[w][i] <= jobAttempts'[i]
    <3>1. i \in Items /\ jobAttempts[i] \in Nat
      BY <2>2 DEF HandInv, TypeOK
    <3>2. seen'[w][i] = jobAttempts[i] + 1 /\ jobAttempts'[i] = jobAttempts[i] + 1
      BY <2>1, <3>1 DEF HandInv, TypeOK
    <3>. QED
      BY <3>1, <3>2
  <2>7. why[w] # "EXECUTION_TIMEOUT" /\ why[w] # Exhausted
    BY <2>5 DEF HandInv, InHand, FailPC
  <2>8. InHand(w)'
    BY <2>5, <2>6, <2>7 DEF InHand, Holding, HandlesJobs, JobPC, FailPC
  <2>. QED
    BY <2>3, <2>4, <2>8, HandStep
<1>2. ASSUME NEW w \in Workers, ReadItem(w) PROVE HandInv'
  <2>1. OthersKept(w) /\ UNCHANGED jobAttempts
    BY <1>2 DEF ReadItem, HandInv, TypeOK, OthersKept, WorkerKept, jobVars
  <2>2. PICK i \in batch[w] :
            /\ batch' = [batch EXCEPT ![w] = @ \ {i}]
            /\ cur' = [cur EXCEPT ![w] = i]
            /\ pc' = [pc EXCEPT ![w] = IF Settled(i) THEN "skip" ELSE "mark"]
    BY <1>2 DEF ReadItem
  <2>3. /\ batch'[w] = batch[w] \ {i} /\ cur'[w] = i /\ pc'[w] \in {"skip", "mark"}
        /\ seen'[w] = seen[w] /\ why'[w] = why[w] /\ pc[w] = "next"
    BY <1>2, <2>2 DEF ReadItem, HandInv, TypeOK
  <2>4. i \in Items /\ why[w] # "EXECUTION_TIMEOUT" /\ why[w] # Exhausted
    BY <2>3 DEF HandInv, TypeOK, InHand, FailPC
  <2>5. Holding(w)' = Holding(w)
    BY <2>3, <2>4 DEF Holding, HandlesJobs, JobPC
  <2>6. InHand(w)'
    BY <2>1, <2>3, <2>4, <2>5 DEF HandInv, InHand, JobPC, FailPC
  <2>. QED
    BY <2>1, <2>6, HandStep, SameAttempts DEF HandInv
<1>3. ASSUME NEW w \in Workers, MarkItemProcessing(w) PROVE HandInv'
  <2>1. OthersKept(w) /\ UNCHANGED jobAttempts
    BY <1>3 DEF MarkItemProcessing, HandInv, TypeOK, OthersKept, WorkerKept, jobVars
  <2>2. InHand(w)'
    BY <1>3 DEF MarkItemProcessing, HandInv, TypeOK, InHand, Holding, HandlesJobs, JobPC, FailPC, Exhausted, jobVars
  <2>. QED
    BY <2>1, <2>2, HandStep, SameAttempts DEF HandInv
<1>4. ASSUME NEW w \in Workers, MarkRunProcessing(w) PROVE HandInv'
  <2>1. OthersKept(w) /\ UNCHANGED jobAttempts
    BY <1>4 DEF MarkRunProcessing, HandInv, TypeOK, OthersKept, WorkerKept, jobVars
  <2>2. InHand(w)'
    BY <1>4 DEF MarkRunProcessing, HandInv, TypeOK, InHand, Holding, HandlesJobs, JobPC, FailPC, Exhausted, jobVars
  <2>. QED
    BY <2>1, <2>2, HandStep, SameAttempts DEF HandInv
<1>5. ASSUME NEW w \in Workers, DispatchAccepted(w) PROVE HandInv'
  <2>1. OthersKept(w) /\ UNCHANGED jobAttempts
    BY <1>5 DEF DispatchAccepted, HandInv, TypeOK, OthersKept, WorkerKept, jobVars
  <2>2. InHand(w)'
    BY <1>5 DEF DispatchAccepted, HandInv, TypeOK, InHand, Holding, HandlesJobs, JobPC, FailPC, Exhausted, jobVars
  <2>. QED
    BY <2>1, <2>2, HandStep, SameAttempts DEF HandInv
<1>6. ASSUME NEW w \in Workers, DispatchRetriable(w) PROVE HandInv'
  <2>1. OthersKept(w) /\ UNCHANGED jobAttempts
    BY <1>6 DEF DispatchRetriable, HandInv, TypeOK, OthersKept, WorkerKept, jobVars, Catch, GivesUp
  <2>2. /\ batch'[w] = batch[w] /\ cur'[w] = cur[w] /\ seen'[w] = seen[w]
        /\ pc[w] \in JobPC /\ pc'[w] \in {"failJob", "retryJob"}
        /\ why'[w] \in {"none", "DISPATCH_REJECTED", Exhausted}
        /\ pc'[w] = "retryJob" => ~(seen[w][cur[w]] >= MaxAttempts)
        /\ why'[w] = Exhausted => seen[w][cur[w]] >= MaxAttempts /\ pc'[w] = "failJob"
    BY <1>6 DEF DispatchRetriable, HandInv, TypeOK, JobPC, Exhausted, Catch, GivesUp
  <2>3. InHand(w)'
    BY <2>1, <2>2, CaughtInHand
  <2>. QED
    BY <2>1, <2>3, HandStep, SameAttempts DEF HandInv
<1>7. ASSUME NEW w \in Workers, DispatchRejected(w) PROVE HandInv'
  <2>1. OthersKept(w) /\ UNCHANGED jobAttempts
    BY <1>7 DEF DispatchRejected, HandInv, TypeOK, OthersKept, WorkerKept, jobVars, Catch, GivesUp
  <2>2. /\ batch'[w] = batch[w] /\ cur'[w] = cur[w] /\ seen'[w] = seen[w]
        /\ pc[w] \in JobPC /\ pc'[w] \in {"failJob", "retryJob"}
        /\ why'[w] \in {"none", "DISPATCH_REJECTED", Exhausted}
        /\ pc'[w] = "retryJob" => ~(seen[w][cur[w]] >= MaxAttempts)
        /\ why'[w] = Exhausted => seen[w][cur[w]] >= MaxAttempts /\ pc'[w] = "failJob"
    BY <1>7 DEF DispatchRejected, HandInv, TypeOK, JobPC, Exhausted, Catch, GivesUp
  <2>3. InHand(w)'
    BY <2>1, <2>2, CaughtInHand
  <2>. QED
    BY <2>1, <2>3, HandStep, SameAttempts DEF HandInv
<1>8. ASSUME NEW w \in Workers, StepThrows(w) PROVE HandInv'
  <2>1. OthersKept(w) /\ UNCHANGED jobAttempts
    BY <1>8 DEF StepThrows, HandInv, TypeOK, OthersKept, WorkerKept, jobVars, Catch, GivesUp
  <2>2. /\ batch'[w] = batch[w] /\ cur'[w] = cur[w] /\ seen'[w] = seen[w]
        /\ pc[w] \in JobPC /\ pc'[w] \in {"failJob", "retryJob"}
        /\ why'[w] \in {"none", "DISPATCH_REJECTED", Exhausted}
        /\ pc'[w] = "retryJob" => ~(seen[w][cur[w]] >= MaxAttempts)
        /\ why'[w] = Exhausted => seen[w][cur[w]] >= MaxAttempts /\ pc'[w] = "failJob"
    BY <1>8 DEF StepThrows, HandInv, TypeOK, JobPC, Exhausted, Catch, GivesUp
  <2>3. InHand(w)'
    BY <2>1, <2>2, CaughtInHand
  <2>. QED
    BY <2>1, <2>3, HandStep, SameAttempts DEF HandInv
<1>9. ASSUME NEW w \in Workers, CompleteJob(w) PROVE HandInv'
  <2>1. OthersKept(w) /\ UNCHANGED jobAttempts
    BY <1>9 DEF CompleteJob, HandInv, TypeOK, OthersKept, WorkerKept, SetJob, EndIteration
  <2>2. /\ batch'[w] = batch[w] /\ cur'[w] = NoItem /\ why'[w] = "none"
        /\ seen'[w] = [seen[w] EXCEPT ![cur[w]] = 0]
        /\ pc[w] \in JobPC /\ pc'[w] = "next" /\ why[w] # "EXECUTION_TIMEOUT"
    BY <1>9 DEF CompleteJob, HandInv, InHand, TypeOK, EndIteration, JobPC
  <2>3. InHand(w)'
    BY <2>1, <2>2, EndedInHand
  <2>. QED
    BY <2>1, <2>3, HandStep, SameAttempts DEF HandInv
<1>10. ASSUME NEW w \in Workers, RetryJob(w) PROVE HandInv'
  <2>1. OthersKept(w) /\ UNCHANGED jobAttempts
    BY <1>10 DEF RetryJob, HandInv, TypeOK, OthersKept, WorkerKept, SetJob, EndIteration
  <2>2. /\ batch'[w] = batch[w] /\ cur'[w] = NoItem /\ why'[w] = "none"
        /\ seen'[w] = [seen[w] EXCEPT ![cur[w]] = 0]
        /\ pc[w] \in JobPC /\ pc'[w] = "next" /\ why[w] # "EXECUTION_TIMEOUT"
    BY <1>10 DEF RetryJob, HandInv, InHand, TypeOK, EndIteration, JobPC
  <2>3. InHand(w)'
    BY <2>1, <2>2, EndedInHand
  <2>. QED
    BY <2>1, <2>3, HandStep, SameAttempts DEF HandInv
<1>11. ASSUME NEW w \in Workers, FailJob(w) PROVE HandInv'
  <2>1. OthersKept(w) /\ UNCHANGED jobAttempts
    BY <1>11 DEF FailJob, HandInv, TypeOK, OthersKept, WorkerKept, SetJob
  <2>2. /\ batch'[w] = batch[w] /\ cur'[w] = cur[w] /\ seen'[w] = seen[w] /\ why'[w] = why[w]
        /\ pc[w] = "failJob" /\ pc'[w] = "failItem"
    BY <1>11 DEF FailJob, HandInv, TypeOK
  <2>3. InHand(w)'
    BY <2>1, <2>2, MovedInHand DEF FailPC
  <2>. QED
    BY <2>1, <2>3, HandStep, SameAttempts DEF HandInv
<1>12. ASSUME NEW w \in Workers, FailItem(w) PROVE HandInv'
  <2>1. OthersKept(w) /\ UNCHANGED jobAttempts
    BY <1>12 DEF FailItem, HandInv, TypeOK, OthersKept, WorkerKept, jobVars
  <2>2. /\ batch'[w] = batch[w] /\ cur'[w] = cur[w] /\ seen'[w] = seen[w] /\ why'[w] = why[w]
        /\ pc[w] = "failItem" /\ pc'[w] = "aggRead"
    BY <1>12 DEF FailItem, HandInv, TypeOK
  <2>3. InHand(w)'
    BY <2>1, <2>2, MovedInHand DEF FailPC
  <2>. QED
    BY <2>1, <2>3, HandStep, SameAttempts DEF HandInv
<1>13. ASSUME NEW w \in Workers, ReadSiblings(w) PROVE HandInv'
  <2>1. OthersKept(w) /\ UNCHANGED jobAttempts
    BY <1>13 DEF ReadSiblings, HandInv, TypeOK, OthersKept, WorkerKept, jobVars
  <2>2. /\ batch'[w] = batch[w] /\ cur'[w] = cur[w] /\ seen'[w] = seen[w] /\ why'[w] = why[w]
        /\ pc[w] = "aggRead" /\ pc'[w] = "aggWrite"
    BY <1>13 DEF ReadSiblings, HandInv, TypeOK
  <2>3. InHand(w)'
    BY <2>1, <2>2, MovedInHand DEF FailPC
  <2>. QED
    BY <2>1, <2>3, HandStep, SameAttempts DEF HandInv
<1>14. ASSUME NEW w \in Workers, WriteAggregate(w) PROVE HandInv'
  <2>1. OthersKept(w) /\ UNCHANGED jobAttempts
    BY <1>14 DEF WriteAggregate, HandInv, TypeOK, OthersKept, WorkerKept, jobVars, EndIteration
  <2>2. /\ batch'[w] = batch[w] /\ cur'[w] = NoItem /\ why'[w] = "none"
        /\ seen'[w] = [seen[w] EXCEPT ![cur[w]] = 0]
        /\ pc[w] \in FailPC
        /\ pc'[w] = IF why[w] = "EXECUTION_TIMEOUT" THEN "expire" ELSE "next"
    BY <1>14 DEF WriteAggregate, HandInv, TypeOK, EndIteration, JobPC, FailPC
  <2>3. InHand(w)'
    BY <2>1, <2>2, EndedInHand
  <2>. QED
    BY <2>1, <2>3, HandStep, SameAttempts DEF HandInv
<1>15. ASSUME NEW w \in Workers, ScanTimeouts(w) PROVE HandInv'
  <2>1. OthersKept(w) /\ UNCHANGED jobAttempts
    BY <1>15 DEF ScanTimeouts, HandInv, TypeOK, OthersKept, WorkerKept, jobVars
  <2>2. InHand(w)'
    BY <1>15 DEF ScanTimeouts, HandInv, TypeOK, InHand, Holding, HandlesJobs, JobPC, FailPC, Exhausted, jobVars
  <2>. QED
    BY <2>1, <2>2, HandStep, SameAttempts DEF HandInv
<1>16. ASSUME NEW w \in Workers, PickTimedOut(w) PROVE HandInv'
  <2>1. OthersKept(w) /\ UNCHANGED jobAttempts
    BY <1>16 DEF PickTimedOut, HandInv, TypeOK, OthersKept, WorkerKept, jobVars
  <2>2. InHand(w)'
    BY <1>16 DEF PickTimedOut, HandInv, TypeOK, InHand, Holding, HandlesJobs, JobPC, FailPC, Exhausted, jobVars
  <2>. QED
    BY <2>1, <2>2, HandStep, SameAttempts DEF HandInv
<1>17. ASSUME NEW w \in Workers, EndTick(w) PROVE HandInv'
  <2>1. OthersKept(w) /\ UNCHANGED jobAttempts
    BY <1>17 DEF EndTick, HandInv, TypeOK, OthersKept, WorkerKept, jobVars, ResetWorker
  <2>2. InHand(w)'
    BY <1>17 DEF EndTick, HandInv, TypeOK, InHand, Holding, HandlesJobs, JobPC, FailPC, Exhausted, jobVars, ResetWorker
  <2>. QED
    BY <2>1, <2>2, HandStep, SameAttempts DEF HandInv
<1>18. ASSUME NEW w \in Workers, AbandonTick(w) PROVE HandInv'
  <2>1. OthersKept(w) /\ UNCHANGED jobAttempts
    BY <1>18 DEF AbandonTick, HandInv, TypeOK, OthersKept, WorkerKept, jobVars, ResetWorker
  <2>2. InHand(w)'
    BY <1>18 DEF AbandonTick, HandInv, TypeOK, InHand, Holding, HandlesJobs, JobPC, FailPC, Exhausted, jobVars, ResetWorker
  <2>. QED
    BY <2>1, <2>2, HandStep, SameAttempts DEF HandInv
<1>19. ASSUME UNCHANGED <<workerVars, jobAttempts>> PROVE HandInv'
  <2>1. ASSUME NEW w \in Workers PROVE InHand(w)'
    BY <1>19, KeptInHand, SameAttempts DEF HandInv, WorkerKept, workerVars
  <2>. QED
    BY <2>1 DEF HandInv
<1>20. ASSUME NEW i \in Items, NEW e \in EventStatus, BeginCallback(i, e) PROVE HandInv'
  BY <1>20, <1>19 DEF BeginCallback, jobVars
<1>21. ASSUME NEW i \in Items,
             CommitCallback(i) \/ AbortCallback(i) \/ NozomiFinishes(i)
             \/ RetryFallsDue(i) \/ LeaseExpires(i) \/ ItemAges(i)
      PROVE  HandInv'
  BY <1>21, <1>19 DEF CommitCallback, AbortCallback, NozomiFinishes, RetryFallsDue, LeaseExpires,
     ItemAges, jobVars
<1>22. ASSUME UNCHANGED vars PROVE HandInv'
  BY <1>22, <1>19 DEF vars, jobVars
<1>. QED
  BY <1>1, <1>2, <1>3, <1>4, <1>5, <1>6, <1>7, <1>8, <1>9, <1>10, <1>11, <1>12, <1>13,
     <1>14, <1>15, <1>16, <1>17, <1>18, <1>20, <1>21, <1>22
     DEF Next, TickStep

(* A step of a worker's tick moves no other worker.                        *)
LEMMA OnlyOwn ==
    ASSUME HandInv, NEW w \in Workers, TickStep(w) \/ AbandonTick(w)
    PROVE  OthersKept(w)
<1>. USE DEF OthersKept, WorkerKept, HandInv, TypeOK
<1>1. CASE ClaimJobs(w)
  BY <1>1 DEF ClaimJobs
<1>2. CASE ReadItem(w)
  BY <1>2 DEF ReadItem
<1>3. CASE MarkItemProcessing(w)
  BY <1>3 DEF MarkItemProcessing
<1>4. CASE MarkRunProcessing(w)
  BY <1>4 DEF MarkRunProcessing
<1>5. CASE DispatchAccepted(w)
  BY <1>5 DEF DispatchAccepted
<1>6. CASE DispatchRetriable(w)
  BY <1>6 DEF DispatchRetriable, Catch
<1>7. CASE DispatchRejected(w)
  BY <1>7 DEF DispatchRejected, Catch
<1>8. CASE StepThrows(w)
  BY <1>8 DEF StepThrows, Catch
<1>9. CASE CompleteJob(w)
  BY <1>9 DEF CompleteJob, EndIteration
<1>10. CASE RetryJob(w)
  BY <1>10 DEF RetryJob, EndIteration
<1>11. CASE FailJob(w)
  BY <1>11 DEF FailJob
<1>12. CASE FailItem(w)
  BY <1>12 DEF FailItem
<1>13. CASE ReadSiblings(w)
  BY <1>13 DEF ReadSiblings
<1>14. CASE WriteAggregate(w)
  BY <1>14 DEF WriteAggregate, EndIteration
<1>15. CASE ScanTimeouts(w)
  BY <1>15 DEF ScanTimeouts
<1>16. CASE PickTimedOut(w)
  BY <1>16 DEF PickTimedOut
<1>17. CASE EndTick(w)
  BY <1>17 DEF EndTick, ResetWorker
<1>18. CASE AbandonTick(w)
  BY <1>18 DEF AbandonTick, ResetWorker
<1>. QED
  BY <1>1, <1>2, <1>3, <1>4, <1>5, <1>6, <1>7, <1>8, <1>9,
     <1>10, <1>11, <1>12, <1>13, <1>14, <1>15, <1>16, <1>17, <1>18 DEF TickStep

(* What disposes of the job in hand lets go of it.                         *)
LEMMA DisposedLetGo ==
    ASSUME HandInv, NEW w \in Workers, CompleteJob(w) \/ RetryJob(w) \/ FailJob(w)
    PROVE  Holding(w)' \subseteq Holding(w) \ {cur[w]}
<1>1. CASE CompleteJob(w)
  <2>1. /\ batch'[w] = batch[w] /\ pc[w] \in JobPC /\ pc'[w] = "next"
        /\ cur[w] \notin batch[w] /\ why[w] # "EXECUTION_TIMEOUT"
    <3>1. pc[w] \in {"skip", "complete"} /\ pc'[w] = "next" /\ batch'[w] = batch[w]
      BY <1>1 DEF CompleteJob, HandInv, TypeOK
    <3>. QED
      BY <3>1 DEF HandInv, InHand, JobPC
  <2>. QED
    BY <1>1, <2>1 DEF Holding, HandlesJobs, JobPC
<1>2. CASE RetryJob(w)
  <2>1. /\ batch'[w] = batch[w] /\ pc[w] \in JobPC /\ pc'[w] = "next"
        /\ cur[w] \notin batch[w] /\ why[w] # "EXECUTION_TIMEOUT"
    BY <1>2 DEF RetryJob, HandInv, TypeOK, InHand, JobPC, FailPC
  <2>. QED
    BY <1>2, <2>1 DEF Holding, HandlesJobs, JobPC
<1>3. CASE FailJob(w)
  <2>1. /\ batch'[w] = batch[w] /\ pc[w] \in JobPC /\ pc'[w] = "failItem"
        /\ cur[w] \notin batch[w] /\ why[w] # "EXECUTION_TIMEOUT"
    BY <1>3 DEF FailJob, HandInv, TypeOK, InHand, JobPC, FailPC
  <2>. QED
    BY <1>3, <2>1 DEF Holding, HandlesJobs, JobPC
<1>. QED
  BY <1>1, <1>2, <1>3

(* Only a claim gives a worker jobs.                                       *)
LEMMA OnlyClaimsAdd ==
    ASSUME HandInv, NEW w \in Workers, TickStep(w) \/ AbandonTick(w), ~ClaimJobs(w)
    PROVE  Holding(w)' \subseteq Holding(w)
<1>1. CASE ReadItem(w)
  <2>1. PICK i \in batch[w] :
            /\ batch' = [batch EXCEPT ![w] = @ \ {i}]
            /\ cur' = [cur EXCEPT ![w] = i]
            /\ pc' = [pc EXCEPT ![w] = IF Settled(i) THEN "skip" ELSE "mark"]
    BY <1>1 DEF ReadItem
  <2>2. /\ batch'[w] = batch[w] \ {i} /\ cur'[w] = i /\ pc'[w] \in {"skip", "mark"}
        /\ why'[w] = why[w] /\ pc[w] = "next" /\ why[w] # "EXECUTION_TIMEOUT"
    BY <1>1, <2>1 DEF ReadItem, HandInv, InHand, TypeOK
  <2>. QED
    BY <2>2 DEF Holding, HandlesJobs, JobPC
<1>2. CASE MarkItemProcessing(w)
  <2>1. /\ batch'[w] = batch[w] /\ cur'[w] = cur[w] /\ why'[w] = why[w]
        /\ pc[w] \in JobPC /\ pc'[w] \in JobPC \ {"retryJob", "failJob"}
    BY <1>2 DEF MarkItemProcessing, HandInv, TypeOK, JobPC
  <2>. QED
    BY <2>1 DEF Holding, HandlesJobs, JobPC
<1>3. CASE MarkRunProcessing(w)
  <2>1. /\ batch'[w] = batch[w] /\ cur'[w] = cur[w] /\ why'[w] = why[w]
        /\ pc[w] \in JobPC /\ pc'[w] \in JobPC \ {"retryJob", "failJob"}
    BY <1>3 DEF MarkRunProcessing, HandInv, TypeOK, JobPC
  <2>. QED
    BY <2>1 DEF Holding, HandlesJobs, JobPC
<1>4. CASE DispatchAccepted(w)
  <2>1. /\ batch'[w] = batch[w] /\ cur'[w] = cur[w] /\ why'[w] = why[w]
        /\ pc[w] \in JobPC /\ pc'[w] \in JobPC \ {"retryJob", "failJob"}
    BY <1>4 DEF DispatchAccepted, HandInv, TypeOK, JobPC
  <2>. QED
    BY <2>1 DEF Holding, HandlesJobs, JobPC
<1>5. CASE DispatchRetriable(w)
  <2>1. /\ batch'[w] = batch[w] /\ cur'[w] = cur[w]
        /\ pc[w] \in JobPC /\ pc'[w] \in {"retryJob", "failJob"} /\ why[w] # "EXECUTION_TIMEOUT"
    BY <1>5 DEF DispatchRetriable, HandInv, TypeOK, InHand, Catch, JobPC
  <2>. QED
    BY <2>1 DEF Holding, HandlesJobs, JobPC
<1>6. CASE DispatchRejected(w)
  <2>1. /\ batch'[w] = batch[w] /\ cur'[w] = cur[w]
        /\ pc[w] \in JobPC /\ pc'[w] \in {"retryJob", "failJob"} /\ why[w] # "EXECUTION_TIMEOUT"
    BY <1>6 DEF DispatchRejected, HandInv, TypeOK, InHand, Catch, JobPC
  <2>. QED
    BY <2>1 DEF Holding, HandlesJobs, JobPC
<1>7. CASE StepThrows(w)
  <2>1. /\ batch'[w] = batch[w] /\ cur'[w] = cur[w]
        /\ pc[w] \in JobPC /\ pc'[w] \in {"retryJob", "failJob"} /\ why[w] # "EXECUTION_TIMEOUT"
    BY <1>7 DEF StepThrows, HandInv, TypeOK, InHand, Catch, JobPC
  <2>. QED
    BY <2>1 DEF Holding, HandlesJobs, JobPC
<1>8. CASE CompleteJob(w) \/ RetryJob(w) \/ FailJob(w)
  BY <1>8, DisposedLetGo
<1>9. CASE FailItem(w)
  <2>1. /\ batch'[w] = batch[w] /\ why'[w] = why[w]
        /\ pc[w] \in FailPC /\ pc'[w] \in FailPC
    BY <1>9 DEF FailItem, HandInv, TypeOK, FailPC
  <2>. QED
    BY <2>1 DEF Holding, HandlesJobs, JobPC, FailPC
<1>10. CASE ReadSiblings(w)
  <2>1. /\ batch'[w] = batch[w] /\ why'[w] = why[w]
        /\ pc[w] \in FailPC /\ pc'[w] \in FailPC
    BY <1>10 DEF ReadSiblings, HandInv, TypeOK, FailPC
  <2>. QED
    BY <2>1 DEF Holding, HandlesJobs, JobPC, FailPC
<1>11. CASE WriteAggregate(w)
  <2>1. /\ batch'[w] = batch[w] /\ pc[w] = "aggWrite"
        /\ pc'[w] = IF why[w] = "EXECUTION_TIMEOUT" THEN "expire" ELSE "next"
    BY <1>11 DEF WriteAggregate, HandInv, TypeOK
  <2>. QED
    BY <2>1 DEF Holding, HandlesJobs, JobPC
<1>12. CASE ScanTimeouts(w)
  <2>1. pc[w] = "next" /\ pc'[w] = "expire"
    BY <1>12 DEF ScanTimeouts, HandInv, TypeOK
  <2>. QED
    BY <2>1 DEF Holding, HandlesJobs, JobPC
<1>13. CASE PickTimedOut(w)
  <2>1. pc[w] = "expire" /\ pc'[w] = "failItem" /\ why'[w] = "EXECUTION_TIMEOUT"
    BY <1>13 DEF PickTimedOut, HandInv, TypeOK
  <2>. QED
    BY <2>1 DEF Holding, HandlesJobs, JobPC
<1>14. CASE EndTick(w)
  <2>1. pc'[w] = "idle"
    BY <1>14 DEF EndTick, HandInv, TypeOK, ResetWorker
  <2>. QED
    BY <2>1 DEF Holding, HandlesJobs, JobPC
<1>15. CASE AbandonTick(w)
  <2>1. pc'[w] = "idle"
    BY <1>15 DEF AbandonTick, HandInv, TypeOK, ResetWorker
  <2>. QED
    BY <2>1 DEF Holding, HandlesJobs, JobPC
<1>. QED
  BY <1>1, <1>2, <1>3, <1>4, <1>5, <1>6, <1>7, <1>8, <1>9, <1>10, <1>11,
     <1>12, <1>13, <1>14, <1>15 DEF TickStep

LEMMA HandInvHolds == ConstantsOK /\ Spec => []HandInv
<1>1. ConstantsOK /\ HandInv /\ [Next]_vars => HandInv'
  BY StepHandInv
<1>. QED
  BY <1>1, InitHandInv, ConstantsOK, PTL DEF Spec
-----------------------------------------------------------------------------
(***************************************************************************)
(* Leases and attempts.                                                    *)
(*                                                                         *)
(* A lease token is never compared, so a worker whose lease ran out still  *)
(* writes the job.  What bounds the damage is a potential: the workers     *)
(* that hold a job, and the claim it is open to, together exceed one only  *)
(* by the leases that ran out; and once the attempts are used up, the      *)
(* claims still to come are paid for by leases that ran out as well.       *)
(***************************************************************************)
Holders(i) == {w \in Workers : i \in Holding(w)}

(* The holders that would put the job back after a failed dispatch.        *)
Fresh(i) == {w \in Holders(i) : seen[w][i] < MaxAttempts}

(* The job may be claimed, now or when its retry falls due.                *)
Open(i) == jobStatus[i] = "pending" \/ (jobStatus[i] = "processing" /\ jobLease[i] = "expired")

Claims(open) == IF open THEN 1 ELSE 0

(* holders, fresh: how many; attempts, lapsed: the job's attempts and the  *)
(* leases that ran out.                                                    *)
Paid(holders, fresh, open, attempts, lapsed) ==
    /\ holders + Claims(open) <= 1 + lapsed
    /\ attempts >= MaxAttempts => attempts + Claims(open) + fresh <= MaxAttempts + lapsed

ClaimOK(i) ==
    /\ IsFiniteSet(Holders(i))
    /\ Paid(Cardinality(Holders(i)), Cardinality(Fresh(i)), Open(i), jobAttempts[i], expiries)

ClaimInv == HandInv /\ \A i \in Items : ClaimOK(i)

LEMMA Counted ==
    ASSUME NEW i, IsFiniteSet(Holders(i))
    PROVE  /\ Cardinality(Holders(i)) \in Nat /\ Cardinality(Fresh(i)) \in Nat
           /\ IsFiniteSet(Fresh(i)) /\ Cardinality(Fresh(i)) <= Cardinality(Holders(i))
<1>1. Fresh(i) \in SUBSET Holders(i)
  BY DEF Fresh
<1>. QED
  BY <1>1, FS_Subset, FS_CardinalityType

(* Nobody new holds the job, and it is not opened.                         *)
LEMMA FewerHolders ==
    ASSUME ConstantsOK, ClaimInv, NEW i \in Items, Holders(i)' \subseteq Holders(i),
           Fresh(i)' \subseteq Fresh(i), Open(i)' => Open(i),
           jobAttempts'[i] = jobAttempts[i], expiries' = expiries
    PROVE  ClaimOK(i)'
<1>1. IsFiniteSet(Holders(i))
  BY DEF ClaimInv, ClaimOK
<1>2. IsFiniteSet(Holders(i)') /\ Cardinality(Holders(i)') <= Cardinality(Holders(i))
  BY <1>1, FS_Subset
<1>3. Cardinality(Fresh(i)') <= Cardinality(Fresh(i)) /\ IsFiniteSet(Fresh(i)')
  BY <1>1, Counted, FS_Subset
<1>4. /\ Cardinality(Holders(i)) \in Nat /\ Cardinality(Fresh(i)) \in Nat
      /\ Cardinality(Holders(i)') \in Nat /\ Cardinality(Fresh(i)') \in Nat
  BY <1>1, <1>2, <1>3, Counted, FS_CardinalityType
<1>5. Claims(Open(i)') <= Claims(Open(i)) /\ Claims(Open(i)') \in Nat /\ Claims(Open(i)) \in Nat
  BY DEF Claims
<1>6. jobAttempts[i] \in Nat /\ expiries \in Nat /\ MaxAttempts \in Nat
  BY DEF ClaimInv, HandInv, TypeOK, ConstantsOK
<1>7. Paid(Cardinality(Holders(i)), Cardinality(Fresh(i)), Open(i), jobAttempts[i], expiries)
  BY DEF ClaimInv, ClaimOK
<1>8. Paid(Cardinality(Holders(i)'), Cardinality(Fresh(i)'), Open(i)', jobAttempts[i], expiries)
  BY <1>2, <1>3, <1>4, <1>5, <1>6, <1>7 DEF Paid
<1>. QED
  BY <1>2, <1>8 DEF ClaimOK

(* A worker claims the job: the claim it was open to is used, and the      *)
(* worker will put it back only if attempts are left.                      *)
LEMMA OneHolderMore ==
    ASSUME ConstantsOK, ClaimInv, NEW i \in Items, NEW w \in Workers,
           Holders(i)' = Holders(i) \cup {w}, w \notin Holders(i),
           jobAttempts[i] + 1 >= MaxAttempts => Fresh(i)' = Fresh(i),
           Open(i), ~Open(i)', jobAttempts'[i] = jobAttempts[i] + 1, expiries' = expiries
    PROVE  ClaimOK(i)'
<1>1. IsFiniteSet(Holders(i))
  BY DEF ClaimInv, ClaimOK
<1>2. IsFiniteSet(Holders(i)') /\ Cardinality(Holders(i)') = Cardinality(Holders(i)) + 1
  BY <1>1, FS_AddElement
<1>3. /\ Cardinality(Holders(i)) \in Nat /\ Cardinality(Fresh(i)) \in Nat
      /\ Cardinality(Fresh(i)) <= Cardinality(Holders(i))
  BY <1>1, Counted
<1>4. Paid(Cardinality(Holders(i)), Cardinality(Fresh(i)), TRUE, jobAttempts[i], expiries)
  BY Zenon DEF ClaimInv, ClaimOK
<1>5. jobAttempts[i] \in Nat /\ expiries \in Nat /\ MaxAttempts \in Nat
  BY DEF ClaimInv, HandInv, TypeOK, ConstantsOK
<1>6. /\ Cardinality(Holders(i)) + 1 <= 1 + expiries
      /\ jobAttempts[i] >= MaxAttempts =>
           jobAttempts[i] + 1 + Cardinality(Fresh(i)) <= MaxAttempts + expiries
  BY <1>4 DEF Paid, Claims
<1>7. jobAttempts[i] + 1 >= MaxAttempts => Cardinality(Fresh(i)') = Cardinality(Fresh(i))
  OBVIOUS
<1>8. Paid(Cardinality(Holders(i)) + 1, Cardinality(Fresh(i)'), FALSE, jobAttempts[i] + 1, expiries)
  BY <1>3, <1>5, <1>6, <1>7 DEF Paid, Claims
<1>9. Paid(Cardinality(Holders(i)'), Cardinality(Fresh(i)'), FALSE, jobAttempts'[i], expiries')
  BY <1>2, <1>8
<1>10. Open(i)' = FALSE
  BY DEF Open
<1>. QED
  BY <1>2, <1>9, <1>10, Zenon DEF ClaimOK

(* A worker that had attempts left puts the job back.                      *)
LEMMA OneHolderLess ==
    ASSUME ConstantsOK, ClaimInv, NEW i \in Items, NEW w \in Fresh(i),
           Holders(i)' \subseteq Holders(i) \ {w}, Fresh(i)' \subseteq Fresh(i) \ {w},
           jobAttempts'[i] = jobAttempts[i], expiries' = expiries
    PROVE  ClaimOK(i)'
<1>1. IsFiniteSet(Holders(i)) /\ IsFiniteSet(Fresh(i)) /\ w \in Holders(i)
  BY Counted DEF ClaimInv, ClaimOK, Fresh
<1>. DEFINE H == Holders(i) \ {w}
            F == Fresh(i) \ {w}
<1>2. /\ IsFiniteSet(H) /\ Cardinality(H) = Cardinality(Holders(i)) - 1
      /\ IsFiniteSet(F) /\ Cardinality(F) = Cardinality(Fresh(i)) - 1
  BY <1>1, FS_RemoveElement
<1>3. /\ IsFiniteSet(Holders(i)') /\ Cardinality(Holders(i)') <= Cardinality(H)
      /\ IsFiniteSet(Fresh(i)') /\ Cardinality(Fresh(i)') <= Cardinality(F)
  BY <1>2, FS_Subset
<1>4. /\ Cardinality(Holders(i)) \in Nat /\ Cardinality(Fresh(i)) \in Nat
      /\ Cardinality(Holders(i)') \in Nat /\ Cardinality(Fresh(i)') \in Nat
  BY <1>1, <1>3, FS_CardinalityType
<1>5. Claims(Open(i)') \in {0, 1} /\ Claims(Open(i)) \in {0, 1}
  BY DEF Claims
<1>6. jobAttempts[i] \in Nat /\ expiries \in Nat /\ MaxAttempts \in Nat
  BY DEF ClaimInv, HandInv, TypeOK, ConstantsOK
<1>7. Paid(Cardinality(Holders(i)), Cardinality(Fresh(i)), Open(i), jobAttempts[i], expiries)
  BY DEF ClaimInv, ClaimOK
<1>8. /\ Cardinality(Holders(i)') <= Cardinality(Holders(i)) - 1
      /\ Cardinality(Fresh(i)') <= Cardinality(Fresh(i)) - 1
  BY <1>2, <1>3
<1>. HIDE DEF H, F
<1>9. Paid(Cardinality(Holders(i)'), Cardinality(Fresh(i)'), Open(i)', jobAttempts[i], expiries)
  BY <1>4, <1>5, <1>6, <1>7, <1>8 DEF Paid
<1>. QED
  BY <1>3, <1>9 DEF ClaimOK

(* A lease runs out: one claim more, and one more to pay for it.           *)
LEMMA OneLeaseLess ==
    ASSUME ConstantsOK, ClaimInv, NEW i \in Items, Holders(i)' = Holders(i),
           Fresh(i)' = Fresh(i), jobAttempts'[i] = jobAttempts[i], expiries' = expiries + 1
    PROVE  ClaimOK(i)'
<1>1. IsFiniteSet(Holders(i))
  BY DEF ClaimInv, ClaimOK
<1>2. Cardinality(Holders(i)) \in Nat /\ Cardinality(Fresh(i)) \in Nat
  BY <1>1, Counted
<1>3. Claims(Open(i)') \in {0, 1} /\ Claims(Open(i)) \in {0, 1}
  BY DEF Claims
<1>4. jobAttempts[i] \in Nat /\ expiries \in Nat /\ MaxAttempts \in Nat
  BY DEF ClaimInv, HandInv, TypeOK, ConstantsOK
<1>5. Paid(Cardinality(Holders(i)), Cardinality(Fresh(i)), Open(i), jobAttempts[i], expiries)
  BY DEF ClaimInv, ClaimOK
<1>6. Paid(Cardinality(Holders(i)), Cardinality(Fresh(i)), Open(i)', jobAttempts[i], expiries + 1)
  BY <1>2, <1>3, <1>4, <1>5 DEF Paid
<1>. QED
  BY <1>1, <1>6 DEF ClaimOK

(* Worker w keeps what it remembers of the jobs it goes on holding, and    *)
(* the other workers do nothing.                                           *)
LEMMA SomeLetGo ==
    ASSUME NEW w \in Workers, OthersKept(w), Holding(w)' \subseteq Holding(w),
           \A i \in Holding(w)' : seen'[w][i] = seen[w][i], NEW i
    PROVE  Holders(i)' \subseteq Holders(i) /\ Fresh(i)' \subseteq Fresh(i)
<1>1. ASSUME NEW v \in Workers, i \in Holding(v)'
      PROVE  i \in Holding(v) /\ seen'[v][i] = seen[v][i]
  <2>1. CASE v = w
    BY <1>1, <2>1
  <2>2. CASE v # w
    <3>1. WorkerKept(v)
      BY <2>2 DEF OthersKept
    <3>. QED
      BY <1>1, <3>1, KeptHolding DEF WorkerKept
  <2>. QED
    BY <2>1, <2>2
<1>. QED
  BY <1>1 DEF Holders, Fresh

LEMMA LetGoStep ==
    ASSUME ConstantsOK, ClaimInv, HandInv', NEW w \in Workers, OthersKept(w),
           Holding(w)' \subseteq Holding(w), \A i \in Holding(w)' : seen'[w][i] = seen[w][i],
           \A i \in Items : Open(i)' => Open(i), UNCHANGED <<jobAttempts, expiries>>
    PROVE  ClaimInv'
<1>1. ASSUME NEW i \in Items PROVE ClaimOK(i)'
  BY <1>1, SomeLetGo, FewerHolders
<1>. QED
  BY <1>1 DEF ClaimInv

LEMMA InitClaimInv == ConstantsOK /\ Init => ClaimInv
<1>. SUFFICES ASSUME ConstantsOK, Init PROVE ClaimInv
  OBVIOUS
<1>1. ASSUME NEW i \in Items PROVE ClaimOK(i)
  <2>1. Holders(i) = {} /\ Fresh(i) = {}
    BY DEF Init, Holders, Fresh, Holding, HandlesJobs, JobPC
  <2>2. IsFiniteSet(Holders(i)) /\ Cardinality(Holders(i)) = 0 /\ Cardinality(Fresh(i)) = 0
    BY <2>1, FS_EmptySet
  <2>3. Claims(Open(i)) \in {0, 1}
    BY DEF Claims
  <2>4. jobAttempts[i] = 0 /\ expiries = 0 /\ MaxAttempts \in Nat \ {0}
    BY DEF Init, ConstantsOK
  <2>. QED
    BY <2>2, <2>3, <2>4 DEF ClaimOK, Paid
<1>. QED
  BY <1>1, InitHandInv DEF ClaimInv

LEMMA ClaimStep ==
    ASSUME ConstantsOK, ClaimInv, HandInv', NEW w \in Workers, ClaimJobs(w)
    PROVE  ClaimInv'
<1>1. PICK S \in ClaimSets :
          /\ batch' = [batch EXCEPT ![w] = S]
          /\ jobStatus' = [i \in Items |-> IF i \in S THEN "processing" ELSE jobStatus[i]]
          /\ jobLease' = [i \in Items |-> IF i \in S THEN "held" ELSE jobLease[i]]
          /\ jobAttempts' = [i \in Items |-> IF i \in S THEN jobAttempts[i] + 1
                                                        ELSE jobAttempts[i]]
          /\ seen' = [seen EXCEPT ![w] = [i \in Items |-> IF i \in S
                                                         THEN jobAttempts[i] + 1 ELSE 0]]
  BY DEF ClaimJobs
<1>2. S \subseteq Items /\ \A i \in S : Claimable(i)
  BY DEF ClaimSets
<1>3. pc[w] = "idle" /\ pc'[w] = "next" /\ why'[w] = why[w] /\ expiries' = expiries
  BY DEF ClaimJobs, ClaimInv, HandInv, TypeOK, boundVars
<1>4. Holding(w) = {} /\ Holding(w)' = S
  BY <1>1, <1>3 DEF ClaimInv, HandInv, InHand, TypeOK, Holding, HandlesJobs, JobPC
<1>5. \A v \in Workers \ {w} : WorkerKept(v)
  BY <1>1 DEF ClaimJobs, ClaimInv, HandInv, TypeOK, WorkerKept
<1>6. \A v \in Workers \ {w} : Holding(v)' = Holding(v) /\ seen'[v] = seen[v]
  BY <1>5, KeptHolding DEF WorkerKept
<1>7. ASSUME NEW i \in Items PROVE ClaimOK(i)'
  <2>1. CASE i \in S
    <3>1. Holders(i)' = Holders(i) \cup {w} /\ w \notin Holders(i)
      BY <1>4, <1>6, <2>1 DEF Holders
    <3>2. Open(i) /\ ~Open(i)' /\ jobAttempts'[i] = jobAttempts[i] + 1
      BY <1>1, <1>2, <2>1 DEF Claimable, Open
    <3>3. seen'[w][i] = jobAttempts[i] + 1
      BY <1>1, <2>1 DEF ClaimInv, HandInv, TypeOK
    <3>4. jobAttempts[i] \in Nat /\ MaxAttempts \in Nat
      BY DEF ClaimInv, HandInv, TypeOK, ConstantsOK
    <3>5. ASSUME jobAttempts[i] + 1 >= MaxAttempts PROVE Fresh(i)' = Fresh(i)
      <4>1. ~(seen'[w][i] < MaxAttempts)
        BY <3>3, <3>4, <3>5
      <4>2. ASSUME NEW v \in Workers \ {w} PROVE v \in Fresh(i)' <=> v \in Fresh(i)
        BY <1>6 DEF Fresh, Holders
      <4>3. w \notin Fresh(i)' /\ w \notin Fresh(i)
        BY <3>1, <4>1 DEF Fresh
      <4>4. Fresh(i)' \subseteq Workers /\ Fresh(i) \subseteq Workers
        BY DEF Fresh, Holders
      <4>. QED
        BY <4>2, <4>3, <4>4
    <3>. QED
      BY <1>3, <3>1, <3>2, <3>5, OneHolderMore
  <2>2. CASE i \notin S
    <3>1. Holders(i)' = Holders(i) /\ w \notin Holders(i)
      BY <1>4, <1>6, <2>2 DEF Holders
    <3>2. ASSUME NEW v \in Fresh(i)' PROVE v \in Fresh(i)
      <4>1. v \in Workers \ {w}
        BY <3>1 DEF Fresh, Holders
      <4>. QED
        BY <1>6, <4>1 DEF Fresh, Holders
    <3>3. (Open(i)' => Open(i)) /\ jobAttempts'[i] = jobAttempts[i]
      BY <1>1, <2>2 DEF Open
    <3>. QED
      BY <1>3, <3>1, <3>2, <3>3, FewerHolders
  <2>. QED
    BY <2>1, <2>2
<1>. QED
  BY <1>7 DEF ClaimInv

(* The job in hand is put back by a worker that had attempts left.         *)
LEMMA RetryStep ==
    ASSUME ConstantsOK, ClaimInv, HandInv', NEW w \in Workers, RetryJob(w)
    PROVE  ClaimInv'
<1>1. /\ cur[w] \in Items /\ cur[w] \notin batch[w] /\ why[w] # "EXECUTION_TIMEOUT"
      /\ seen[w][cur[w]] < MaxAttempts
  BY DEF RetryJob, ClaimInv, HandInv, InHand, JobPC
<1>2. /\ pc[w] = "retryJob" /\ pc'[w] = "next" /\ batch'[w] = batch[w] /\ cur'[w] = NoItem
      /\ why'[w] = "none" /\ seen'[w] = [seen[w] EXCEPT ![cur[w]] = 0]
      /\ seen[w] \in [Items -> Nat] /\ UNCHANGED <<jobAttempts, expiries>>
  BY DEF RetryJob, SetJob, EndIteration, ClaimInv, HandInv, TypeOK, boundVars
<1>3. Holding(w) = batch[w] \cup {cur[w]} /\ Holding(w)' = batch[w]
  BY <1>1, <1>2 DEF Holding, HandlesJobs, JobPC
<1>4. \A i \in Holding(w)' : seen'[w][i] = seen[w][i]
  BY <1>1, <1>2, <1>3 DEF ClaimInv, HandInv, TypeOK
<1>5. OthersKept(w)
  BY DEF RetryJob, EndIteration, ClaimInv, HandInv, TypeOK, OthersKept, WorkerKept
<1>6. ASSUME NEW i \in Items PROVE ClaimOK(i)'
  <2>1. Holders(i)' \subseteq Holders(i) /\ Fresh(i)' \subseteq Fresh(i)
    BY <1>3, <1>4, <1>5, SomeLetGo
  <2>2. CASE i = cur[w]
    <3>1. w \in Fresh(i) /\ w \notin Holders(i)' /\ w \notin Fresh(i)'
      BY <1>1, <1>3, <2>2 DEF Fresh, Holders
    <3>. QED
      BY <1>2, <2>1, <3>1, OneHolderLess
  <2>3. CASE i # cur[w]
    <3>1. Open(i)' => Open(i)
      BY <2>3 DEF RetryJob, SetJob, Open, ClaimInv, HandInv, TypeOK
    <3>. QED
      BY <1>2, <2>1, <3>1, FewerHolders
  <2>. QED
    BY <2>2, <2>3
<1>. QED
  BY <1>6 DEF ClaimInv

LEMMA StepClaimInv ==
    ASSUME ConstantsOK, ClaimInv, [Next]_vars
    PROVE  ClaimInv'
<1>. HandInv'
  BY StepHandInv DEF ClaimInv
<1>1. ASSUME NEW w \in Workers, ClaimJobs(w) PROVE ClaimInv'
  BY <1>1, ClaimStep
<1>2. ASSUME NEW w \in Workers, RetryJob(w) PROVE ClaimInv'
  BY <1>2, RetryStep
<1>3. ASSUME NEW w \in Workers,
             \/ ReadItem(w) \/ MarkItemProcessing(w) \/ MarkRunProcessing(w)
             \/ DispatchAccepted(w) \/ DispatchRetriable(w) \/ DispatchRejected(w)
             \/ StepThrows(w) \/ FailItem(w) \/ ReadSiblings(w) \/ ScanTimeouts(w)
             \/ PickTimedOut(w)
      PROVE  ClaimInv'
  <2>1. UNCHANGED <<seen, jobStatus, jobLease, jobAttempts, expiries>> /\ ~ClaimJobs(w)
    BY <1>3 DEF ReadItem, MarkItemProcessing, MarkRunProcessing, DispatchAccepted,
       DispatchRetriable, DispatchRejected, StepThrows, FailItem, ReadSiblings, ScanTimeouts,
       PickTimedOut, ClaimJobs, jobVars, boundVars
  <2>2. OthersKept(w) /\ Holding(w)' \subseteq Holding(w)
    BY <1>3, <2>1, OnlyOwn, OnlyClaimsAdd DEF ClaimInv, TickStep
  <2>. QED
    BY <2>1, <2>2, LetGoStep DEF Open
<1>4. ASSUME NEW w \in Workers, CompleteJob(w) \/ WriteAggregate(w) PROVE ClaimInv'
  <2>1. OthersKept(w) /\ Holding(w) \subseteq Items
    BY <1>4, OnlyOwn, HoldingInItems DEF ClaimInv, TickStep
  <2>2. Holding(w)' \subseteq Holding(w) \ {cur[w]}
    <3>1. CASE CompleteJob(w)
      BY <3>1, DisposedLetGo DEF ClaimInv
    <3>2. CASE WriteAggregate(w)
      <4>1. Holding(w)' \subseteq Holding(w)
        <5>1. ~ClaimJobs(w)
          BY <3>2 DEF WriteAggregate, ClaimJobs
        <5>. QED
          BY <3>2, <5>1, OnlyClaimsAdd DEF ClaimInv, TickStep
      <4>2. cur[w] \notin Holding(w)
        BY <3>2 DEF WriteAggregate, ClaimInv, HandInv, InHand, Holding, JobPC, FailPC
      <4>. QED
        BY <4>1, <4>2
    <3>. QED
      BY <1>4, <3>1, <3>2
  <2>3. seen'[w] = [seen[w] EXCEPT ![cur[w]] = 0] /\ seen[w] \in [Items -> Nat]
    BY <1>4 DEF CompleteJob, WriteAggregate, EndIteration, ClaimInv, HandInv, TypeOK
  <2>4. \A i \in Holding(w)' : seen'[w][i] = seen[w][i]
    BY <2>1, <2>2, <2>3
  <2>5. (\A i \in Items : Open(i)' => Open(i)) /\ UNCHANGED <<jobAttempts, expiries>>
    BY <1>4 DEF CompleteJob, WriteAggregate, SetJob, Open, ClaimInv, HandInv, TypeOK,
       jobVars, boundVars
  <2>. QED
    BY <2>1, <2>2, <2>4, <2>5, LetGoStep
<1>5. ASSUME NEW w \in Workers, FailJob(w) PROVE ClaimInv'
  <2>1. OthersKept(w) /\ Holding(w)' \subseteq Holding(w)
    BY <1>5, OnlyOwn, DisposedLetGo DEF ClaimInv, TickStep
  <2>2. (\A i \in Items : Open(i)' => Open(i)) /\ UNCHANGED <<seen, jobAttempts, expiries>>
    BY <1>5 DEF FailJob, SetJob, Open, ClaimInv, HandInv, TypeOK, boundVars
  <2>. QED
    BY <2>1, <2>2, LetGoStep
<1>6. ASSUME NEW w \in Workers, EndTick(w) \/ AbandonTick(w) PROVE ClaimInv'
  <2>1. pc'[w] = "idle"
    BY <1>6 DEF EndTick, AbandonTick, ResetWorker, ClaimInv, HandInv, TypeOK
  <2>2. OthersKept(w) /\ Holding(w)' = {}
    BY <1>6, <2>1, OnlyOwn DEF ClaimInv, TickStep, Holding, HandlesJobs, JobPC
  <2>3. UNCHANGED <<jobStatus, jobLease, jobAttempts, expiries>>
    BY <1>6 DEF EndTick, AbandonTick, jobVars, boundVars
  <2>. QED
    BY <2>2, <2>3, LetGoStep DEF Open
<1>7. ASSUME UNCHANGED workerVars PROVE \A i : Holders(i)' = Holders(i) /\ Fresh(i)' = Fresh(i)
  BY <1>7 DEF workerVars, Holders, Fresh, Holding, HandlesJobs
<1>8. ASSUME UNCHANGED <<workerVars, jobStatus, jobLease, jobAttempts, expiries>> PROVE ClaimInv'
  <2>1. ASSUME NEW i \in Items PROVE ClaimOK(i)'
    BY <1>7, <1>8, FewerHolders DEF Open
  <2>. QED
    BY <2>1 DEF ClaimInv
<1>9. ASSUME NEW i \in Items, NEW e \in EventStatus, BeginCallback(i, e) PROVE ClaimInv'
  BY <1>8, <1>9 DEF BeginCallback, jobVars, boundVars
<1>10. ASSUME NEW i \in Items,
              CommitCallback(i) \/ AbortCallback(i) \/ NozomiFinishes(i)
              \/ RetryFallsDue(i) \/ ItemAges(i)
       PROVE  ClaimInv'
  BY <1>8, <1>10 DEF CommitCallback, AbortCallback, NozomiFinishes, RetryFallsDue, ItemAges,
     jobVars, boundVars
<1>11. ASSUME NEW i \in Items, LeaseExpires(i) PROVE ClaimInv'
  <2>1. ASSUME NEW j \in Items PROVE ClaimOK(j)'
    <3>1. UNCHANGED workerVars /\ jobAttempts' = jobAttempts /\ expiries' = expiries + 1
      BY <1>11 DEF LeaseExpires
    <3>. QED
      BY <1>7, <3>1, OneLeaseLess
  <2>. QED
    BY <2>1 DEF ClaimInv
<1>12. ASSUME UNCHANGED vars PROVE ClaimInv'
  BY <1>8, <1>12 DEF vars, jobVars, boundVars
<1>. QED
  BY <1>1, <1>2, <1>3, <1>4, <1>5, <1>6, <1>9, <1>10, <1>11, <1>12 DEF Next, TickStep

LEMMA ClaimInvHolds == ConstantsOK /\ Spec => []ClaimInv
<1>1. ConstantsOK /\ ClaimInv /\ [Next]_vars => ClaimInv'
  BY StepClaimInv
<1>. QED
  BY <1>1, InitClaimInv, ConstantsOK, PTL DEF Spec

(* A job is in the hands of one worker, and of one more for every lease    *)
(* that ran out, for any number of workers, jobs and attempts.             *)
THEOREM LeasesBoundHolders == ConstantsOK /\ Spec => []HoldersBounded
<1>1. ConstantsOK /\ ClaimInv => HoldersBounded
  <2>. SUFFICES ASSUME ConstantsOK, ClaimInv, NEW i \in Items
                PROVE  Cardinality({w \in Workers : i \in Holding(w)}) <= 1 + expiries
    BY DEF HoldersBounded
  <2>1. IsFiniteSet(Holders(i)) /\ Cardinality(Holders(i)) + Claims(Open(i)) <= 1 + expiries
    BY DEF ClaimInv, ClaimOK, Paid
  <2>2. Cardinality(Holders(i)) \in Nat /\ expiries \in Nat /\ Claims(Open(i)) \in {0, 1}
    BY <2>1, Counted DEF ClaimInv, HandInv, TypeOK, Claims
  <2>3. Cardinality(Holders(i)) <= 1 + expiries
    BY <2>1, <2>2
  <2>. QED
    BY <2>3 DEF Holders
<1>. QED
  BY <1>1, ClaimInvHolds, ConstantsOK, PTL

(* An item that was failed for exhausted retries has used its attempts.    *)
ExhaustedInv ==
    /\ HandInv
    /\ \A i \in Items : itemError[i] = Exhausted => jobAttempts[i] >= MaxAttempts

LEMMA StepExhaustedInv ==
    ASSUME ConstantsOK, ExhaustedInv, [Next]_vars
    PROVE  ExhaustedInv'
<1>. HandInv'
  BY StepHandInv DEF ExhaustedInv
<1>1. ASSUME NEW w \in Workers, ClaimJobs(w) PROVE ExhaustedInv'
  <2>1. itemError' = itemError
    BY <1>1 DEF ClaimJobs, itemVars
  <2>2. ASSUME NEW i \in Items PROVE jobAttempts'[i] \in {jobAttempts[i], jobAttempts[i] + 1}
    BY <1>1 DEF ClaimJobs
  <2>3. \A i \in Items : jobAttempts[i] \in Nat
    BY DEF ExhaustedInv, HandInv, TypeOK
  <2>4. ASSUME NEW i \in Items, itemError[i] = Exhausted PROVE jobAttempts'[i] >= MaxAttempts
    BY <2>2, <2>3, <2>4 DEF ExhaustedInv, ConstantsOK
  <2>. QED
    BY <2>1, <2>4 DEF ExhaustedInv
<1>2. ASSUME UNCHANGED <<itemError, jobAttempts>> PROVE ExhaustedInv'
  BY <1>2 DEF ExhaustedInv
<1>3. ASSUME NEW i \in Items, jobAttempts' = jobAttempts, NEW e,
             itemError' = [itemError EXCEPT ![i] = e],
             e = Exhausted => jobAttempts[i] >= MaxAttempts
      PROVE  ExhaustedInv'
  <2>1. ASSUME NEW j \in Items, itemError'[j] = Exhausted PROVE jobAttempts[j] >= MaxAttempts
    BY <1>3, <2>1 DEF ExhaustedInv, HandInv, TypeOK
  <2>. QED
    BY <1>3, <2>1 DEF ExhaustedInv
<1>4. ASSUME NEW w \in Workers, MarkItemProcessing(w) PROVE ExhaustedInv'
  <2>1. cur[w] \in Items
    BY <1>4 DEF MarkItemProcessing, ExhaustedInv, HandInv, InHand, JobPC
  <2>. QED
    BY <1>3, <1>4, <2>1 DEF MarkItemProcessing, UpdateItem, jobVars, Exhausted
<1>5. ASSUME NEW w \in Workers, FailItem(w) PROVE ExhaustedInv'
  <2>1. cur[w] \in Items /\ (why[w] = Exhausted => jobAttempts[cur[w]] >= MaxAttempts)
    BY <1>5 DEF FailItem, ExhaustedInv, HandInv, InHand, FailPC
  <2>. QED
    BY <1>3, <1>5, <2>1 DEF FailItem, UpdateItem, jobVars
<1>6. ASSUME NEW i \in Items, CommitCallback(i) PROVE ExhaustedInv'
  <2>1. ErrorAfter(txEvent[i]) # Exhausted
    BY DEF ErrorAfter, Exhausted
  <2>. QED
    BY <1>3, <1>6, <2>1 DEF CommitCallback, UpdateItem, jobVars
<1>7. ASSUME NEW w \in Workers,
             \/ ReadItem(w) \/ MarkRunProcessing(w) \/ DispatchAccepted(w)
             \/ DispatchRetriable(w) \/ DispatchRejected(w) \/ StepThrows(w)
             \/ ReadSiblings(w) \/ WriteAggregate(w)
             \/ ScanTimeouts(w) \/ PickTimedOut(w) \/ EndTick(w) \/ AbandonTick(w)
      PROVE  ExhaustedInv'
  <2>1. UNCHANGED <<itemError, jobAttempts>>
    BY <1>7 DEF ReadItem, MarkRunProcessing, DispatchAccepted, DispatchRetriable,
       DispatchRejected, StepThrows, ReadSiblings, WriteAggregate, ScanTimeouts, PickTimedOut,
       EndTick, AbandonTick, itemVars, jobVars
  <2>. QED
    BY <1>2, <2>1
<1>8. ASSUME NEW w \in Workers, CompleteJob(w) \/ RetryJob(w) \/ FailJob(w) PROVE ExhaustedInv'
  BY <1>2, <1>8 DEF CompleteJob, RetryJob, FailJob, SetJob, itemVars
<1>9. ASSUME NEW i \in Items, NEW e \in EventStatus, BeginCallback(i, e) PROVE ExhaustedInv'
  BY <1>2, <1>9 DEF BeginCallback, itemVars, jobVars
<1>10. ASSUME NEW i \in Items,
              AbortCallback(i) \/ NozomiFinishes(i) \/ RetryFallsDue(i) \/ LeaseExpires(i)
              \/ ItemAges(i)
       PROVE  ExhaustedInv'
  BY <1>2, <1>10 DEF AbortCallback, NozomiFinishes, RetryFallsDue, LeaseExpires, ItemAges,
     itemVars, jobVars
<1>11. ASSUME UNCHANGED vars PROVE ExhaustedInv'
  BY <1>2, <1>11 DEF vars, itemVars, jobVars
<1>. QED
  BY <1>1, <1>4, <1>5, <1>6, <1>7, <1>8, <1>9, <1>10, <1>11 DEF Next, TickStep

(* A job is claimed beyond max_attempts only because leases ran out, and   *)
(* no item is failed for exhausted retries before max_attempts claims,     *)
(* whatever max_attempts, the workers and the jobs are.                    *)
THEOREM RetriesAreLimited == ConstantsOK /\ Spec => []RetryLimitKept
<1>1. ConstantsOK /\ ClaimInv /\ ExhaustedInv => RetryLimitKept
  <2>. SUFFICES ASSUME ConstantsOK, ClaimInv, ExhaustedInv, NEW i \in Items
                PROVE  jobAttempts[i] <= MaxAttempts + expiries
    BY DEF RetryLimitKept, ExhaustedInv, Exhausted
  <2>1. /\ IsFiniteSet(Holders(i))
        /\ jobAttempts[i] >= MaxAttempts =>
             jobAttempts[i] + Claims(Open(i)) + Cardinality(Fresh(i)) <= MaxAttempts + expiries
    BY DEF ClaimInv, ClaimOK, Paid
  <2>2. Cardinality(Fresh(i)) \in Nat /\ Claims(Open(i)) \in {0, 1}
    BY <2>1, Counted DEF Claims
  <2>3. jobAttempts[i] \in Nat /\ expiries \in Nat /\ MaxAttempts \in Nat
    BY DEF ClaimInv, HandInv, TypeOK, ConstantsOK
  <2>. QED
    BY <2>1, <2>2, <2>3
<1>2. ConstantsOK /\ Init => ExhaustedInv
  BY InitHandInv DEF ExhaustedInv, Init, Exhausted
<1>3. ConstantsOK /\ ExhaustedInv /\ [Next]_vars => ExhaustedInv'
  BY StepExhaustedInv
<1>. QED
  BY <1>1, <1>2, <1>3, ClaimInvHolds, ConstantsOK, PTL DEF Spec
-----------------------------------------------------------------------------
(***************************************************************************)
(* No dispatch is lost.                                                    *)
(*                                                                         *)
(* With one worker process the job in hand and the jobs of the batch stay  *)
(* "processing" until that worker disposes of them, so what it learned of  *)
(* an item, that Nozomi has it or that it has ended, is still true when it *)
(* closes the job: only a callback moves an item meanwhile, and a callback *)
(* is proof that Nozomi has the execution.                                 *)
(***************************************************************************)
OneWorker == \A v, w \in Workers : v = w

Reached(i) == record[i] # "absent" \/ itemStatus[i] \in Terminal

HandReached(w) ==
    /\ \A i \in Holding(w) : jobStatus[i] = "processing"
    /\ pc[w] = "skip" => Reached(cur[w])
    /\ pc[w] = "complete" => record[cur[w]] # "absent"

ReachedInv ==
    /\ HandInv
    /\ \A w \in Workers : HandReached(w)
    /\ \A i \in Items : txEvent[i] # "none" => record[i] # "absent"
    /\ \A i \in Items : jobStatus[i] = "completed" => Reached(i)

(* Nozomi forgets no execution.                                            *)
LEMMA RecordsStay ==
    ASSUME TypeOK, [Next]_vars, NEW i \in Items, record[i] # "absent"
    PROVE  record'[i] # "absent"
<1>1. \/ record' = record
      \/ \E j : Reserve(j)
      \/ \E j : \E v \in Verdicts : Finish(j, v)
  <2>1. ASSUME NEW w \in Workers, TickStep(w) PROVE record' = record \/ Reserve(cur[w])
    BY <2>1 DEF TickStep, ClaimJobs, ReadItem, MarkItemProcessing, MarkRunProcessing,
       DispatchAccepted, DispatchRetriable, DispatchRejected, StepThrows, CompleteJob, RetryJob,
       FailJob, FailItem, ReadSiblings, WriteAggregate, ScanTimeouts, PickTimedOut, EndTick
  <2>2. ASSUME NEW w \in Workers, AbandonTick(w) PROVE record' = record \/ Reserve(cur[w])
    BY <2>2 DEF AbandonTick
  <2>3. ASSUME NEW j \in Items, NozomiFinishes(j) PROVE \E v \in Verdicts : Finish(j, v)
    BY <2>3 DEF NozomiFinishes
  <2>4. ASSUME NEW j \in Items, NEW e \in EventStatus, BeginCallback(j, e) PROVE record' = record
    BY <2>4 DEF BeginCallback
  <2>5. ASSUME NEW j \in Items,
               CommitCallback(j) \/ AbortCallback(j) \/ RetryFallsDue(j) \/ LeaseExpires(j)
               \/ ItemAges(j)
        PROVE  record' = record
    BY <2>5 DEF CommitCallback, AbortCallback, RetryFallsDue, LeaseExpires, ItemAges
  <2>6. UNCHANGED vars => record' = record
    BY DEF vars
  <2>. QED
    BY <2>1, <2>2, <2>3, <2>4, <2>5, <2>6 DEF Next
<1>2. record \in [Items -> RecordStatus]
  BY DEF TypeOK, RecordTypeOK
<1>3. ASSUME NEW j, Reserve(j) PROVE record'[i] # "absent"
  BY <1>2, <1>3 DEF Reserve
<1>4. ASSUME NEW j, NEW v \in Verdicts, Finish(j, v) PROVE record'[i] # "absent"
  BY <1>2, <1>4 DEF Finish, Verdicts
<1>. QED
  BY <1>1, <1>3, <1>4

(* A step of the only worker.                                              *)
LEMMA WorkerReached ==
    ASSUME OneWorker, ReachedInv, HandInv', [Next]_vars, NEW w \in Workers, HandReached(w)',
           UNCHANGED txEvent, \A i \in Items : jobStatus'[i] = "completed" => Reached(i)'
    PROVE  ReachedInv'
<1>1. \A v \in Workers : HandReached(v)'
  BY DEF OneWorker
<1>2. ASSUME NEW i \in Items, txEvent'[i] # "none" PROVE record'[i] # "absent"
  BY <1>2, RecordsStay DEF ReachedInv, HandInv
<1>. QED
  BY <1>1, <1>2 DEF ReachedInv

LEMMA SameItemReached ==
    ASSUME ReachedInv, [Next]_vars, NEW i \in Items, itemStatus'[i] = itemStatus[i], Reached(i)
    PROVE  Reached(i)'
BY RecordsStay DEF ReachedInv, HandInv, Reached

LEMMA StepReachedInv ==
    ASSUME ConstantsOK, OneWorker, ReachedInv, [Next]_vars
    PROVE  ReachedInv'
<1>. HandInv' /\ HandInv
  BY StepHandInv DEF ReachedInv
<1>1. ASSUME NEW w \in Workers, ClaimJobs(w) PROVE ReachedInv'
  <2>1. PICK S \in ClaimSets :
            /\ batch' = [batch EXCEPT ![w] = S]
            /\ jobStatus' = [i \in Items |-> IF i \in S THEN "processing" ELSE jobStatus[i]]
    BY <1>1 DEF ClaimJobs
  <2>2. S \subseteq Items
    BY DEF ClaimSets
  <2>3. Holding(w)' \subseteq S /\ pc'[w] = "next"
    BY <1>1, <2>1 DEF ClaimJobs, HandInv, TypeOK, Holding, JobPC
  <2>4. HandReached(w)'
    BY <2>1, <2>2, <2>3 DEF HandReached
  <2>5. UNCHANGED <<itemStatus, txEvent>>
    BY <1>1 DEF ClaimJobs, itemVars, txVars
  <2>6. ASSUME NEW i \in Items, jobStatus'[i] = "completed" PROVE Reached(i)'
    BY <2>1, <2>5, <2>6, SameItemReached DEF ReachedInv
  <2>. QED
    BY <2>4, <2>5, <2>6, WorkerReached
<1>2. ASSUME NEW w \in Workers, ReadItem(w) PROVE ReachedInv'
  <2>1. UNCHANGED <<itemStatus, jobStatus, txEvent, record>> /\ ~ClaimJobs(w)
    BY <1>2 DEF ReadItem, ClaimJobs, itemVars, jobVars, txVars
  <2>2. Holding(w)' \subseteq Holding(w)
    BY <1>2, <2>1, OnlyClaimsAdd DEF TickStep
  <2>3. pc'[w] # "complete" /\ (pc'[w] = "skip" => Settled(cur'[w]))
    BY <1>2 DEF ReadItem, HandInv, TypeOK
  <2>4. HandReached(w)'
    BY <2>1, <2>2, <2>3 DEF HandReached, ReachedInv, Reached, Settled
  <2>. QED
    BY <2>1, <2>4, WorkerReached DEF ReachedInv, Reached
<1>3. ASSUME NEW w \in Workers, MarkItemProcessing(w) PROVE ReachedInv'
  <2>1. UNCHANGED <<jobStatus, txEvent, record>> /\ ~ClaimJobs(w)
    BY <1>3 DEF MarkItemProcessing, ClaimJobs, jobVars, txVars
  <2>2. Holding(w)' \subseteq Holding(w) /\ pc'[w] = "markRun"
    BY <1>3, <2>1, OnlyClaimsAdd DEF TickStep, MarkItemProcessing, HandInv, TypeOK
  <2>3. HandReached(w)'
    BY <2>1, <2>2 DEF HandReached, ReachedInv
  <2>4. cur[w] \in Holding(w)
    BY <1>3 DEF MarkItemProcessing, Holding, JobPC
  <2>5. jobStatus[cur[w]] = "processing"
    BY <2>4 DEF ReachedInv, HandReached
  <2>6. \A i \in Items : i # cur[w] => itemStatus'[i] = itemStatus[i]
    BY <1>3 DEF MarkItemProcessing, UpdateItem, HandInv, TypeOK
  <2>. QED
    BY <2>1, <2>3, <2>5, <2>6, WorkerReached DEF ReachedInv, Reached
<1>4. ASSUME NEW w \in Workers, DispatchAccepted(w) PROVE ReachedInv'
  <2>1. UNCHANGED <<itemStatus, jobStatus, txEvent>> /\ ~ClaimJobs(w)
    BY <1>4 DEF DispatchAccepted, ClaimJobs, itemVars, jobVars, txVars
  <2>2. /\ Holding(w)' \subseteq Holding(w)
        /\ pc'[w] = "complete" /\ cur'[w] = cur[w] /\ cur[w] \in Items
    BY <1>4, <2>1, OnlyClaimsAdd DEF TickStep, DispatchAccepted, HandInv, InHand, TypeOK, JobPC
  <2>3. record'[cur[w]] # "absent"
    BY <1>4, <2>2 DEF DispatchAccepted, Reserve, HandInv, TypeOK, RecordTypeOK
  <2>4. HandReached(w)'
    BY <2>1, <2>2, <2>3 DEF HandReached, ReachedInv
  <2>5. ASSUME NEW i \in Items, jobStatus'[i] = "completed" PROVE Reached(i)'
    BY <2>1, <2>5, SameItemReached DEF ReachedInv
  <2>. QED
    BY <2>1, <2>4, <2>5, WorkerReached
<1>5. ASSUME NEW w \in Workers,
             \/ MarkRunProcessing(w) \/ DispatchRetriable(w) \/ DispatchRejected(w)
             \/ StepThrows(w) \/ ReadSiblings(w) \/ WriteAggregate(w) \/ ScanTimeouts(w)
             \/ PickTimedOut(w) \/ EndTick(w) \/ AbandonTick(w)
      PROVE  ReachedInv'
  <2>1. UNCHANGED <<itemStatus, jobStatus, txEvent>>
    BY <1>5 DEF MarkRunProcessing, DispatchRetriable, DispatchRejected, StepThrows, ReadSiblings,
       WriteAggregate, ScanTimeouts, PickTimedOut, EndTick, AbandonTick, itemVars, jobVars, txVars
  <2>2. pc'[w] \notin {"skip", "complete"}
    <3>. USE DEF HandInv, TypeOK
    <3>1. CASE MarkRunProcessing(w) \/ ReadSiblings(w) \/ ScanTimeouts(w) \/ PickTimedOut(w)
      BY <3>1 DEF MarkRunProcessing, ReadSiblings, ScanTimeouts, PickTimedOut
    <3>2. CASE DispatchRetriable(w) \/ DispatchRejected(w) \/ StepThrows(w)
      <4>1. PICK fatal \in BOOLEAN : Catch(w, fatal)
        BY <3>2 DEF DispatchRetriable, DispatchRejected, StepThrows
      <4>. QED
        BY <4>1 DEF Catch
    <3>3. CASE WriteAggregate(w)
      BY <3>3 DEF WriteAggregate
    <3>4. CASE EndTick(w) \/ AbandonTick(w)
      BY <3>4 DEF EndTick, AbandonTick, ResetWorker
    <3>. QED
      BY <1>5, <3>1, <3>2, <3>3, <3>4
  <2>3. CASE ClaimJobs(w)
    BY <1>1, <2>3
  <2>4. CASE ~ClaimJobs(w)
    <3>1. Holding(w)' \subseteq Holding(w)
      BY <1>5, <2>4, OnlyClaimsAdd DEF TickStep
    <3>2. HandReached(w)'
      BY <2>1, <2>2, <3>1 DEF HandReached, ReachedInv
    <3>3. ASSUME NEW i \in Items, jobStatus'[i] = "completed" PROVE Reached(i)'
      BY <2>1, <3>3, SameItemReached DEF ReachedInv
    <3>. QED
      BY <2>1, <3>2, <3>3, WorkerReached
  <2>. QED
    BY <2>3, <2>4
<1>6. ASSUME NEW w \in Workers, CompleteJob(w) \/ RetryJob(w) \/ FailJob(w) PROVE ReachedInv'
  <2>1. UNCHANGED <<itemStatus, txEvent, record>>
    BY <1>6 DEF CompleteJob, RetryJob, FailJob, itemVars, txVars
  <2>2. Holding(w)' \subseteq Holding(w) \ {cur[w]} /\ pc'[w] \in {"next", "failItem"}
    <3>1. pc'[w] \in {"next", "failItem"}
      BY <1>6 DEF CompleteJob, RetryJob, FailJob, HandInv, TypeOK
    <3>. QED
      BY <1>6, <3>1, DisposedLetGo
  <2>3. Holding(w) \subseteq Items
    BY HoldingInItems
  <2>4. \A i \in Items : i # cur[w] => jobStatus'[i] = jobStatus[i]
    BY <1>6 DEF CompleteJob, RetryJob, FailJob, SetJob, HandInv, TypeOK
  <2>5. HandReached(w)'
    BY <2>2, <2>3, <2>4 DEF HandReached, ReachedInv
  <2>6. cur[w] \in Items /\ jobStatus'[cur[w]] = "completed" => Reached(cur[w])
    BY <1>6 DEF CompleteJob, RetryJob, FailJob, SetJob, HandInv, TypeOK, ReachedInv, HandReached,
       Reached
  <2>. QED
    BY <2>1, <2>4, <2>5, <2>6, WorkerReached DEF ReachedInv, Reached
<1>7. ASSUME NEW w \in Workers, FailItem(w) PROVE ReachedInv'
  <2>1. UNCHANGED <<jobStatus, txEvent, record>> /\ ~ClaimJobs(w)
    BY <1>7 DEF FailItem, ClaimJobs, jobVars, txVars
  <2>2. Holding(w)' \subseteq Holding(w) /\ pc'[w] = "aggRead"
    BY <1>7, <2>1, OnlyClaimsAdd DEF TickStep, FailItem, HandInv, TypeOK
  <2>3. HandReached(w)'
    BY <2>1, <2>2 DEF HandReached, ReachedInv
  <2>4. \A i \in Items : itemStatus'[i] = itemStatus[i] \/ itemStatus'[i] = "failed"
    BY <1>7 DEF FailItem, UpdateItem, HandInv, TypeOK
  <2>. QED
    BY <2>1, <2>3, <2>4, WorkerReached DEF ReachedInv, Reached, Terminal, Verdicts
<1>8. ASSUME UNCHANGED <<workerVars, jobStatus>>, NEW i \in Items,
             record[i] # "absent" \/ itemStatus'[i] = itemStatus[i],
             \A j \in Items \ {i} : itemStatus'[j] = itemStatus[j] /\ txEvent'[j] = txEvent[j],
             txEvent'[i] # "none" => record[i] # "absent"
      PROVE  ReachedInv'
  <2>1. ASSUME NEW j \in Items, Reached(j) PROVE Reached(j)'
    BY <1>8, <2>1, SameItemReached, RecordsStay DEF Reached, HandInv
  <2>2. ASSUME NEW w \in Workers PROVE HandReached(w)'
    <3>1. /\ UNCHANGED <<pc, cur, jobStatus>> /\ Holding(w)' = Holding(w)
          /\ pc[w] \in {"skip", "complete"} => cur[w] \in Items
      BY <1>8 DEF workerVars, Holding, HandlesJobs, HandInv, InHand, JobPC
    <3>2. pc[w] = "skip" => Reached(cur[w])'
      BY <2>1, <3>1 DEF ReachedInv, HandReached
    <3>3. pc[w] = "complete" => record'[cur[w]] # "absent"
      BY <3>1, RecordsStay DEF ReachedInv, HandReached, HandInv
    <3>. QED
      BY <3>1, <3>2, <3>3 DEF ReachedInv, HandReached, Reached
  <2>3. ASSUME NEW j \in Items, txEvent'[j] # "none" PROVE record'[j] # "absent"
    BY <1>8, <2>3, RecordsStay DEF ReachedInv, HandInv
  <2>. QED
    BY <1>8, <2>1, <2>2, <2>3 DEF ReachedInv
<1>9. ASSUME NEW i \in Items, NEW e \in EventStatus, BeginCallback(i, e) PROVE ReachedInv'
  <2>1. record[i] # "absent" /\ UNCHANGED <<workerVars, jobStatus, itemStatus>>
    BY <1>9 DEF BeginCallback, MaySend, EventStatus, Verdicts, jobVars, itemVars
  <2>2. \A j \in Items \ {i} : txEvent'[j] = txEvent[j]
    BY <1>9 DEF BeginCallback, HandInv, TypeOK
  <2>. QED
    BY <1>8, <2>1, <2>2
<1>10. ASSUME NEW i \in Items, CommitCallback(i) PROVE ReachedInv'
  <2>1. record[i] # "absent" /\ UNCHANGED <<workerVars, jobStatus>>
    BY <1>10 DEF CommitCallback, ReachedInv, jobVars
  <2>2. \A j \in Items \ {i} : itemStatus'[j] = itemStatus[j] /\ txEvent'[j] = txEvent[j]
    BY <1>10 DEF CommitCallback, UpdateItem, HandInv, TypeOK
  <2>. QED
    BY <1>8, <2>1, <2>2
<1>11. ASSUME NEW i \in Items, AbortCallback(i) PROVE ReachedInv'
  <2>1. UNCHANGED <<workerVars, jobStatus, itemStatus>>
    BY <1>11 DEF AbortCallback, jobVars, itemVars
  <2>2. /\ \A j \in Items \ {i} : txEvent'[j] = txEvent[j]
        /\ txEvent'[i] = "none"
    BY <1>11 DEF AbortCallback, HandInv, TypeOK
  <2>. QED
    BY <1>8, <2>1, <2>2
<1>12. ASSUME NEW i \in Items,
              NozomiFinishes(i) \/ RetryFallsDue(i) \/ LeaseExpires(i) \/ ItemAges(i)
       PROVE  ReachedInv'
  <2>1. UNCHANGED <<workerVars, jobStatus, itemStatus, txEvent>>
    BY <1>12 DEF NozomiFinishes, RetryFallsDue, LeaseExpires, ItemAges, itemVars, jobVars, txVars
  <2>2. txEvent'[i] # "none" => record[i] # "absent"
    BY <2>1 DEF ReachedInv
  <2>. QED
    BY <1>8, <2>1, <2>2
<1>13. ASSUME UNCHANGED vars PROVE ReachedInv'
  <2>1. UNCHANGED <<workerVars, jobStatus, itemStatus, txEvent, record>>
    BY <1>13 DEF vars, jobVars, itemVars, txVars
  <2>2. \A w \in Workers : HandReached(w)'
    BY <2>1 DEF ReachedInv, HandReached, Reached, Holding, HandlesJobs, workerVars
  <2>. QED
    BY <2>1, <2>2 DEF ReachedInv, Reached
<1>. QED
  BY <1>1, <1>2, <1>3, <1>4, <1>5, <1>6, <1>7, <1>9, <1>10, <1>11, <1>12, <1>13
     DEF Next, TickStep

(* With one worker process, for any number of runs, items, attempts and    *)
(* faults, a job reads completed only if Nozomi has the execution or the   *)
(* item has ended.                                                         *)
THEOREM DispatchNotLost == ConstantsOK /\ OneWorker /\ Spec => []NoLostDispatch
<1>. SUFFICES ASSUME OneWorker PROVE Spec => []NoLostDispatch
  BY ConstantsOK
<1>1. ConstantsOK /\ Init => ReachedInv
  <2>1. ASSUME ConstantsOK, Init PROVE ReachedInv
    BY <2>1, InitHandInv
       DEF ReachedInv, HandReached, Holding, HandlesJobs, JobPC, Init
  <2>. QED
    BY <2>1
<1>2. ConstantsOK /\ ReachedInv /\ [Next]_vars => ReachedInv'
  BY StepReachedInv
<1>3. ReachedInv => NoLostDispatch
  BY DEF ReachedInv, NoLostDispatch, Reached
<1>. QED
  BY <1>1, <1>2, <1>3, ConstantsOK, PTL DEF Spec
=============================================================================
