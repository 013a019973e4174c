------------------------ MODULE NozomiExecutionProofs ------------------------
(***************************************************************************)
(* NozomiExecution implements ExecutionContract, and no callback tells     *)
(* Kaede more than the contract allows: for any number of executions,      *)
(* retries and crashes.                                                    *)
(***************************************************************************)
EXTENDS NozomiExecution, TLAPS

(* A thread with a callback in hand may send it and has a try left.        *)
SendInv(t) ==
    /\ pc[t] \in SendPC => item[t] \in Items /\ MaySend(item[t], event[t])
    /\ pc[t] \in {"send", "acked", "nacked"} => tries[t] < MaxTries

(* The background task of an execution follows its record: it announces    *)
(* and runs only while the record reads processing.                        *)
TaskInv(i) ==
    /\ item[i] = i
    /\ pc[i] # "guard"
    /\ record[i] = "absent" => pc[i] = "idle" /\ event[i] = "processing"
    /\ pc[i] = "run" => record[i] = "processing"
    /\ pc[i] \in SendPC /\ event[i] = "processing" => record[i] = "processing"
    /\ record[i] = "processing" => mode # "up" \/ pc[i] # "idle"

(* Whatever is stored or was received may be sent.                         *)
EventsBacked ==
    /\ \A i \in Items, e \in EventStatus : delivery[i][e] # "none" => MaySend(i, e)
    /\ \A d \in queue : MaySend(d[1], d[2])
    /\ \A d \in received : MaySend(d[1], d[2])

RecoveryInv ==
    /\ mode # "up" => \A t \in Threads : pc[t] = "idle"
    /\ mode \in {"deliver", "park"} => recovering \in Items /\ record[recovering] = "failed"

NozomiInv ==
    /\ NozomiTypeOK
    /\ \A t \in Threads : SendInv(t)
    /\ pc[RetryThread] # "run"
    /\ \A i \in Items : TaskInv(i)
    /\ EventsBacked
    /\ RecoveryInv
(* What may be sent may always be sent: the record only moves on.          *)
LEMMA MaySendStable ==
    ASSUME RecordTypeOK, NEW j \in Items,
           record' = record \/ Reserve(j) \/ \E v \in Verdicts : Finish(j, v)
    PROVE  \A i \in Items, e \in EventStatus : MaySend(i, e) => MaySend(i, e)'
<1>1. \A i \in Items : \/ record'[i] = record[i]
                       \/ record[i] = "absent" /\ record'[i] = "processing"
                       \/ record[i] = "processing" /\ record'[i] \in Verdicts
  BY DEF RecordTypeOK, Reserve, Finish
<1>2. ASSUME NEW i \in Items, NEW e \in EventStatus, MaySend(i, e)
      PROVE  MaySend(i, e)'
  BY <1>1, <1>2 DEF MaySend, EventStatus, Verdicts
<1>. QED
  BY <1>2

LEMMA OpenType ==
    ASSUME NozomiTypeOK, NEW i \in Items, NEW e \in EventStatus
    PROVE  DeliveryAfterOpen(i, e) \in [EventStatus -> DeliveryStatus]
<1>. DEFINE superseded == [d \in EventStatus |->
               IF e # "processing" /\ delivery[i][d] = "retrying" THEN "superseded"
                                                               ELSE delivery[i][d]]
<1>1. superseded \in [EventStatus -> DeliveryStatus]
  BY DEF NozomiTypeOK, DeliveryStatus
<1>2. DeliveryAfterOpen(i, e) = [superseded EXCEPT ![e] = IF @ = "none" THEN "pending" ELSE @]
  BY DEF DeliveryAfterOpen
<1>. HIDE DEF superseded
<1>. QED
  BY <1>1, <1>2 DEF DeliveryStatus

(* Opening a delivery creates no row but its own.                          *)
LEMMA OpenRows ==
    ASSUME NEW i \in Items, NEW e \in EventStatus, NEW d \in EventStatus, d # e,
           DeliveryAfterOpen(i, e)[d] # "none"
    PROVE  delivery[i][d] # "none"
BY DEF DeliveryAfterOpen

LEMMA InitNozomiInv == NozomiConstantsOK /\ NozomiInit => NozomiInv
<1>. SUFFICES ASSUME NozomiConstantsOK, NozomiInit PROVE NozomiInv
  OBVIOUS
<1>1. NozomiTypeOK
  BY DEF NozomiConstantsOK, NozomiInit, NozomiTypeOK, NoExecutions, RecordTypeOK, RecordStatus,
         EventStatus, DeliveryStatus, ThreadsIdle, Threads, SendPC, NoFingerprint
<1>2. \A t \in Threads : SendInv(t)
  BY DEF NozomiInit, ThreadsIdle, SendInv, SendPC
<1>3. \A i \in Items : TaskInv(i)
  BY DEF NozomiInit, NoExecutions, ThreadsIdle, Threads, TaskInv, SendPC
<1>4. EventsBacked
  BY DEF NozomiInit, EventsBacked
<1>. QED
  BY <1>1, <1>2, <1>3, <1>4 DEF NozomiInv, NozomiInit, ThreadsIdle, Threads, RecoveryInv
LEMMA StepNozomiType ==
    ASSUME NozomiConstantsOK, NozomiInv, [NozomiNext]_nozomiVars
    PROVE  NozomiTypeOK'
<1>. USE DEF NozomiInv, NozomiTypeOK, RecordTypeOK, dbVars, threadVars, modeVars
<1>1. ASSUME NEW i \in Items, NEW url \in SignedUrls, StartExecution(i, url) PROVE NozomiTypeOK'
  <2>1. Fingerprint(i, url) \in SignedUrls \cup {NoFingerprint, "content"}
    BY DEF Fingerprint
  <2>2. RecordTypeOK'
    BY <1>1 DEF StartExecution, Reserve, RecordTypeOK, RecordStatus, EventStatus
  <2>3. fingerprint' \in [Items -> SignedUrls \cup {NoFingerprint, "content"}]
    BY <1>1, <2>1 DEF StartExecution
  <2>4. answer' \in [Items -> {"none", "accepted", "conflict"}]
    BY <1>1 DEF StartExecution
  <2>5. pc' \in [Threads -> SendPC \cup {"idle", "run", "guard"}]
    BY <1>1 DEF StartExecution, SendPC
  <2>. QED
    BY <1>1, <2>2, <2>3, <2>4, <2>5 DEF StartExecution
<1>2. ASSUME NEW t \in Threads, OpenDelivery(t) PROVE NozomiTypeOK'
  <2>1. item[t] \in Items
    BY <1>2 DEF OpenDelivery, SendInv, SendPC
  <2>2. delivery' \in [Items -> [EventStatus -> DeliveryStatus]]
    BY <1>2, <2>1, OpenType DEF OpenDelivery
  <2>3. pc' \in [Threads -> SendPC \cup {"idle", "run", "guard"}] /\ tries' \in [Threads -> 0 .. MaxTries]
    BY <1>2 DEF OpenDelivery, SendPC, NozomiConstantsOK
  <2>. QED
    BY <1>2, <2>2, <2>3 DEF OpenDelivery
<1>3. ASSUME NEW t \in Threads, SendSucceeds(t) PROVE NozomiTypeOK'
  <2>1. <<item[t], event[t]>> \in Items \X EventStatus
    BY <1>3 DEF SendSucceeds, SendInv, SendPC
  <2>2. received' \subseteq Items \X EventStatus
    BY <1>3, <2>1 DEF SendSucceeds
  <2>3. pc' \in [Threads -> SendPC \cup {"idle", "run", "guard"}]
    BY <1>3 DEF SendSucceeds, SendPC
  <2>. QED
    BY <1>3, <2>2, <2>3 DEF SendSucceeds
<1>4. ASSUME NEW t \in Threads, SendFails(t) PROVE NozomiTypeOK'
  <2>1. <<item[t], event[t]>> \in Items \X EventStatus
    BY <1>4 DEF SendFails, SendInv, SendPC
  <2>2. received' \subseteq Items \X EventStatus
    BY <1>4, <2>1 DEF SendFails
  <2>3. pc' \in [Threads -> SendPC \cup {"idle", "run", "guard"}]
    BY <1>4 DEF SendFails, SendPC
  <2>. QED
    BY <1>4, <2>2, <2>3 DEF SendFails
<1>5. ASSUME NEW t \in Threads, MarkDelivered(t) PROVE NozomiTypeOK'
  <2>1. item[t] \in Items /\ event[t] \in EventStatus
    BY <1>5 DEF MarkDelivered, SendInv, SendPC
  <2>2. delivery' \in [Items -> [EventStatus -> DeliveryStatus]]
    BY <1>5, <2>1 DEF MarkDelivered, SetDelivery, DeliveryStatus
  <2>3. due' \in [Items -> [EventStatus -> BOOLEAN]]
    BY <1>5, <2>1 DEF MarkDelivered, SetDelivery
  <2>4. pc' \in [Threads -> SendPC \cup {"idle", "run", "guard"}]
    BY <1>5 DEF MarkDelivered, AfterSend
  <2>. QED
    BY <1>5, <2>2, <2>3, <2>4 DEF MarkDelivered
<1>6. ASSUME NEW t \in Threads, MarkFailed(t) PROVE NozomiTypeOK'
  <2>1. item[t] \in Items /\ event[t] \in EventStatus
    BY <1>6 DEF MarkFailed, SendInv, SendPC
  <2>2. delivery' \in [Items -> [EventStatus -> DeliveryStatus]]
    BY <1>6, <2>1 DEF MarkFailed, SetDelivery, DeliveryStatus
  <2>3. due' \in [Items -> [EventStatus -> BOOLEAN]]
    BY <1>6, <2>1 DEF MarkFailed, SetDelivery
  <2>4. tries[t] < MaxTries
    BY <1>6 DEF MarkFailed, SendInv
  <2>5. tries' \in [Threads -> 0 .. MaxTries]
    BY <1>6, <2>4 DEF MarkFailed, NozomiConstantsOK
  <2>6. pc' \in [Threads -> SendPC \cup {"idle", "run", "guard"}]
    BY <1>6 DEF MarkFailed, SendPC
  <2>. QED
    BY <1>6, <2>2, <2>3, <2>5, <2>6 DEF MarkFailed
<1>7. ASSUME NEW t \in Threads, Park(t) PROVE NozomiTypeOK'
  <2>1. item[t] \in Items /\ event[t] \in EventStatus
    BY <1>7 DEF Park, SendInv, SendPC
  <2>2. delivery' \in [Items -> [EventStatus -> DeliveryStatus]]
    BY <1>7, <2>1 DEF Park, SetDelivery, DeliveryStatus, ParkedStatus
  <2>3. due' \in [Items -> [EventStatus -> BOOLEAN]]
    BY <1>7, <2>1 DEF Park, SetDelivery
  <2>4. pc' \in [Threads -> SendPC \cup {"idle", "run", "guard"}]
    BY <1>7 DEF Park, AfterSend
  <2>. QED
    BY <1>7, <2>2, <2>3, <2>4 DEF Park
<1>8. ASSUME NEW i \in Items, RunExecution(i) PROVE NozomiTypeOK'
  <2>1. PICK v \in Verdicts : record' = [record EXCEPT ![i] = v] /\ event' = [event EXCEPT ![i] = v]
    BY <1>8 DEF RunExecution
  <2>3. RecordTypeOK' /\ event' \in [Threads -> EventStatus]
    BY <2>1 DEF RecordStatus, EventStatus
  <2>2. pc' \in [Threads -> SendPC \cup {"idle", "run", "guard"}]
    BY <1>8 DEF RunExecution, SendPC
  <2>. QED
    BY <1>8, <2>2, <2>3 DEF RunExecution
<1>9. ASSUME NEW i \in Items, NEW e \in EventStatus, BackoffElapses(i, e) PROVE NozomiTypeOK'
  BY <1>9 DEF BackoffElapses
<1>10. ASSUME PollRetries PROVE NozomiTypeOK'
  BY <1>10 DEF PollRetries, Threads
<1>11. ASSUME RetryNext PROVE NozomiTypeOK'
  <2>1. PICK d \in queue :
            /\ queue' = queue \ {d}
            /\ IF StillRetrying(d[1], d[2])
               THEN /\ pc' = [pc EXCEPT ![RetryThread] = "open"]
                    /\ item' = [item EXCEPT ![RetryThread] = d[1]]
                    /\ event' = [event EXCEPT ![RetryThread] = d[2]]
               ELSE UNCHANGED <<pc, item, event>>
    BY <1>11 DEF RetryNext
  <2>2. d[1] \in Items /\ d[2] \in EventStatus
    OBVIOUS
  <2>3. /\ pc' \in [Threads -> SendPC \cup {"idle", "run", "guard"}]
        /\ item' \in [Threads -> Items \cup {NoItem}]
        /\ event' \in [Threads -> EventStatus]
    BY <2>1, <2>2 DEF SendPC
  <2>. QED
    BY <1>11, <2>1, <2>3 DEF RetryNext
<1>12. ASSUME EndRetries PROVE NozomiTypeOK'
  BY <1>12 DEF EndRetries
<1>13. ASSUME Crash PROVE NozomiTypeOK'
  <2>1. pc' \in [Threads -> SendPC \cup {"idle", "run", "guard"}]
        /\ item' \in [Threads -> Items \cup {NoItem}] /\ event' \in [Threads -> EventStatus]
        /\ tries' \in [Threads -> 0 .. MaxTries]
    BY <1>13 DEF Crash, EventStatus, NozomiConstantsOK
  <2>2. received' \subseteq Items \X EventStatus
    BY <1>13 DEF Crash, SendInv, SendPC
  <2>3. crashes' \in 0 .. MaxCrashes
    BY <1>13 DEF Crash, NozomiConstantsOK
  <2>. QED
    BY <1>13, <2>1, <2>2, <2>3 DEF Crash
<1>14. ASSUME RecoverRecord PROVE NozomiTypeOK'
  BY <1>14 DEF RecoverRecord, RecordStatus, EventStatus, Verdicts
<1>15. ASSUME RecoverDelivery PROVE NozomiTypeOK'
  <2>1. recovering \in Items /\ "failed" \in EventStatus
    BY <1>15 DEF RecoverDelivery, RecoveryInv, EventStatus, Verdicts
  <2>2. delivery' \in [Items -> [EventStatus -> DeliveryStatus]]
    BY <1>15, <2>1, OpenType DEF RecoverDelivery
  <2>. QED
    BY <1>15, <2>2 DEF RecoverDelivery
<1>16. ASSUME RecoverSchedule PROVE NozomiTypeOK'
  BY <1>16 DEF RecoverSchedule, SetDelivery, DeliveryStatus
<1>17. ASSUME StartServing PROVE NozomiTypeOK'
  BY <1>17 DEF StartServing
<1>18. ASSUME UNCHANGED nozomiVars PROVE NozomiTypeOK'
  BY <1>18 DEF nozomiVars
<1>. QED
  BY <1>1, <1>2, <1>3, <1>4, <1>5, <1>6, <1>7, <1>8, <1>9, <1>10, <1>11,
     <1>12, <1>13, <1>14, <1>15, <1>16, <1>17, <1>18
     DEF NozomiNext, ThreadStep, Recovery
(* Every step of the service is a step of the contract.                    *)
LEMMA RecordStep ==
    ASSUME NozomiConstantsOK, NozomiInv, NozomiTypeOK', [NozomiNext]_nozomiVars
    PROVE  record' = record \/ \E j \in Items : Reserve(j) \/ \E v \in Verdicts : Finish(j, v)
<1>. USE DEF NozomiInv, dbVars, threadVars, modeVars
<1>1. ASSUME NEW i \in Items, NEW url \in SignedUrls, StartExecution(i, url) PROVE record' = record \/ \E j \in Items : Reserve(j) \/ \E v \in Verdicts : Finish(j, v)
  BY <1>1 DEF StartExecution
<1>2. ASSUME NEW t \in Threads, OpenDelivery(t) PROVE record' = record \/ \E j \in Items : Reserve(j) \/ \E v \in Verdicts : Finish(j, v)
  BY <1>2 DEF OpenDelivery
<1>3. ASSUME NEW t \in Threads, SendSucceeds(t) PROVE record' = record \/ \E j \in Items : Reserve(j) \/ \E v \in Verdicts : Finish(j, v)
  BY <1>3 DEF SendSucceeds
<1>4. ASSUME NEW t \in Threads, SendFails(t) PROVE record' = record \/ \E j \in Items : Reserve(j) \/ \E v \in Verdicts : Finish(j, v)
  BY <1>4 DEF SendFails
<1>5. ASSUME NEW t \in Threads, MarkDelivered(t) PROVE record' = record \/ \E j \in Items : Reserve(j) \/ \E v \in Verdicts : Finish(j, v)
  BY <1>5 DEF MarkDelivered
<1>6. ASSUME NEW t \in Threads, MarkFailed(t) PROVE record' = record \/ \E j \in Items : Reserve(j) \/ \E v \in Verdicts : Finish(j, v)
  BY <1>6 DEF MarkFailed
<1>7. ASSUME NEW t \in Threads, Park(t) PROVE record' = record \/ \E j \in Items : Reserve(j) \/ \E v \in Verdicts : Finish(j, v)
  BY <1>7 DEF Park
<1>8. ASSUME NEW i \in Items, RunExecution(i) PROVE record' = record \/ \E j \in Items : Reserve(j) \/ \E v \in Verdicts : Finish(j, v)
  BY <1>8 DEF RunExecution, TaskInv, Finish
<1>9. ASSUME NEW i \in Items, NEW e \in EventStatus, BackoffElapses(i, e) PROVE record' = record \/ \E j \in Items : Reserve(j) \/ \E v \in Verdicts : Finish(j, v)
  BY <1>9 DEF BackoffElapses
<1>10. ASSUME PollRetries PROVE record' = record \/ \E j \in Items : Reserve(j) \/ \E v \in Verdicts : Finish(j, v)
  BY <1>10 DEF PollRetries
<1>11. ASSUME RetryNext PROVE record' = record \/ \E j \in Items : Reserve(j) \/ \E v \in Verdicts : Finish(j, v)
  BY <1>11 DEF RetryNext
<1>12. ASSUME EndRetries PROVE record' = record \/ \E j \in Items : Reserve(j) \/ \E v \in Verdicts : Finish(j, v)
  BY <1>12 DEF EndRetries
<1>13. ASSUME Crash PROVE record' = record \/ \E j \in Items : Reserve(j) \/ \E v \in Verdicts : Finish(j, v)
  BY <1>13 DEF Crash
<1>14. ASSUME RecoverRecord PROVE record' = record \/ \E j \in Items : Reserve(j) \/ \E v \in Verdicts : Finish(j, v)
  BY <1>14 DEF RecoverRecord, Interrupted, Finish, Verdicts
<1>15. ASSUME RecoverDelivery PROVE record' = record \/ \E j \in Items : Reserve(j) \/ \E v \in Verdicts : Finish(j, v)
  BY <1>15 DEF RecoverDelivery
<1>16. ASSUME RecoverSchedule PROVE record' = record \/ \E j \in Items : Reserve(j) \/ \E v \in Verdicts : Finish(j, v)
  BY <1>16 DEF RecoverSchedule
<1>17. ASSUME StartServing PROVE record' = record \/ \E j \in Items : Reserve(j) \/ \E v \in Verdicts : Finish(j, v)
  BY <1>17 DEF StartServing
<1>18. ASSUME UNCHANGED nozomiVars PROVE record' = record \/ \E j \in Items : Reserve(j) \/ \E v \in Verdicts : Finish(j, v)
  BY <1>18 DEF nozomiVars
<1>. QED
  BY <1>1, <1>2, <1>3, <1>4, <1>5, <1>6, <1>7, <1>8, <1>9, <1>10, <1>11,
     <1>12, <1>13, <1>14, <1>15, <1>16, <1>17, <1>18
     DEF NozomiNext, ThreadStep, Recovery

LEMMA MaySendKept ==
    ASSUME NozomiConstantsOK, NozomiInv, NozomiTypeOK', [NozomiNext]_nozomiVars
    PROVE  \A i \in Items, e \in EventStatus : MaySend(i, e) => MaySend(i, e)'
<1>1. CASE record' = record
  BY <1>1 DEF MaySend
<1>2. CASE record' # record
  <2>1. PICK j \in Items : Reserve(j) \/ \E v \in Verdicts : Finish(j, v)
    BY <1>2, RecordStep
  <2>. QED
    BY <2>1, MaySendStable DEF NozomiInv, NozomiTypeOK
<1>. QED
  BY <1>1, <1>2

LEMMA StepEvents ==
    ASSUME NozomiConstantsOK, NozomiInv, NozomiTypeOK', [NozomiNext]_nozomiVars
    PROVE  EventsBacked'
<1>. USE DEF NozomiInv, dbVars, threadVars, modeVars
<1>1. ASSUME NEW i \in Items, NEW url \in SignedUrls, StartExecution(i, url) PROVE EventsBacked'
  <2>1. UNCHANGED <<delivery, queue, received>>
    BY <1>1 DEF StartExecution
  <2>2. queue \subseteq Items \X EventStatus /\ received \subseteq Items \X EventStatus
    BY DEF NozomiTypeOK
  <2>. QED
    BY <2>1, <2>2, MaySendKept DEF EventsBacked
<1>2. ASSUME NEW t \in Threads, OpenDelivery(t) PROVE EventsBacked'
  <2>1. item[t] \in Items /\ event[t] \in EventStatus /\ MaySend(item[t], event[t])
    BY <1>2 DEF OpenDelivery, SendInv, SendPC, NozomiTypeOK
  <2>2. \A i \in Items, e \in EventStatus : delivery'[i][e] # "none" => MaySend(i, e)
    BY <1>2, <2>1, OpenRows DEF OpenDelivery, EventsBacked, NozomiTypeOK
  <2>. QED
    BY <1>2, <2>2 DEF OpenDelivery, EventsBacked, MaySend
<1>3. ASSUME NEW t \in Threads, SendSucceeds(t) PROVE EventsBacked'
  <2>1. MaySend(item[t], event[t])
    BY <1>3 DEF SendSucceeds, SendInv, SendPC
  <2>2. \A d \in received' : MaySend(d[1], d[2])
    BY <1>3, <2>1 DEF SendSucceeds, EventsBacked
  <2>. QED
    BY <1>3, <2>2 DEF SendSucceeds, EventsBacked, MaySend
<1>4. ASSUME NEW t \in Threads, SendFails(t) PROVE EventsBacked'
  <2>1. MaySend(item[t], event[t])
    BY <1>4 DEF SendFails, SendInv, SendPC
  <2>2. \A d \in received' : MaySend(d[1], d[2])
    BY <1>4, <2>1 DEF SendFails, EventsBacked
  <2>. QED
    BY <1>4, <2>2 DEF SendFails, EventsBacked, MaySend
<1>5. ASSUME NEW t \in Threads, MarkDelivered(t) PROVE EventsBacked'
  <2>1. item[t] \in Items /\ event[t] \in EventStatus /\ MaySend(item[t], event[t])
    BY <1>5 DEF MarkDelivered, SendInv, SendPC, NozomiTypeOK
  <2>2. \A i \in Items, e \in EventStatus : delivery'[i][e] # "none" => MaySend(i, e)
    BY <1>5, <2>1 DEF MarkDelivered, SetDelivery, EventsBacked, NozomiTypeOK
  <2>. QED
    BY <1>5, <2>2 DEF MarkDelivered, EventsBacked, MaySend
<1>6. ASSUME NEW t \in Threads, MarkFailed(t) PROVE EventsBacked'
  <2>1. item[t] \in Items /\ event[t] \in EventStatus /\ MaySend(item[t], event[t])
    BY <1>6 DEF MarkFailed, SendInv, SendPC, NozomiTypeOK
  <2>2. \A i \in Items, e \in EventStatus : delivery'[i][e] # "none" => MaySend(i, e)
    BY <1>6, <2>1 DEF MarkFailed, SetDelivery, EventsBacked, NozomiTypeOK
  <2>. QED
    BY <1>6, <2>2 DEF MarkFailed, EventsBacked, MaySend
<1>7. ASSUME NEW t \in Threads, Park(t) PROVE EventsBacked'
  <2>1. item[t] \in Items /\ event[t] \in EventStatus /\ MaySend(item[t], event[t])
    BY <1>7 DEF Park, SendInv, SendPC, NozomiTypeOK
  <2>2. \A i \in Items, e \in EventStatus : delivery'[i][e] # "none" => MaySend(i, e)
    BY <1>7, <2>1 DEF Park, SetDelivery, EventsBacked, NozomiTypeOK
  <2>. QED
    BY <1>7, <2>2 DEF Park, EventsBacked, MaySend
<1>8. ASSUME NEW i \in Items, RunExecution(i) PROVE EventsBacked'
  <2>1. UNCHANGED <<delivery, queue, received>>
    BY <1>8 DEF RunExecution
  <2>2. queue \subseteq Items \X EventStatus /\ received \subseteq Items \X EventStatus
    BY DEF NozomiTypeOK
  <2>. QED
    BY <2>1, <2>2, MaySendKept DEF EventsBacked
<1>9. ASSUME NEW i \in Items, NEW e \in EventStatus, BackoffElapses(i, e) PROVE EventsBacked'
  BY <1>9 DEF BackoffElapses, EventsBacked, MaySend
<1>10. ASSUME PollRetries PROVE EventsBacked'
  <2>1. \A d \in queue' : MaySend(d[1], d[2])
    BY <1>10 DEF PollRetries, Retryable, EventsBacked
  <2>. QED
    BY <1>10, <2>1 DEF PollRetries, EventsBacked, MaySend
<1>11. ASSUME RetryNext PROVE EventsBacked'
  BY <1>11 DEF RetryNext, EventsBacked, MaySend
<1>12. ASSUME EndRetries PROVE EventsBacked'
  BY <1>12 DEF EndRetries, EventsBacked, MaySend
<1>13. ASSUME Crash PROVE EventsBacked'
  <2>1. \A t \in Threads : pc[t] = "send" => MaySend(item[t], event[t])
    BY DEF SendInv, SendPC
  <2>2. \A d \in received' : MaySend(d[1], d[2])
    BY <1>13, <2>1 DEF Crash, EventsBacked
  <2>. QED
    BY <1>13, <2>2 DEF Crash, EventsBacked, MaySend
<1>14. ASSUME RecoverRecord PROVE EventsBacked'
  <2>1. UNCHANGED <<delivery, queue, received>>
    BY <1>14 DEF RecoverRecord
  <2>2. queue \subseteq Items \X EventStatus /\ received \subseteq Items \X EventStatus
    BY DEF NozomiTypeOK
  <2>. QED
    BY <2>1, <2>2, MaySendKept DEF EventsBacked
<1>15. ASSUME RecoverDelivery PROVE EventsBacked'
  <2>1. recovering \in Items /\ "failed" \in EventStatus /\ MaySend(recovering, "failed")
    BY <1>15 DEF RecoverDelivery, RecoveryInv, EventStatus, Verdicts, MaySend
  <2>2. \A i \in Items, e \in EventStatus : delivery'[i][e] # "none" => MaySend(i, e)
    BY <1>15, <2>1, OpenRows DEF RecoverDelivery, EventsBacked, NozomiTypeOK
  <2>. QED
    BY <1>15, <2>2 DEF RecoverDelivery, EventsBacked, MaySend
<1>16. ASSUME RecoverSchedule PROVE EventsBacked'
  <2>1. recovering \in Items /\ MaySend(recovering, "failed")
    BY <1>16 DEF RecoverSchedule, RecoveryInv, MaySend
  <2>2. \A i \in Items, e \in EventStatus : delivery'[i][e] # "none" => MaySend(i, e)
    BY <1>16, <2>1 DEF RecoverSchedule, SetDelivery, EventsBacked, NozomiTypeOK
  <2>. QED
    BY <1>16, <2>2 DEF RecoverSchedule, EventsBacked, MaySend
<1>17. ASSUME StartServing PROVE EventsBacked'
  BY <1>17 DEF StartServing, EventsBacked, MaySend
<1>18. ASSUME UNCHANGED nozomiVars PROVE EventsBacked'
  BY <1>18 DEF nozomiVars, EventsBacked, MaySend
<1>. QED
  BY <1>1, <1>2, <1>3, <1>4, <1>5, <1>6, <1>7, <1>8, <1>9, <1>10, <1>11,
     <1>12, <1>13, <1>14, <1>15, <1>16, <1>17, <1>18
     DEF NozomiNext, ThreadStep, Recovery
LEMMA StepThreads ==
    ASSUME NozomiConstantsOK, NozomiInv, NozomiTypeOK', [NozomiNext]_nozomiVars
    PROVE  \A u \in Threads : SendInv(u)'
<1>. USE DEF NozomiInv, dbVars, threadVars, modeVars
<1>1. ASSUME NEW i \in Items, NEW url \in SignedUrls, StartExecution(i, url) PROVE \A u \in Threads : SendInv(u)'
  <2>1. \A u \in Threads : u # i => pc'[u] = pc[u]
    BY <1>1 DEF StartExecution, NozomiTypeOK
  <2>2. pc'[i] \in {"open", pc[i]} /\ (pc'[i] = "open" /\ pc[i] # "open" => event[i] = "processing")
    BY <1>1 DEF StartExecution, TaskInv, NozomiTypeOK, Threads
  <2>3. item[i] = i /\ record'[i] # "absent"
    BY <1>1 DEF StartExecution, Reserve, TaskInv, NozomiTypeOK, RecordTypeOK
  <2>4. SendInv(i)'
    <3>1. CASE pc'[i] = pc[i]
      BY <1>1, <3>1, MaySendKept DEF StartExecution, SendInv, Threads, NozomiTypeOK
    <3>2. CASE pc'[i] = "open" /\ pc[i] # "open"
      BY <1>1, <2>2, <2>3, <3>2 DEF StartExecution, SendInv, MaySend
    <3>. QED
      BY <2>2, <3>1, <3>2
  <2>5. ASSUME NEW u \in Threads, u # i PROVE SendInv(u)'
    BY <1>1, <2>1, <2>5, MaySendKept DEF StartExecution, SendInv, NozomiTypeOK
  <2>. QED
    BY <2>4, <2>5
<1>2. ASSUME NEW t \in Threads, OpenDelivery(t) PROVE \A u \in Threads : SendInv(u)'
  <2>1. /\ pc'[t] \in SendPC => item[t] \in Items /\ MaySend(item[t], event[t])
        /\ pc'[t] \in {"send", "acked", "nacked"} => tries'[t] < MaxTries
    BY <1>2 DEF OpenDelivery, SendInv, SendPC, NozomiTypeOK, NozomiConstantsOK
  <2>2. \A u \in Threads : u # t => pc'[u] = pc[u] /\ tries'[u] = tries[u]
    BY <1>2 DEF OpenDelivery, NozomiTypeOK
  <2>. QED
    BY <1>2, <2>1, <2>2 DEF OpenDelivery, SendInv, MaySend
<1>3. ASSUME NEW t \in Threads, SendSucceeds(t) PROVE \A u \in Threads : SendInv(u)'
  <2>1. /\ pc'[t] \in SendPC => item[t] \in Items /\ MaySend(item[t], event[t])
        /\ pc'[t] \in {"send", "acked", "nacked"} => tries'[t] < MaxTries
    BY <1>3 DEF SendSucceeds, SendInv, SendPC, NozomiTypeOK, NozomiConstantsOK
  <2>2. \A u \in Threads : u # t => pc'[u] = pc[u] /\ tries'[u] = tries[u]
    BY <1>3 DEF SendSucceeds, NozomiTypeOK
  <2>. QED
    BY <1>3, <2>1, <2>2 DEF SendSucceeds, SendInv, MaySend
<1>4. ASSUME NEW t \in Threads, SendFails(t) PROVE \A u \in Threads : SendInv(u)'
  <2>1. /\ pc'[t] \in SendPC => item[t] \in Items /\ MaySend(item[t], event[t])
        /\ pc'[t] \in {"send", "acked", "nacked"} => tries'[t] < MaxTries
    BY <1>4 DEF SendFails, SendInv, SendPC, NozomiTypeOK, NozomiConstantsOK
  <2>2. \A u \in Threads : u # t => pc'[u] = pc[u] /\ tries'[u] = tries[u]
    BY <1>4 DEF SendFails, NozomiTypeOK
  <2>. QED
    BY <1>4, <2>1, <2>2 DEF SendFails, SendInv, MaySend
<1>5. ASSUME NEW t \in Threads, MarkDelivered(t) PROVE \A u \in Threads : SendInv(u)'
  <2>1. /\ pc'[t] \in SendPC => item[t] \in Items /\ MaySend(item[t], event[t])
        /\ pc'[t] \in {"send", "acked", "nacked"} => tries'[t] < MaxTries
    BY <1>5 DEF MarkDelivered, SendInv, SendPC, NozomiTypeOK, NozomiConstantsOK, AfterSend
  <2>2. \A u \in Threads : u # t => pc'[u] = pc[u] /\ tries'[u] = tries[u]
    BY <1>5 DEF MarkDelivered, NozomiTypeOK
  <2>. QED
    BY <1>5, <2>1, <2>2 DEF MarkDelivered, SendInv, MaySend
<1>6. ASSUME NEW t \in Threads, MarkFailed(t) PROVE \A u \in Threads : SendInv(u)'
  <2>1. /\ pc'[t] \in SendPC => item[t] \in Items /\ MaySend(item[t], event[t])
        /\ pc'[t] \in {"send", "acked", "nacked"} => tries'[t] < MaxTries
    BY <1>6 DEF MarkFailed, SendInv, SendPC, NozomiTypeOK, NozomiConstantsOK, SendsAgain
  <2>2. \A u \in Threads : u # t => pc'[u] = pc[u] /\ tries'[u] = tries[u]
    BY <1>6 DEF MarkFailed, NozomiTypeOK
  <2>. QED
    BY <1>6, <2>1, <2>2 DEF MarkFailed, SendInv, MaySend
<1>7. ASSUME NEW t \in Threads, Park(t) PROVE \A u \in Threads : SendInv(u)'
  <2>1. /\ pc'[t] \in SendPC => item[t] \in Items /\ MaySend(item[t], event[t])
        /\ pc'[t] \in {"send", "acked", "nacked"} => tries'[t] < MaxTries
    BY <1>7 DEF Park, SendInv, SendPC, NozomiTypeOK, NozomiConstantsOK, AfterSend
  <2>2. \A u \in Threads : u # t => pc'[u] = pc[u] /\ tries'[u] = tries[u]
    BY <1>7 DEF Park, NozomiTypeOK
  <2>. QED
    BY <1>7, <2>1, <2>2 DEF Park, SendInv, MaySend
<1>8. ASSUME NEW i \in Items, RunExecution(i) PROVE \A u \in Threads : SendInv(u)'
  <2>1. PICK v \in Verdicts : record' = [record EXCEPT ![i] = v] /\ event' = [event EXCEPT ![i] = v]
    BY <1>8 DEF RunExecution
  <2>2. item[i] = i /\ pc'[i] = "open" /\ event'[i] = v /\ record'[i] = v
    BY <1>8, <2>1 DEF RunExecution, TaskInv, NozomiTypeOK, RecordTypeOK, Threads
  <2>3. SendInv(i)'
    BY <1>8, <2>2 DEF RunExecution, SendInv, MaySend, Verdicts
  <2>4. ASSUME NEW u \in Threads, u # i PROVE SendInv(u)'
    <3>1. pc'[u] = pc[u] /\ event'[u] = event[u]
      BY <1>8, <2>1, <2>4 DEF RunExecution, NozomiTypeOK
    <3>. QED
      BY <1>8, <3>1, MaySendKept DEF RunExecution, SendInv, NozomiTypeOK
  <2>. QED
    BY <2>3, <2>4
<1>9. ASSUME NEW i \in Items, NEW e \in EventStatus, BackoffElapses(i, e) PROVE \A u \in Threads : SendInv(u)'
  BY <1>9 DEF BackoffElapses, SendInv, SendPC, MaySend
<1>10. ASSUME PollRetries PROVE \A u \in Threads : SendInv(u)'
  <2>1. \A u \in Threads : pc'[u] = pc[u] \/ pc'[u] \in {"guard", "idle"}
    BY <1>10 DEF PollRetries, NozomiTypeOK
  <2>. QED
    BY <1>10, <2>1 DEF PollRetries, SendInv, SendPC, MaySend
<1>11. ASSUME RetryNext PROVE \A u \in Threads : SendInv(u)'
  <2>1. PICK d \in queue :
            IF StillRetrying(d[1], d[2])
            THEN /\ pc' = [pc EXCEPT ![RetryThread] = "open"]
                 /\ item' = [item EXCEPT ![RetryThread] = d[1]]
                 /\ event' = [event EXCEPT ![RetryThread] = d[2]]
            ELSE UNCHANGED <<pc, item, event>>
    BY <1>11 DEF RetryNext
  <2>2. d[1] \in Items /\ MaySend(d[1], d[2])
    BY DEF EventsBacked, NozomiTypeOK
  <2>3. ASSUME NEW u \in Threads, u # RetryThread PROVE SendInv(u)'
    <3>1. pc'[u] = pc[u] /\ item'[u] = item[u] /\ event'[u] = event[u]
      BY <2>1, <2>3 DEF NozomiTypeOK
    <3>. QED
      BY <1>11, <3>1 DEF RetryNext, SendInv, MaySend
  <2>4. SendInv(RetryThread)'
    <3>1. CASE StillRetrying(d[1], d[2])
      <4>1. pc'[RetryThread] = "open" /\ item'[RetryThread] = d[1] /\ event'[RetryThread] = d[2]
        BY <2>1, <3>1 DEF NozomiTypeOK, Threads
      <4>. QED
        BY <1>11, <4>1, <2>2 DEF RetryNext, SendInv, MaySend
    <3>2. CASE ~StillRetrying(d[1], d[2])
      BY <1>11, <2>1, <3>2 DEF RetryNext, SendInv, MaySend, Threads
    <3>. QED
      BY <3>1, <3>2
  <2>. QED
    BY <2>3, <2>4
<1>12. ASSUME EndRetries PROVE \A u \in Threads : SendInv(u)'
  <2>1. \A u \in Threads : pc'[u] = pc[u] \/ pc'[u] \in {"guard", "idle"}
    BY <1>12 DEF EndRetries, NozomiTypeOK
  <2>. QED
    BY <1>12, <2>1 DEF EndRetries, SendInv, SendPC, MaySend
<1>13. ASSUME Crash PROVE \A u \in Threads : SendInv(u)'
  BY <1>13 DEF Crash, SendInv, SendPC, MaySend
<1>14. ASSUME RecoverRecord PROVE \A u \in Threads : SendInv(u)'
  BY <1>14 DEF RecoverRecord, RecoveryInv, SendInv, SendPC
<1>15. ASSUME RecoverDelivery PROVE \A u \in Threads : SendInv(u)'
  BY <1>15 DEF RecoverDelivery, SendInv, SendPC, MaySend
<1>16. ASSUME RecoverSchedule PROVE \A u \in Threads : SendInv(u)'
  BY <1>16 DEF RecoverSchedule, SendInv, SendPC, MaySend
<1>17. ASSUME StartServing PROVE \A u \in Threads : SendInv(u)'
  BY <1>17 DEF StartServing, SendInv, SendPC, MaySend
<1>18. ASSUME UNCHANGED nozomiVars PROVE \A u \in Threads : SendInv(u)'
  BY <1>18 DEF nozomiVars, SendInv, SendPC, MaySend
<1>. QED
  BY <1>1, <1>2, <1>3, <1>4, <1>5, <1>6, <1>7, <1>8, <1>9, <1>10, <1>11,
     <1>12, <1>13, <1>14, <1>15, <1>16, <1>17, <1>18
     DEF NozomiNext, ThreadStep, Recovery

LEMMA StepRecovery ==
    ASSUME NozomiConstantsOK, NozomiInv, NozomiTypeOK', [NozomiNext]_nozomiVars
    PROVE  RecoveryInv' /\ pc'[RetryThread] # "run"
<1>. USE DEF NozomiInv, dbVars, threadVars, modeVars
<1>1. ASSUME NEW i \in Items, NEW url \in SignedUrls, StartExecution(i, url) PROVE RecoveryInv' /\ pc'[RetryThread] # "run"
  BY <1>1 DEF StartExecution, RecoveryInv, NozomiConstantsOK, NozomiTypeOK, Threads
<1>2. ASSUME NEW t \in Threads, OpenDelivery(t) PROVE RecoveryInv' /\ pc'[RetryThread] # "run"
  <2>1. mode = "up"
    BY <1>2 DEF OpenDelivery, RecoveryInv
  <2>2. pc'[RetryThread] # "run"
    BY <1>2 DEF OpenDelivery, NozomiTypeOK, Threads
  <2>. QED
    BY <1>2, <2>1, <2>2 DEF OpenDelivery, RecoveryInv
<1>3. ASSUME NEW t \in Threads, SendSucceeds(t) PROVE RecoveryInv' /\ pc'[RetryThread] # "run"
  <2>1. mode = "up"
    BY <1>3 DEF SendSucceeds, RecoveryInv
  <2>2. pc'[RetryThread] # "run"
    BY <1>3 DEF SendSucceeds, NozomiTypeOK, Threads
  <2>. QED
    BY <1>3, <2>1, <2>2 DEF SendSucceeds, RecoveryInv
<1>4. ASSUME NEW t \in Threads, SendFails(t) PROVE RecoveryInv' /\ pc'[RetryThread] # "run"
  <2>1. mode = "up"
    BY <1>4 DEF SendFails, RecoveryInv
  <2>2. pc'[RetryThread] # "run"
    BY <1>4 DEF SendFails, NozomiTypeOK, Threads
  <2>. QED
    BY <1>4, <2>1, <2>2 DEF SendFails, RecoveryInv
<1>5. ASSUME NEW t \in Threads, MarkDelivered(t) PROVE RecoveryInv' /\ pc'[RetryThread] # "run"
  <2>1. mode = "up"
    BY <1>5 DEF MarkDelivered, RecoveryInv
  <2>2. pc'[RetryThread] # "run"
    BY <1>5 DEF MarkDelivered, NozomiTypeOK, Threads, AfterSend
  <2>. QED
    BY <1>5, <2>1, <2>2 DEF MarkDelivered, RecoveryInv
<1>6. ASSUME NEW t \in Threads, MarkFailed(t) PROVE RecoveryInv' /\ pc'[RetryThread] # "run"
  <2>1. mode = "up"
    BY <1>6 DEF MarkFailed, RecoveryInv
  <2>2. pc'[RetryThread] # "run"
    BY <1>6 DEF MarkFailed, NozomiTypeOK, Threads
  <2>. QED
    BY <1>6, <2>1, <2>2 DEF MarkFailed, RecoveryInv
<1>7. ASSUME NEW t \in Threads, Park(t) PROVE RecoveryInv' /\ pc'[RetryThread] # "run"
  <2>1. mode = "up"
    BY <1>7 DEF Park, RecoveryInv
  <2>2. pc'[RetryThread] # "run"
    BY <1>7 DEF Park, NozomiTypeOK, Threads, AfterSend
  <2>. QED
    BY <1>7, <2>1, <2>2 DEF Park, RecoveryInv
<1>8. ASSUME NEW i \in Items, RunExecution(i) PROVE RecoveryInv' /\ pc'[RetryThread] # "run"
  <2>1. mode = "up"
    BY <1>8 DEF RunExecution, RecoveryInv, Threads
  <2>. QED
    BY <1>8, <2>1 DEF RunExecution, RecoveryInv, NozomiConstantsOK, NozomiTypeOK, Threads
<1>9. ASSUME NEW i \in Items, NEW e \in EventStatus, BackoffElapses(i, e) PROVE RecoveryInv' /\ pc'[RetryThread] # "run"
  BY <1>9 DEF BackoffElapses, RecoveryInv, NozomiTypeOK, Threads
<1>10. ASSUME PollRetries PROVE RecoveryInv' /\ pc'[RetryThread] # "run"
  <2>1. mode = "up"
    BY <1>10 DEF PollRetries, RecoveryInv, Threads
  <2>. QED
    BY <1>10, <2>1 DEF PollRetries, RecoveryInv, NozomiTypeOK, Threads
<1>11. ASSUME RetryNext PROVE RecoveryInv' /\ pc'[RetryThread] # "run"
  <2>1. mode = "up"
    BY <1>11 DEF RetryNext, RecoveryInv, Threads
  <2>. QED
    BY <1>11, <2>1 DEF RetryNext, RecoveryInv, NozomiTypeOK, Threads
<1>12. ASSUME EndRetries PROVE RecoveryInv' /\ pc'[RetryThread] # "run"
  <2>1. mode = "up"
    BY <1>12 DEF EndRetries, RecoveryInv, Threads
  <2>. QED
    BY <1>12, <2>1 DEF EndRetries, RecoveryInv, NozomiTypeOK, Threads
<1>13. ASSUME Crash PROVE RecoveryInv' /\ pc'[RetryThread] # "run"
  BY <1>13 DEF Crash, RecoveryInv, NozomiTypeOK, Threads
<1>14. ASSUME RecoverRecord PROVE RecoveryInv' /\ pc'[RetryThread] # "run"
  BY <1>14 DEF RecoverRecord, RecoveryInv, NozomiTypeOK, RecordTypeOK, Threads
<1>15. ASSUME RecoverDelivery PROVE RecoveryInv' /\ pc'[RetryThread] # "run"
  BY <1>15 DEF RecoverDelivery, RecoveryInv, NozomiTypeOK, Threads
<1>16. ASSUME RecoverSchedule PROVE RecoveryInv' /\ pc'[RetryThread] # "run"
  BY <1>16 DEF RecoverSchedule, RecoveryInv, NozomiTypeOK, Threads
<1>17. ASSUME StartServing PROVE RecoveryInv' /\ pc'[RetryThread] # "run"
  BY <1>17 DEF StartServing, RecoveryInv, NozomiTypeOK, Threads
<1>18. ASSUME UNCHANGED nozomiVars PROVE RecoveryInv' /\ pc'[RetryThread] # "run"
  BY <1>18 DEF nozomiVars, RecoveryInv, NozomiTypeOK, Threads
<1>. QED
  BY <1>1, <1>2, <1>3, <1>4, <1>5, <1>6, <1>7, <1>8, <1>9, <1>10, <1>11,
     <1>12, <1>13, <1>14, <1>15, <1>16, <1>17, <1>18
     DEF NozomiNext, ThreadStep, Recovery
LEMMA StepTasks ==
    ASSUME NozomiConstantsOK, NozomiInv, NozomiTypeOK', [NozomiNext]_nozomiVars
    PROVE  \A j \in Items : TaskInv(j)'
<1>. USE DEF NozomiInv, dbVars, threadVars, modeVars
<1>1. ASSUME NEW i \in Items, NEW url \in SignedUrls, StartExecution(i, url) PROVE \A j \in Items : TaskInv(j)'
  <2>1. TaskInv(i)'
    <3>1. record'[i] # "absent" /\ (record[i] # "absent" => record'[i] = record[i])
      BY <1>1 DEF StartExecution, Reserve, NozomiTypeOK, RecordTypeOK
    <3>2. CASE record[i] = "absent"
      <4>1. record'[i] = "processing" /\ pc'[i] = "open"
        BY <1>1, <3>2 DEF StartExecution, Reserve, NozomiTypeOK, RecordTypeOK, Threads
      <4>. QED
        BY <1>1, <4>1 DEF StartExecution, TaskInv, SendPC
    <3>3. CASE record[i] # "absent"
      BY <1>1, <3>1, <3>3 DEF StartExecution, TaskInv
    <3>. QED
      BY <3>2, <3>3
  <2>2. ASSUME NEW j \in Items, j # i PROVE TaskInv(j)'
    <3>1. record'[j] = record[j] /\ pc'[j] = pc[j]
      BY <1>1, <2>2 DEF StartExecution, Reserve, NozomiTypeOK, RecordTypeOK, Threads
    <3>. QED
      BY <1>1, <3>1 DEF StartExecution, TaskInv
  <2>. QED
    BY <2>1, <2>2
<1>2. ASSUME NEW t \in Threads, OpenDelivery(t) PROVE \A j \in Items : TaskInv(j)'
  <2>1. pc[t] \in SendPC /\ pc'[t] \in SendPC
    BY <1>2 DEF OpenDelivery, SendPC, NozomiTypeOK
  <2>2. ASSUME NEW j \in Items PROVE TaskInv(j)'
    <3>1. pc'[j] = pc[j] \/ (j = t /\ pc'[j] \in SendPC /\ pc[j] \in SendPC)
      BY <1>2, <2>1 DEF OpenDelivery, NozomiTypeOK, Threads
    <3>. QED
      BY <1>2, <3>1 DEF OpenDelivery, TaskInv, SendPC
  <2>. QED
    BY <2>2
<1>3. ASSUME NEW t \in Threads, SendSucceeds(t) PROVE \A j \in Items : TaskInv(j)'
  <2>1. pc[t] \in SendPC /\ pc'[t] \in SendPC
    BY <1>3 DEF SendSucceeds, SendPC, NozomiTypeOK
  <2>2. ASSUME NEW j \in Items PROVE TaskInv(j)'
    <3>1. pc'[j] = pc[j] \/ (j = t /\ pc'[j] \in SendPC /\ pc[j] \in SendPC)
      BY <1>3, <2>1 DEF SendSucceeds, NozomiTypeOK, Threads
    <3>. QED
      BY <1>3, <3>1 DEF SendSucceeds, TaskInv, SendPC
  <2>. QED
    BY <2>2
<1>4. ASSUME NEW t \in Threads, SendFails(t) PROVE \A j \in Items : TaskInv(j)'
  <2>1. pc[t] \in SendPC /\ pc'[t] \in SendPC
    BY <1>4 DEF SendFails, SendPC, NozomiTypeOK
  <2>2. ASSUME NEW j \in Items PROVE TaskInv(j)'
    <3>1. pc'[j] = pc[j] \/ (j = t /\ pc'[j] \in SendPC /\ pc[j] \in SendPC)
      BY <1>4, <2>1 DEF SendFails, NozomiTypeOK, Threads
    <3>. QED
      BY <1>4, <3>1 DEF SendFails, TaskInv, SendPC
  <2>. QED
    BY <2>2
<1>5. ASSUME NEW t \in Threads, MarkDelivered(t) PROVE \A j \in Items : TaskInv(j)'
  <2>1. ASSUME NEW j \in Items PROVE TaskInv(j)'
    <3>1. CASE j = t
      <4>1. pc[t] \in SendPC /\ pc'[t] = IF event[t] = "processing" THEN "run" ELSE "idle"
        BY <1>5, <3>1 DEF MarkDelivered, AfterSend, NozomiTypeOK, NozomiConstantsOK, SendPC
      <4>2. record[t] # "absent" /\ (event[t] # "processing" => record[t] = event[t])
        BY <3>1, <4>1 DEF SendInv, TaskInv, SendPC, MaySend
      <4>3. event[t] # "processing" => record[t] # "processing"
        BY <4>2
      <4>. QED
        BY <1>5, <3>1, <4>1, <4>2, <4>3 DEF MarkDelivered, TaskInv, SendPC
    <3>2. CASE j # t
      <4>1. pc'[j] = pc[j]
        BY <1>5, <3>2 DEF MarkDelivered, NozomiTypeOK, Threads
      <4>. QED
        BY <1>5, <4>1 DEF MarkDelivered, TaskInv
    <3>. QED
      BY <3>1, <3>2
  <2>. QED
    BY <2>1
<1>6. ASSUME NEW t \in Threads, MarkFailed(t) PROVE \A j \in Items : TaskInv(j)'
  <2>1. pc[t] \in SendPC /\ pc'[t] \in SendPC
    BY <1>6 DEF MarkFailed, SendPC, NozomiTypeOK
  <2>2. ASSUME NEW j \in Items PROVE TaskInv(j)'
    <3>1. pc'[j] = pc[j] \/ (j = t /\ pc'[j] \in SendPC /\ pc[j] \in SendPC)
      BY <1>6, <2>1 DEF MarkFailed, NozomiTypeOK, Threads
    <3>. QED
      BY <1>6, <3>1 DEF MarkFailed, TaskInv, SendPC
  <2>. QED
    BY <2>2
<1>7. ASSUME NEW t \in Threads, Park(t) PROVE \A j \in Items : TaskInv(j)'
  <2>1. ASSUME NEW j \in Items PROVE TaskInv(j)'
    <3>1. CASE j = t
      <4>1. pc[t] \in SendPC /\ pc'[t] = IF event[t] = "processing" THEN "run" ELSE "idle"
        BY <1>7, <3>1 DEF Park, AfterSend, NozomiTypeOK, NozomiConstantsOK, SendPC
      <4>2. record[t] # "absent" /\ (event[t] # "processing" => record[t] = event[t])
        BY <3>1, <4>1 DEF SendInv, TaskInv, SendPC, MaySend
      <4>3. event[t] # "processing" => record[t] # "processing"
        BY <4>2
      <4>. QED
        BY <1>7, <3>1, <4>1, <4>2, <4>3 DEF Park, TaskInv, SendPC
    <3>2. CASE j # t
      <4>1. pc'[j] = pc[j]
        BY <1>7, <3>2 DEF Park, NozomiTypeOK, Threads
      <4>. QED
        BY <1>7, <4>1 DEF Park, TaskInv
    <3>. QED
      BY <3>1, <3>2
  <2>. QED
    BY <2>1
<1>8. ASSUME NEW i \in Items, RunExecution(i) PROVE \A j \in Items : TaskInv(j)'
  <2>1. PICK v \in Verdicts : record' = [record EXCEPT ![i] = v] /\ event' = [event EXCEPT ![i] = v]
    BY <1>8 DEF RunExecution
  <2>2. record'[i] = v /\ event'[i] = v /\ pc'[i] = "open"
    BY <1>8, <2>1 DEF RunExecution, NozomiTypeOK, RecordTypeOK, Threads
  <2>3. TaskInv(i)'
    BY <1>8, <2>2 DEF RunExecution, TaskInv, Verdicts
  <2>4. ASSUME NEW j \in Items, j # i PROVE TaskInv(j)'
    <3>1. record'[j] = record[j] /\ event'[j] = event[j] /\ pc'[j] = pc[j]
      BY <1>8, <2>1, <2>4 DEF RunExecution, NozomiTypeOK, RecordTypeOK, Threads
    <3>. QED
      BY <1>8, <3>1 DEF RunExecution, TaskInv
  <2>. QED
    BY <2>3, <2>4
<1>9. ASSUME NEW i \in Items, NEW e \in EventStatus, BackoffElapses(i, e) PROVE \A j \in Items : TaskInv(j)'
  BY <1>9 DEF BackoffElapses, TaskInv
<1>10. ASSUME PollRetries PROVE \A j \in Items : TaskInv(j)'
  <2>1. \A j \in Items : j # RetryThread
    BY DEF NozomiConstantsOK
  <2>2. \A j \in Items : pc'[j] = pc[j] /\ item'[j] = item[j] /\ event'[j] = event[j]
    BY <1>10, <2>1 DEF PollRetries, NozomiTypeOK, Threads
  <2>. QED
    BY <1>10, <2>2 DEF PollRetries, TaskInv
<1>11. ASSUME RetryNext PROVE \A j \in Items : TaskInv(j)'
  <2>1. \A j \in Items : j # RetryThread
    BY DEF NozomiConstantsOK
  <2>2. \A j \in Items : pc'[j] = pc[j] /\ item'[j] = item[j] /\ event'[j] = event[j]
    BY <1>11, <2>1 DEF RetryNext, NozomiTypeOK, Threads
  <2>. QED
    BY <1>11, <2>2 DEF RetryNext, TaskInv
<1>12. ASSUME EndRetries PROVE \A j \in Items : TaskInv(j)'
  <2>1. \A j \in Items : j # RetryThread
    BY DEF NozomiConstantsOK
  <2>2. \A j \in Items : pc'[j] = pc[j] /\ item'[j] = item[j] /\ event'[j] = event[j]
    BY <1>12, <2>1 DEF EndRetries, NozomiTypeOK, Threads
  <2>. QED
    BY <1>12, <2>2 DEF EndRetries, TaskInv
<1>13. ASSUME Crash PROVE \A j \in Items : TaskInv(j)'
  <2>1. \A j \in Items : pc'[j] = "idle" /\ item'[j] = j /\ event'[j] = "processing"
    BY <1>13 DEF Crash, Threads
  <2>. QED
    BY <1>13, <2>1 DEF Crash, TaskInv, SendPC
<1>14. ASSUME RecoverRecord PROVE \A j \in Items : TaskInv(j)'
  <2>1. PICK i \in Items : Interrupted(i) /\ record' = [record EXCEPT ![i] = "failed"]
    BY <1>14 DEF RecoverRecord
  <2>2. ASSUME NEW j \in Items
        PROVE  record'[j] = record[j] \/ (record[j] = "processing" /\ record'[j] = "failed")
    <3>1. record[i] = "processing" /\ record'[i] = "failed"
      BY <2>1 DEF Interrupted, NozomiTypeOK, RecordTypeOK
    <3>2. j # i => record'[j] = record[j]
      BY <2>1 DEF NozomiTypeOK, RecordTypeOK
    <3>. QED
      BY <3>1, <3>2
  <2>3. \A j \in Items : pc[j] = "idle"
    BY <1>14 DEF RecoverRecord, RecoveryInv, Threads
  <2>. QED
    BY <1>14, <2>2, <2>3 DEF RecoverRecord, TaskInv, SendPC
<1>15. ASSUME RecoverDelivery PROVE \A j \in Items : TaskInv(j)'
  BY <1>15 DEF RecoverDelivery, TaskInv
<1>16. ASSUME RecoverSchedule PROVE \A j \in Items : TaskInv(j)'
  BY <1>16 DEF RecoverSchedule, TaskInv
<1>17. ASSUME StartServing PROVE \A j \in Items : TaskInv(j)'
  BY <1>17 DEF StartServing, Interrupted, TaskInv
<1>18. ASSUME UNCHANGED nozomiVars PROVE \A j \in Items : TaskInv(j)'
  BY <1>18 DEF nozomiVars, TaskInv
<1>. QED
  BY <1>1, <1>2, <1>3, <1>4, <1>5, <1>6, <1>7, <1>8, <1>9, <1>10, <1>11,
     <1>12, <1>13, <1>14, <1>15, <1>16, <1>17, <1>18
     DEF NozomiNext, ThreadStep, Recovery

LEMMA NozomiInvHolds == NozomiConstantsOK /\ NozomiSpec => []NozomiInv
<1>1. NozomiConstantsOK /\ NozomiInv /\ [NozomiNext]_nozomiVars => NozomiInv'
  BY StepNozomiType, StepThreads, StepTasks, StepEvents, StepRecovery DEF NozomiInv
<1>. QED
  BY <1>1, InitNozomiInv, NozomiConstantsOK, PTL DEF NozomiSpec

(* Every variable of the service keeps its type; in particular no          *)
(* send_callback_with_retry sends more than MaxTries times.                *)
THEOREM NozomiTypeCorrect == NozomiConstantsOK /\ NozomiSpec => []NozomiTypeOK
<1>1. NozomiInv => NozomiTypeOK
  BY DEF NozomiInv
<1>. QED
  BY <1>1, NozomiInvHolds, PTL

(* Across crashes and retries, an event is sent or was received only if    *)
(* the record agrees with it.                                              *)
THEOREM CallbacksAgree == NozomiConstantsOK /\ NozomiSpec => []CallbacksWithinContract
<1>1. NozomiInv => CallbacksWithinContract
  BY DEF NozomiInv, SendInv, SendPC, EventsBacked, CallbacksWithinContract
<1>. QED
  BY <1>1, NozomiInvHolds, PTL

(* No record is left processing without a task: a restart fails it.        *)
THEOREM ExecutionsHaveTasks == NozomiConstantsOK /\ NozomiSpec => []NoOrphanExecution
<1>1. NozomiInv => NoOrphanExecution
  BY DEF NozomiInv, TaskInv, NoOrphanExecution
<1>. QED
  BY <1>1, NozomiInvHolds, PTL

(* The service implements the contract Kaede's model is written against:   *)
(* executions are reserved once and end once, restarts included.           *)
THEOREM ImplementsContract == NozomiConstantsOK /\ NozomiSpec => ContractSpec
<1>1. NozomiInit => NoExecutions
  BY DEF NozomiInit
<1>2. ASSUME NozomiConstantsOK, NozomiInv, NozomiInv', [NozomiNext]_nozomiVars
      PROVE  [ContractNext]_record
  <2>1. record' = record \/ \E j \in Items : Reserve(j) \/ \E v \in Verdicts : Finish(j, v)
    BY <1>2, RecordStep DEF NozomiInv
  <2>. QED
    BY <2>1 DEF ContractNext
<1>. QED
  BY <1>1, <1>2, NozomiInvHolds, NozomiConstantsOK, PTL DEF NozomiSpec, ContractSpec
-----------------------------------------------------------------------------
(* No callback of an older state after the verdict's: a row that is sent   *)
(* has been opened, and opening a verdict's row supersedes the retries of  *)
(* the processing callback.  The lock keeps others from opening a row      *)
(* while the retry thread sends.                                           *)
NoVerdictRow(i) == \A v \in Verdicts : delivery[i][v] = "none"

RowsSuperseded == \A i \in Items : delivery[i]["processing"] = "retrying" => NoVerdictRow(i)

RetriesFresh ==
    pc[RetryThread] \in SendPC /\ event[RetryThread] = "processing" => NoVerdictRow(item[RetryThread])

RowsOpened ==
    /\ \A t \in Threads : pc[t] \in SendPC \ {"open"} => delivery[item[t]][event[t]] # "none"
    /\ mode = "park" => delivery[recovering]["failed"] # "none"

FreshInv == RowsSuperseded /\ RetriesFresh /\ RowsOpened

LEMMA ProcessingHasNoVerdict ==
    ASSUME NozomiInv, NEW i \in Items, record[i] = "processing"
    PROVE  NoVerdictRow(i)
  BY DEF NozomiInv, EventsBacked, MaySend, NoVerdictRow, Verdicts, EventStatus

LEMMA InitFresh == NozomiConstantsOK /\ NozomiInit => FreshInv
<1>. SUFFICES ASSUME NozomiConstantsOK, NozomiInit PROVE FreshInv
  OBVIOUS
<1>1. RowsSuperseded
  BY DEF NozomiInit, RowsSuperseded, EventStatus
<1>2. \A t \in Threads : pc[t] \notin SendPC
  BY DEF NozomiInit, ThreadsIdle, SendPC
<1>3. RetryThread \in Threads /\ mode # "park"
  BY DEF Threads, NozomiInit
<1>. QED
  BY <1>1, <1>2, <1>3 DEF FreshInv, RetriesFresh, RowsOpened

LEMMA OpenedRow ==
    ASSUME NozomiTypeOK, NEW i \in Items, NEW e \in EventStatus, NEW row, row = DeliveryAfterOpen(i, e)
    PROVE  /\ row[e] # "none"
           /\ \A d \in EventStatus : d # e => (row[d] = "none" <=> delivery[i][d] = "none")
           /\ row["processing"] = "retrying" => e = "processing" /\ delivery[i]["processing"] = "retrying"
<1>. DEFINE superseded == [d \in EventStatus |->
               IF e # "processing" /\ delivery[i][d] = "retrying" THEN "superseded" ELSE delivery[i][d]]
<1>1. row = [superseded EXCEPT ![e] = IF @ = "none" THEN "pending" ELSE @]
  BY DEF DeliveryAfterOpen
<1>2. \A d \in EventStatus : row[d] = IF d = e /\ superseded[d] = "none" THEN "pending" ELSE superseded[d]
  BY <1>1
<1>3. \A d \in EventStatus :
        superseded[d] = IF e # "processing" /\ delivery[i][d] = "retrying" THEN "superseded" ELSE delivery[i][d]
  OBVIOUS
<1>. HIDE DEF superseded
<1>. QED
  BY <1>2, <1>3 DEF EventStatus

(* A thread writes the row of the callback it has in hand, which is there. *)
LEMMA WrittenRow ==
    ASSUME NozomiConstantsOK, NozomiInv, FreshInv, NEW t \in Threads, pc[t] \in SendPC \ {"open"},
           NEW status \in DeliveryStatus \ {"none"}, delivery' = [delivery EXCEPT ![item[t]][event[t]] = status]
    PROVE  /\ RowsSuperseded'
           /\ \A i \in Items, e \in EventStatus : delivery'[i][e] = "none" <=> delivery[i][e] = "none"
<1>1. item[t] \in Items /\ event[t] \in EventStatus /\ delivery \in [Items -> [EventStatus -> DeliveryStatus]]
  BY DEF NozomiInv, SendInv, NozomiTypeOK
<1>2. \A i \in Items, e \in EventStatus :
        delivery'[i][e] = IF i = item[t] /\ e = event[t] THEN status ELSE delivery[i][e]
  BY <1>1
<1>3. \A i \in Items, e \in EventStatus : delivery'[i][e] = "none" <=> delivery[i][e] = "none"
  BY <1>1, <1>2 DEF FreshInv, RowsOpened
<1>4. ASSUME event[t] = "processing" PROVE NoVerdictRow(item[t])
  <2>1. CASE t = RetryThread
    BY <1>4, <2>1 DEF FreshInv, RetriesFresh
  <2>2. CASE t # RetryThread
    <3>1. t \in Items /\ item[t] = t /\ record[t] = "processing"
      BY <1>4, <2>2 DEF Threads, NozomiInv, TaskInv
    <3>. QED
      BY <3>1, ProcessingHasNoVerdict
  <2>. QED
    BY <2>1, <2>2
<1>5. ASSUME NEW i \in Items, delivery'[i]["processing"] = "retrying" PROVE NoVerdictRow(i)
  BY <1>1, <1>2, <1>4, <1>5 DEF FreshInv, RowsSuperseded, EventStatus
<1>6. \A i \in Items : NoVerdictRow(i) => NoVerdictRow(i)'
  BY <1>3 DEF NoVerdictRow, EventStatus
<1>. QED
  BY <1>3, <1>5, <1>6 DEF RowsSuperseded

LEMMA OpenFresh ==
    ASSUME NozomiConstantsOK, NozomiInv, FreshInv, NEW t \in Threads, OpenDelivery(t)
    PROVE  FreshInv'
<1>1. PICK i \in Items, e \in EventStatus :
          /\ item[t] = i /\ event[t] = e
          /\ delivery' = [delivery EXCEPT ![i] = DeliveryAfterOpen(i, e)]
  BY DEF OpenDelivery, NozomiInv, SendInv, SendPC, NozomiTypeOK
<1>2. /\ pc[t] = "open" /\ LockFreeFor(t) /\ UNCHANGED <<item, event, mode, recovering>>
      /\ \A u \in Threads \ {t} : pc'[u] = pc[u]
  BY DEF OpenDelivery, modeVars, NozomiInv, NozomiTypeOK
<1>3. delivery \in [Items -> [EventStatus -> DeliveryStatus]]
  BY DEF NozomiInv, NozomiTypeOK
<1>4. /\ \A j \in Items \ {i} : delivery'[j] = delivery[j]
      /\ delivery'[i][e] # "none"
      /\ \A d \in EventStatus : d # e => (delivery'[i][d] = "none" <=> delivery[i][d] = "none")
      /\ delivery'[i]["processing"] = "retrying" => e = "processing" /\ delivery[i]["processing"] = "retrying"
  <2>1. PICK row : row = DeliveryAfterOpen(i, e)
    OBVIOUS
  <2>2. delivery'[i] = row /\ \A j \in Items \ {i} : delivery'[j] = delivery[j]
    BY <1>1, <1>3, <2>1
  <2>. QED
    BY <2>1, <2>2, OpenedRow DEF NozomiInv
<1>5. e = "processing" /\ NoVerdictRow(i) => NoVerdictRow(i)'
  BY <1>4 DEF NoVerdictRow, EventStatus, Verdicts
<1>6. ASSUME NEW j \in Items, delivery'[j]["processing"] = "retrying" PROVE NoVerdictRow(j)'
  <2>1. CASE j = i
    BY <1>4, <1>5, <1>6, <2>1 DEF FreshInv, RowsSuperseded
  <2>2. CASE j # i
    BY <1>4, <1>6, <2>2 DEF FreshInv, RowsSuperseded, NoVerdictRow
  <2>. QED
    BY <2>1, <2>2
<1>7. RetriesFresh'
  <2>1. CASE t = RetryThread
    BY <1>1, <1>2, <1>5, <2>1 DEF FreshInv, RetriesFresh, SendPC
  <2>2. CASE t # RetryThread
    BY <1>2, <2>2 DEF RetriesFresh, LockFreeFor, Threads
  <2>. QED
    BY <2>1, <2>2
<1>8. ASSUME NEW u \in Threads, pc'[u] \in SendPC \ {"open"} PROVE delivery'[item[u]][event[u]] # "none"
  <2>1. CASE u = t
    BY <1>1, <1>4, <2>1
  <2>2. CASE u # t
    <3>1. item[u] \in Items /\ event[u] \in EventStatus /\ delivery[item[u]][event[u]] # "none"
      BY <1>2, <1>8, <2>2 DEF FreshInv, RowsOpened, NozomiInv, SendInv, NozomiTypeOK
    <3>. QED
      BY <1>4, <3>1
  <2>. QED
    BY <2>1, <2>2
<1>9. mode' # "park"
  BY <1>2 DEF NozomiInv, RecoveryInv
<1>. QED
  BY <1>2, <1>6, <1>7, <1>8, <1>9 DEF FreshInv, RowsSuperseded, RowsOpened

LEMMA WriteFresh ==
    ASSUME NozomiConstantsOK, NozomiInv, FreshInv, NEW t \in Threads,
           MarkDelivered(t) \/ MarkFailed(t) \/ Park(t)
    PROVE  FreshInv'
<1>1. PICK status \in DeliveryStatus \ {"none"}, next \in SendPC \cup {"guard", "run", "idle"} :
          /\ delivery' = [delivery EXCEPT ![item[t]][event[t]] = status]
          /\ pc' = [pc EXCEPT ![t] = next]
  BY DEF MarkDelivered, MarkFailed, Park, SetDelivery, ParkedStatus, DeliveryStatus, AfterSend, SendPC
<1>2. pc[t] \in SendPC \ {"open"} /\ UNCHANGED <<item, event, mode, recovering>>
  BY DEF MarkDelivered, MarkFailed, Park, SendPC, modeVars
<1>3. /\ RowsSuperseded'
      /\ \A i \in Items, e \in EventStatus : delivery'[i][e] = "none" <=> delivery[i][e] = "none"
  BY <1>1, <1>2, WrittenRow
<1>4. \A u \in Threads \ {t} : pc'[u] = pc[u]
  BY <1>1 DEF NozomiInv, NozomiTypeOK
<1>5. RetryThread \in Threads /\ \A u \in Threads : pc[u] \in SendPC => item[u] \in Items /\ event[u] \in EventStatus
  BY DEF Threads, NozomiInv, SendInv, NozomiTypeOK
<1>6. RetriesFresh'
  BY <1>2, <1>3, <1>4, <1>5 DEF FreshInv, RetriesFresh, NoVerdictRow, EventStatus
<1>7. \A u \in Threads : pc'[u] \in SendPC \ {"open"} => delivery'[item[u]][event[u]] # "none"
  BY <1>2, <1>3, <1>4, <1>5 DEF FreshInv, RowsOpened
<1>8. mode' # "park"
  BY <1>2 DEF NozomiInv, RecoveryInv, SendPC
<1>. QED
  BY <1>2, <1>3, <1>6, <1>7, <1>8 DEF FreshInv, RowsOpened

(* The steps that leave the rows alone.                                    *)
LEMMA QuietFresh ==
    ASSUME NozomiConstantsOK, NozomiInv, FreshInv, delivery' = delivery,
           \A t \in Threads : pc'[t] \in SendPC \ {"open"} =>
               pc[t] \in SendPC \ {"open"} /\ item'[t] = item[t] /\ event'[t] = event[t],
           RetriesFresh', mode' # "park" \/ (mode = "park" /\ recovering' = recovering)
    PROVE  FreshInv'
  BY DEF FreshInv, RowsSuperseded, RowsOpened, NoVerdictRow

LEMMA ThreadsFresh ==
    ASSUME NozomiConstantsOK, NozomiInv, FreshInv, NozomiNext
    PROVE  FreshInv'
<1>0. RetryThread \in Threads /\ RetryThread \notin Items
  BY DEF Threads, NozomiConstantsOK
<1>1. ASSUME NEW i \in Items, NEW url \in SignedUrls, StartExecution(i, url) PROVE FreshInv'
  <2>1. /\ UNCHANGED <<delivery, item, event, mode, recovering>> /\ mode = "up"
        /\ \A u \in Threads : pc'[u] = pc[u] \/ (u # RetryThread /\ pc'[u] = "open")
    BY <1>0, <1>1 DEF StartExecution, modeVars, NozomiInv, NozomiTypeOK
  <2>2. RetriesFresh'
    BY <1>0, <2>1 DEF FreshInv, RetriesFresh, NoVerdictRow
  <2>. QED
    BY <2>1, <2>2, QuietFresh
<1>2. ASSUME NEW t \in Threads, SendSucceeds(t) \/ SendFails(t) PROVE FreshInv'
  <2>1. /\ UNCHANGED <<delivery, item, event, mode, recovering>> /\ pc[t] = "send"
        /\ \A u \in Threads \ {t} : pc'[u] = pc[u]
    BY <1>2 DEF SendSucceeds, SendFails, dbVars, modeVars, NozomiInv, NozomiTypeOK
  <2>2. RetriesFresh'
    BY <1>0, <2>1 DEF FreshInv, RetriesFresh, NoVerdictRow, SendPC
  <2>. QED
    BY <2>1, <2>2, QuietFresh DEF SendPC
<1>3. ASSUME NEW i \in Items, RunExecution(i) PROVE FreshInv'
  <2>1. /\ UNCHANGED <<delivery, item, mode, recovering>> /\ pc'[i] = "open"
        /\ \A u \in Threads \ {i} : pc'[u] = pc[u] /\ event'[u] = event[u]
    BY <1>3 DEF RunExecution, modeVars, Threads, NozomiInv, NozomiTypeOK
  <2>2. RetriesFresh'
    BY <1>0, <2>1 DEF FreshInv, RetriesFresh, NoVerdictRow
  <2>. QED
    BY <2>1, <2>2, QuietFresh
<1>4. ASSUME NEW i \in Items, NEW e \in EventStatus, BackoffElapses(i, e) PROVE FreshInv'
  BY <1>4 DEF BackoffElapses, threadVars, modeVars, FreshInv, RowsSuperseded, RetriesFresh, RowsOpened, NoVerdictRow
<1>5. ASSUME PollRetries \/ EndRetries PROVE FreshInv'
  <2>1. /\ UNCHANGED <<delivery, item, event, mode, recovering>> /\ pc'[RetryThread] \notin SendPC
        /\ \A u \in Threads \ {RetryThread} : pc'[u] = pc[u]
    BY <1>0, <1>5 DEF PollRetries, EndRetries, dbVars, modeVars, SendPC, NozomiInv, NozomiTypeOK
  <2>2. RetriesFresh'
    BY <2>1 DEF RetriesFresh
  <2>. QED
    BY <2>1, <2>2, QuietFresh
<1>6. ASSUME RetryNext PROVE FreshInv'
  <2>1. /\ UNCHANGED <<delivery, mode, recovering>> /\ pc[RetryThread] = "guard"
        /\ \A u \in Threads \ {RetryThread} : pc'[u] = pc[u] /\ item'[u] = item[u] /\ event'[u] = event[u]
    BY <1>6 DEF RetryNext, dbVars, modeVars, NozomiInv, NozomiTypeOK
  <2>2. PICK d \in queue : IF StillRetrying(d[1], d[2])
                            THEN /\ pc' = [pc EXCEPT ![RetryThread] = "open"]
                                 /\ item' = [item EXCEPT ![RetryThread] = d[1]]
                                 /\ event' = [event EXCEPT ![RetryThread] = d[2]]
                            ELSE UNCHANGED <<pc, item, event>>
    BY <1>6 DEF RetryNext
  <2>3. d[1] \in Items /\ (pc'[RetryThread] = "open" \/ pc'[RetryThread] = "guard")
    BY <1>0, <2>1, <2>2 DEF NozomiInv, NozomiTypeOK
  <2>4. RetriesFresh'
    BY <1>0, <2>1, <2>2, <2>3 DEF FreshInv, RetriesFresh, RowsSuperseded, StillRetrying, NoVerdictRow, SendPC,
                                  NozomiInv, NozomiTypeOK
  <2>. QED
    BY <2>1, <2>3, <2>4, QuietFresh DEF SendPC
<1>7. ASSUME Crash PROVE FreshInv'
  <2>1. delivery' = delivery /\ mode' = "put" /\ \A t \in Threads : pc'[t] = "idle"
    BY <1>7 DEF Crash, dbVars
  <2>2. RetriesFresh'
    BY <1>0, <2>1 DEF RetriesFresh, SendPC
  <2>. QED
    BY <2>1, <2>2, QuietFresh DEF SendPC
<1>8. ASSUME RecoverRecord \/ StartServing PROVE FreshInv'
  <2>1. UNCHANGED <<delivery, pc, item, event>> /\ mode' # "park"
    BY <1>8 DEF RecoverRecord, StartServing, dbVars, threadVars
  <2>2. RetriesFresh'
    BY <2>1 DEF FreshInv, RetriesFresh, NoVerdictRow
  <2>. QED
    BY <2>1, <2>2, QuietFresh
<1>9. ASSUME RecoverDelivery \/ RecoverSchedule PROVE FreshInv'
  <2>1. /\ recovering \in Items /\ delivery \in [Items -> [EventStatus -> DeliveryStatus]]
        /\ \A t \in Threads : pc'[t] = "idle"
    BY <1>9 DEF RecoverDelivery, RecoverSchedule, threadVars, NozomiInv, RecoveryInv, NozomiTypeOK
  <2>2. RetriesFresh' /\ \A t \in Threads : pc'[t] \notin SendPC
    BY <1>0, <2>1 DEF RetriesFresh, SendPC
  <2>3. CASE RecoverDelivery
    <3>1. PICK i \in Items : /\ recovering = i /\ recovering' = i
                             /\ delivery' = [delivery EXCEPT ![i] = DeliveryAfterOpen(i, "failed")]
      BY <2>1, <2>3 DEF RecoverDelivery
    <3>2. "failed" \in EventStatus /\ "failed" # "processing"
      BY DEF EventStatus, Verdicts
    <3>3. /\ \A j \in Items \ {i} : delivery'[j] = delivery[j]
          /\ delivery'[i]["failed"] # "none"
          /\ delivery'[i]["processing"] # "retrying"
      <4>1. PICK row : row = DeliveryAfterOpen(i, "failed")
        OBVIOUS
      <4>2. delivery'[i] = row /\ \A j \in Items \ {i} : delivery'[j] = delivery[j]
        BY <2>1, <3>1, <4>1
      <4>. QED
        BY <3>2, <4>1, <4>2, OpenedRow DEF NozomiInv
    <3>4. RowsSuperseded'
      BY <3>2, <3>3 DEF FreshInv, RowsSuperseded, NoVerdictRow
    <3>. QED
      BY <2>2, <3>1, <3>3, <3>4 DEF FreshInv, RowsOpened
  <2>4. CASE RecoverSchedule
    <3>1. /\ delivery' = [delivery EXCEPT ![recovering]["failed"] = "retrying"] /\ mode' # "park"
          /\ delivery[recovering]["failed"] # "none"
      BY <2>4 DEF RecoverSchedule, SetDelivery, FreshInv, RowsOpened
    <3>2. \A i \in Items, e \in EventStatus :
            delivery'[i][e] = IF i = recovering /\ e = "failed" THEN "retrying" ELSE delivery[i][e]
      BY <2>1, <3>1
    <3>3. RowsSuperseded'
      BY <3>1, <3>2 DEF FreshInv, RowsSuperseded, NoVerdictRow, EventStatus, Verdicts
    <3>. QED
      BY <2>2, <3>1, <3>3 DEF FreshInv, RowsOpened
  <2>. QED
    BY <1>9, <2>3, <2>4
<1>. QED
  BY <1>1, <1>2, <1>3, <1>4, <1>5, <1>6, <1>7, <1>8, <1>9, OpenFresh, WriteFresh
  DEF NozomiNext, ThreadStep, Recovery

LEMMA FreshInvHolds == NozomiConstantsOK /\ NozomiSpec => []FreshInv
<1>1. NozomiConstantsOK /\ NozomiInv /\ FreshInv /\ [NozomiNext]_nozomiVars => FreshInv'
  <2>. SUFFICES ASSUME NozomiConstantsOK, NozomiInv, FreshInv, [NozomiNext]_nozomiVars PROVE FreshInv'
    OBVIOUS
  <2>1. CASE UNCHANGED nozomiVars
    BY <2>1 DEF nozomiVars, dbVars, threadVars, modeVars, FreshInv, RowsSuperseded, RetriesFresh, RowsOpened,
                NoVerdictRow
  <2>. QED
    BY <2>1, ThreadsFresh
<1>. QED
  BY <1>1, InitFresh, NozomiInvHolds, NozomiConstantsOK, PTL DEF NozomiSpec

(* No processing callback is on the wire once a verdict's callback has a   *)
(* row: Kaede never hears of a start after the end.                        *)
THEOREM NoProcessingAfterVerdict == NozomiConstantsOK /\ NozomiSpec => []NoStaleProcessing
<1>1. ASSUME NozomiConstantsOK, NozomiInv, FreshInv PROVE NoStaleProcessing
  <2>1. ASSUME NEW t \in Threads, pc[t] = "send", event[t] = "processing" PROVE NoVerdictRow(item[t])
    <3>1. CASE t = RetryThread
      BY <1>1, <2>1, <3>1 DEF FreshInv, RetriesFresh, SendPC
    <3>2. CASE t # RetryThread
      <4>1. t \in Items /\ item[t] = t /\ record[t] = "processing"
        BY <1>1, <2>1, <3>2 DEF Threads, NozomiInv, TaskInv, SendPC
      <4>. QED
        BY <1>1, <4>1, ProcessingHasNoVerdict
    <3>. QED
      BY <3>1, <3>2
  <2>. QED
    BY <2>1 DEF NoStaleProcessing, NoVerdictRow
<1>. QED
  BY <1>1, NozomiInvHolds, FreshInvHolds, NozomiConstantsOK, PTL

-----------------------------------------------------------------------------
(* Verdicts and their callbacks: what is acknowledged has arrived, and      *)
(* recovery has one item in hand while it works on its row.                *)
HandoffInv ==
    /\ \A t \in Threads : pc[t] = "acked" => <<item[t], event[t]>> \in received
    /\ mode \in {"up", "put"} => recovering = NoItem

LEMMA InitHandoff == NozomiConstantsOK /\ NozomiInit => HandoffInv
  BY DEF NozomiInit, ThreadsIdle, HandoffInv

LEMMA StepHandoff ==
    ASSUME NozomiConstantsOK, NozomiInv, HandoffInv, [NozomiNext]_nozomiVars
    PROVE  HandoffInv'
<1>. USE DEF NozomiInv, NozomiTypeOK, HandoffInv, dbVars, threadVars, modeVars
<1>1. ASSUME NEW i \in Items, NEW url \in SignedUrls, StartExecution(i, url) PROVE HandoffInv'
  <2>1. \A t \in Threads : pc'[t] = pc[t] \/ pc'[t] = "open"
    BY <1>1 DEF StartExecution
  <2>. QED
    BY <1>1, <2>1 DEF StartExecution
<1>2. ASSUME NEW t \in Threads, ThreadStep(t) PROVE HandoffInv'
  <2>1. /\ UNCHANGED <<item, event, mode, recovering>> /\ received \subseteq received'
        /\ \A u \in Threads \ {t} : pc'[u] = pc[u]
    BY <1>2 DEF ThreadStep, OpenDelivery, SendSucceeds, SendFails, MarkDelivered, MarkFailed, Park
  <2>2. pc'[t] = "acked" => <<item[t], event[t]>> \in received'
    <3>1. pc'[t] = "acked" => SendSucceeds(t)
      BY <1>2 DEF ThreadStep, OpenDelivery, SendFails, MarkDelivered, MarkFailed, Park, AfterSend
    <3>. QED
      BY <3>1 DEF SendSucceeds
  <2>. QED
    BY <2>1, <2>2
<1>3. ASSUME NEW i \in Items, RunExecution(i) PROVE HandoffInv'
  BY <1>3 DEF RunExecution, Threads
<1>4. ASSUME NEW i \in Items, NEW e \in EventStatus, BackoffElapses(i, e) PROVE HandoffInv'
  BY <1>4 DEF BackoffElapses
<1>5. ASSUME PollRetries \/ RetryNext \/ EndRetries PROVE HandoffInv'
  <2>1. /\ UNCHANGED <<mode, recovering, received>> /\ pc'[RetryThread] # "acked"
        /\ \A u \in Threads \ {RetryThread} : pc'[u] = pc[u] /\ item'[u] = item[u] /\ event'[u] = event[u]
    BY <1>5 DEF PollRetries, RetryNext, EndRetries, Threads
  <2>. QED
    BY <2>1
<1>6. ASSUME Crash PROVE HandoffInv'
  BY <1>6 DEF Crash
<1>7. ASSUME Recovery PROVE HandoffInv'
  BY <1>7 DEF Recovery, RecoverRecord, RecoverDelivery, RecoverSchedule, StartServing
<1>8. CASE UNCHANGED nozomiVars
  BY <1>8 DEF nozomiVars
<1>. QED
  BY <1>1, <1>2, <1>3, <1>4, <1>5, <1>6, <1>7, <1>8 DEF NozomiNext

LEMMA HandoffInvHolds == NozomiConstantsOK /\ NozomiSpec => []HandoffInv
<1>1. NozomiConstantsOK /\ NozomiInv /\ HandoffInv /\ [NozomiNext]_nozomiVars => HandoffInv'
  BY StepHandoff
<1>. QED
  BY <1>1, InitHandoff, NozomiInvHolds, NozomiConstantsOK, PTL DEF NozomiSpec

(* A step that takes nothing out of a hand or off the queue.               *)
LEMMA NothingDropped ==
    ASSUME NEW i \in Items, OnItsWay(i), record'[i] = record[i], received \subseteq received',
           recovering = i => recovering' = i,
           delivery[i][record[i]] = "retrying" => OnItsWay(i)',
           \A t \in Threads : pc[t] \in SendPC /\ item[t] = i /\ event[t] = record[i] =>
               pc'[t] \in SendPC /\ item'[t] = item[t] /\ event'[t] = event[t]
    PROVE  OnItsWay(i)'
<1>. USE DEF OnItsWay
<1>1. CASE <<i, record[i]>> \in received
  BY <1>1
<1>2. CASE delivery[i][record[i]] = "retrying"
  BY <1>2
<1>3. CASE \E t \in Threads : pc[t] \in SendPC /\ item[t] = i /\ event[t] = record[i]
  BY <1>3
<1>4. CASE recovering = i
  BY <1>4
<1>. QED
  BY <1>1, <1>2, <1>3, <1>4

(* Opening a delivery takes the row of its own event out of the queue, or  *)
(* that of a callback the verdict supersedes.                              *)
LEMMA OpenKeepsVerdict ==
    ASSUME NozomiInv, NEW t \in Threads, OpenDelivery(t),
           NEW i \in Items, record[i] \in Verdicts, OnItsWay(i)
    PROVE  OnItsWay(i)'
<1>1. PICK k \in Items, e \in EventStatus :
          /\ item[t] = k /\ event[t] = e /\ MaySend(k, e)
          /\ delivery' = [delivery EXCEPT ![k] = DeliveryAfterOpen(k, e)]
  BY DEF OpenDelivery, NozomiInv, SendInv, SendPC, NozomiTypeOK
<1>2. /\ UNCHANGED <<record, item, event, recovering, received>> /\ pc'[t] \in SendPC
      /\ \A u \in Threads \ {t} : pc'[u] = pc[u]
  BY DEF OpenDelivery, modeVars, SendPC, NozomiInv, NozomiTypeOK
<1>3. ASSUME delivery[i][record[i]] = "retrying" PROVE OnItsWay(i)'
  <2>1. CASE k = i /\ e = record[i]
    BY <1>1, <1>2, <2>1 DEF OnItsWay
  <2>2. CASE k = i /\ e # record[i]
    <3>1. e = "processing"
      BY <1>1, <2>2 DEF MaySend, EventStatus, Verdicts
    <3>2. record[i] \in EventStatus /\ record[i] # "processing"
      BY DEF EventStatus, Verdicts
    <3>3. PICK row : row = DeliveryAfterOpen(i, "processing")
      OBVIOUS
    <3>4. row[record[i]] = delivery[i][record[i]]
      BY <3>2, <3>3 DEF DeliveryAfterOpen
    <3>5. delivery'[i] = row
      BY <1>1, <2>2, <3>1, <3>3 DEF NozomiInv, NozomiTypeOK
    <3>. QED
      BY <1>2, <1>3, <3>4, <3>5 DEF OnItsWay
  <2>3. CASE k # i
    BY <1>1, <1>2, <1>3, <2>3 DEF OnItsWay, NozomiInv, NozomiTypeOK
  <2>. QED
    BY <2>1, <2>2, <2>3
<1>. QED
  BY <1>2, <1>3, NothingDropped

(* After a send the callback has arrived, is in hand still, or goes back   *)
(* to the queue.                                                           *)
LEMMA SendKeepsVerdict ==
    ASSUME NozomiInv, HandoffInv, NEW t \in Threads, MarkDelivered(t) \/ MarkFailed(t) \/ Park(t),
           NEW i \in Items, record[i] \in Verdicts, OnItsWay(i)
    PROVE  OnItsWay(i)'
<1>1. /\ UNCHANGED <<record, item, event, recovering, received>>
      /\ item[t] \in Items /\ event[t] \in EventStatus
      /\ \A u \in Threads \ {t} : pc'[u] = pc[u]
  BY DEF MarkDelivered, MarkFailed, Park, modeVars, SendPC, NozomiInv, SendInv, NozomiTypeOK
<1>2. PICK status : delivery' = [delivery EXCEPT ![item[t]][event[t]] = status]
  BY DEF MarkDelivered, MarkFailed, Park, SetDelivery
<1>3. \A k \in Items, e \in EventStatus :
        delivery'[k][e] = IF k = item[t] /\ e = event[t] THEN status ELSE delivery[k][e]
  BY <1>1, <1>2 DEF NozomiInv, NozomiTypeOK
<1>4. record[i] \in EventStatus
  BY DEF EventStatus
<1>5. CASE item[t] = i /\ event[t] = record[i]
  <2>1. CASE MarkDelivered(t)
    BY <1>1, <1>5, <2>1 DEF MarkDelivered, HandoffInv, OnItsWay
  <2>2. CASE MarkFailed(t)
    <3>1. pc'[t] \in SendPC
      BY <2>2 DEF MarkFailed, SendPC, NozomiInv, NozomiTypeOK
    <3>. QED
      BY <1>1, <1>5, <3>1 DEF OnItsWay
  <2>3. CASE Park(t)
    <3>1. delivery'[i][record[i]] = "retrying"
      BY <1>1, <1>4, <1>5, <2>3 DEF Park, SetDelivery, ParkedStatus, NozomiInv, NozomiTypeOK
    <3>. QED
      BY <1>1, <3>1 DEF OnItsWay
  <2>. QED
    BY <2>1, <2>2, <2>3
<1>6. CASE ~(item[t] = i /\ event[t] = record[i])
  <2>1. delivery[i][record[i]] = "retrying" => OnItsWay(i)'
    BY <1>1, <1>3, <1>4, <1>6 DEF OnItsWay
  <2>. QED
    BY <1>1, <1>6, <2>1, NothingDropped
<1>. QED
  BY <1>5, <1>6

LEMMA VerdictStep ==
    ASSUME NozomiConstantsOK, NozomiInv, HandoffInv, NozomiNext, NEW i \in Items, record'[i] \in Verdicts
    PROVE  \/ OnItsWay(i)'
           \/ record'[i] = record[i] /\ (OnItsWay(i) => crashes' # crashes)
<1>. SUFFICES ASSUME record'[i] = record[i] => OnItsWay(i) /\ crashes' = crashes
             PROVE  OnItsWay(i)'
  OBVIOUS
<1>. USE DEF dbVars, threadVars, modeVars
<1>0. RetryThread \notin Items /\ NoItem \notin Items /\ "processing" \notin Verdicts
  BY DEF NozomiConstantsOK, Verdicts
<1>1. ASSUME NEW j \in Items, NEW url \in SignedUrls, StartExecution(j, url) PROVE OnItsWay(i)'
  <2>1. record'[i] = record[i]
    BY <1>0, <1>1 DEF StartExecution, Reserve, NozomiInv, NozomiTypeOK, RecordTypeOK
  <2>2. \A t \in Threads : pc'[t] = pc[t] \/ pc'[t] = "open"
    BY <1>1 DEF StartExecution, NozomiInv, NozomiTypeOK
  <2>3. UNCHANGED <<delivery, item, event, recovering, received, crashes>>
    BY <1>1 DEF StartExecution
  <2>4. delivery[i][record[i]] = "retrying" => OnItsWay(i)'
    BY <2>1, <2>3 DEF OnItsWay
  <2>. QED
    BY <2>1, <2>2, <2>3, <2>4, NothingDropped DEF SendPC
<1>2. ASSUME NEW t \in Threads, ThreadStep(t) PROVE OnItsWay(i)'
  <2>1. record' = record /\ crashes' = crashes
    BY <1>2 DEF ThreadStep, OpenDelivery, SendSucceeds, SendFails, MarkDelivered, MarkFailed, Park
  <2>2. OnItsWay(i) /\ record[i] \in Verdicts
    BY <2>1
  <2>3. CASE SendSucceeds(t) \/ SendFails(t)
    <3>1. /\ UNCHANGED <<delivery, item, event, recovering>> /\ received \subseteq received'
          /\ \A u \in Threads : pc'[u] = pc[u] \/ pc'[u] \in SendPC
      BY <2>3 DEF SendSucceeds, SendFails, SendPC, NozomiInv, NozomiTypeOK
    <3>2. delivery[i][record[i]] = "retrying" => OnItsWay(i)'
      BY <2>1, <3>1 DEF OnItsWay
    <3>. QED
      BY <2>1, <2>2, <3>1, <3>2, NothingDropped
  <2>. QED
    BY <1>2, <2>2, <2>3, OpenKeepsVerdict, SendKeepsVerdict DEF ThreadStep
<1>3. ASSUME NEW j \in Items, RunExecution(j) PROVE OnItsWay(i)'
  <2>1. /\ UNCHANGED <<delivery, item, recovering, received, crashes>> /\ pc[j] = "run"
        /\ \A k \in Items \ {j} : record'[k] = record[k]
        /\ \A u \in Threads \ {j} : pc'[u] = pc[u] /\ event'[u] = event[u]
    BY <1>3 DEF RunExecution, Threads, NozomiInv, NozomiTypeOK, RecordTypeOK
  <2>2. CASE i = j
    <3>1. j \in Threads /\ item[j] = j /\ pc'[j] = "open" /\ event'[j] = record'[j]
      BY <1>3 DEF RunExecution, Threads, NozomiInv, TaskInv, NozomiTypeOK, RecordTypeOK
    <3>. QED
      BY <2>1, <2>2, <3>1 DEF OnItsWay, SendPC
  <2>3. CASE i # j
    <3>1. delivery[i][record[i]] = "retrying" => OnItsWay(i)'
      BY <2>1, <2>3 DEF OnItsWay
    <3>. QED
      BY <2>1, <2>3, <3>1, NothingDropped DEF SendPC
  <2>. QED
    BY <2>2, <2>3
<1>4. ASSUME NEW j \in Items, NEW e \in EventStatus, BackoffElapses(j, e) PROVE OnItsWay(i)'
  BY <1>4 DEF BackoffElapses, OnItsWay
<1>5. ASSUME PollRetries \/ RetryNext \/ EndRetries PROVE OnItsWay(i)'
  <2>1. /\ UNCHANGED <<record, delivery, recovering, received, crashes>> /\ pc[RetryThread] \notin SendPC
        /\ \A u \in Threads \ {RetryThread} : pc'[u] = pc[u] /\ item'[u] = item[u] /\ event'[u] = event[u]
    BY <1>5 DEF PollRetries, RetryNext, EndRetries, Threads, SendPC, NozomiInv, NozomiTypeOK
  <2>2. delivery[i][record[i]] = "retrying" => OnItsWay(i)'
    BY <2>1 DEF OnItsWay
  <2>. QED
    BY <2>1, <2>2, NothingDropped
<1>6. ASSUME Crash PROVE OnItsWay(i)'
  <2>1. record' = record /\ crashes' = crashes + 1 /\ crashes \in Nat
    BY <1>6 DEF Crash, NozomiInv, NozomiTypeOK, NozomiConstantsOK
  <2>. QED
    BY <2>1
<1>7. ASSUME RecoverRecord PROVE OnItsWay(i)'
  <2>1. PICK j \in Items : record' = [record EXCEPT ![j] = "failed"] /\ recovering' = j
    BY <1>7 DEF RecoverRecord
  <2>2. UNCHANGED <<delivery, pc, item, event, received, crashes>> /\ recovering = NoItem
    BY <1>7 DEF RecoverRecord, HandoffInv
  <2>3. CASE i = j
    BY <2>1, <2>3 DEF OnItsWay
  <2>4. CASE i # j
    BY <1>0, <2>1, <2>2, <2>4 DEF OnItsWay, NozomiInv, NozomiTypeOK, RecordTypeOK
  <2>. QED
    BY <2>3, <2>4
<1>8. ASSUME RecoverDelivery \/ RecoverSchedule PROVE OnItsWay(i)'
  <2>1. /\ UNCHANGED <<record, pc, item, event, received, crashes>>
        /\ recovering \in Items /\ record[recovering] = "failed"
        /\ \A k \in Items \ {recovering} : delivery'[k] = delivery[k]
    BY <1>8 DEF RecoverDelivery, RecoverSchedule, SetDelivery, NozomiInv, RecoveryInv, NozomiTypeOK
  <2>2. CASE i = recovering /\ RecoverDelivery
    BY <2>2 DEF RecoverDelivery, OnItsWay
  <2>3. CASE i = recovering /\ RecoverSchedule
    <3>1. delivery'[i]["failed"] = "retrying"
      BY <2>3 DEF RecoverSchedule, SetDelivery, NozomiInv, NozomiTypeOK, EventStatus, Verdicts
    <3>. QED
      BY <2>1, <2>3, <3>1 DEF OnItsWay
  <2>4. CASE i # recovering
    BY <2>1, <2>4 DEF OnItsWay
  <2>. QED
    BY <1>8, <2>2, <2>3, <2>4
<1>9. ASSUME StartServing PROVE OnItsWay(i)'
  BY <1>9 DEF StartServing, OnItsWay
<1>. QED
  BY <1>1, <1>2, <1>3, <1>4, <1>5, <1>6, <1>7, <1>8, <1>9 DEF NozomiNext, Recovery

(* No commit of the service drops a verdict on its way to Kaede: only a    *)
(* crash that hits while a thread or recovery has it in hand does.         *)
THEOREM OnlyACrashLosesAVerdict == NozomiConstantsOK /\ NozomiSpec => OnlyCrashesLoseVerdicts
<1>1. ASSUME NozomiConstantsOK, NozomiInv, HandoffInv, [NozomiNext]_nozomiVars
      PROVE  [\A i \in Items :
                record'[i] \in Verdicts /\ ~OnItsWay(i)' =>
                  record'[i] = record[i] /\ (OnItsWay(i) => crashes' # crashes)]_nozomiVars
  BY <1>1, VerdictStep
<1>. QED
  BY <1>1, NozomiInvHolds, HandoffInvHolds, NozomiConstantsOK, PTL DEF NozomiSpec, OnlyCrashesLoseVerdicts
=============================================================================
