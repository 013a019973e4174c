--------------------------- MODULE NozomiExecution ---------------------------
(***************************************************************************)
(* Nozomi's execution service: the execution records and callback          *)
(* deliveries it keeps in SQLite, the background task of each execution,   *)
(* the callback retry thread, and what a restart recovers.                 *)
(* (apps/nozomi/src/routes/executions.py,                                  *)
(*  apps/nozomi/src/usecases/pipeline_execution.py)                        *)
(*                                                                         *)
(* One action is one SQLite commit or one HTTP call.  The database file    *)
(* survives a crash (docker/compose.yml gives it a volume); threads do     *)
(* not.                                                                    *)
(***************************************************************************)
EXTENDS Naturals, ExecutionContract

CONSTANTS
    RetryThread,     \* the pipeline-callback-retry thread
    NoItem,
    SignedUrls,      \* versions of the presigned URLs a request may carry
    GroundTruth,     \* items dispatched with a ground truth input
    MaxTries,        \* sends of one send_callback_with_retry call (3)
    MaxCrashes       \* bound: crashes in a behaviour

ASSUME NozomiConstantsOK ==
    /\ RetryThread \notin Items
    /\ NoItem \notin Items
    /\ SignedUrls # {}
    /\ GroundTruth \subseteq Items
    /\ MaxTries \in Nat \ {0}
    /\ MaxCrashes \in Nat

VARIABLES
    \* record               execution_records.event.status
    fingerprint,    \* execution_records.fingerprint
    answer,         \* last answer to a request for the item
    delivery,       \* callback_deliveries.status per item and event, "none" = no row
    due,            \* next_attempt_at has passed
    pc,             \* thread: what it does next
    item,           \* thread: item of the callback in hand
    event,          \* thread: event of the callback in hand
    tries,          \* thread: failed sends of this send_callback_with_retry
    queue,          \* retry thread: callbacks it read and has not looked at
    mode,           \* "up", or the step of recover_interrupted_executions
    recovering,     \* the item recovery is working on
    received,       \* callbacks that reached Kaede
    crashes

dbVars     == <<record, fingerprint, delivery, due>>
threadVars == <<pc, item, event, tries>>
modeVars   == <<mode, recovering>>
nozomiVars == <<dbVars, answer, threadVars, queue, modeVars, received, crashes>>

Threads        == Items \cup {RetryThread}
NoFingerprint  == "none"
DeliveryStatus == {"none", "pending", "failed", "retrying", "superseded", "delivered"}
SendPC         == {"open", "send", "acked", "nacked", "park"}

NozomiTypeOK ==
    /\ RecordTypeOK
    /\ fingerprint \in [Items -> SignedUrls \cup {NoFingerprint, "content"}]
    /\ answer \in [Items -> {"none", "accepted", "conflict"}]
    /\ delivery \in [Items -> [EventStatus -> DeliveryStatus]]
    /\ due \in [Items -> [EventStatus -> BOOLEAN]]
    /\ pc \in [Threads -> SendPC \cup {"idle", "run", "guard"}]
    /\ item \in [Threads -> Items \cup {NoItem}]
    /\ event \in [Threads -> EventStatus]
    /\ tries \in [Threads -> 0 .. MaxTries]
    /\ queue \subseteq Items \X EventStatus
    /\ mode \in {"up", "put", "deliver", "park"}
    /\ recovering \in Items \cup {NoItem}
    /\ received \subseteq Items \X EventStatus
    /\ crashes \in 0 .. MaxCrashes

ThreadsIdle ==
    /\ pc = [t \in Threads |-> "idle"]
    /\ item = [t \in Threads |-> IF t \in Items THEN t ELSE NoItem]
    /\ event = [t \in Threads |-> "processing"]
    /\ tries = [t \in Threads |-> 0]

NozomiInit ==
    /\ NoExecutions
    /\ fingerprint = [i \in Items |-> NoFingerprint]
    /\ answer = [i \in Items |-> "none"]
    /\ delivery = [i \in Items |-> [e \in EventStatus |-> "none"]]
    /\ due = [i \in Items |-> [e \in EventStatus |-> FALSE]]
    /\ ThreadsIdle
    /\ queue = {}
    /\ mode = "up"
    /\ recovering = NoItem
    /\ received = {}
    /\ crashes = 0
-----------------------------------------------------------------------------
(* The repository's lock: the retry thread holds it from the check in      *)
(* retry_guard to the end of the send, every other call for one commit.    *)

(* Mutant: the retry thread does not hold the lock while it sends.         *)
AnyThread(t) == TRUE

LockFreeFor(t) == t = RetryThread \/ pc[RetryThread] \notin SendPC

(* ExecutionRepository.delivery: a terminal event supersedes whatever the  *)
(* item still has to retry, its own row included, and a row that exists is *)
(* kept.                                                                   *)
DeliveryAfterOpen(i, e) ==
    LET superseded == [d \in EventStatus |->
            IF e # "processing" /\ delivery[i][d] = "retrying" THEN "superseded"
                                                             ELSE delivery[i][d]]
    IN [superseded EXCEPT ![e] = IF @ = "none" THEN "pending" ELSE @]

SetDelivery(i, e, status, isDue) ==
    /\ delivery' = [delivery EXCEPT ![i][e] = status]
    /\ due' = [due EXCEPT ![i][e] = isDue]
-----------------------------------------------------------------------------
(* POST /internal/pipeline-executions                                      *)

(* request_fingerprint leaves out the URLs of the inputs and outputs, but  *)
(* dumps the ground truth input whole, its presigned URL included.         *)
Fingerprint(i, url) == IF i \in GroundTruth THEN url ELSE "content"

(* start_execution for a valid request.  A request that fails validation   *)
(* is answered 404, 409 or 422 and changes nothing.                        *)
StartExecution(i, url) ==
    /\ mode = "up" /\ LockFreeFor(i)
    /\ Reserve(i)
    /\ IF record[i] = "absent"
       THEN /\ fingerprint' = [fingerprint EXCEPT ![i] = Fingerprint(i, url)]
            /\ answer' = [answer EXCEPT ![i] = "accepted"]
            /\ pc' = [pc EXCEPT ![i] = "open"]
       ELSE /\ answer' = [answer EXCEPT ![i] =
                    IF fingerprint[i] = Fingerprint(i, url) THEN "accepted" ELSE "conflict"]
            /\ UNCHANGED <<fingerprint, pc>>
    /\ UNCHANGED <<delivery, due, item, event, tries, queue, modeVars, received, crashes>>
-----------------------------------------------------------------------------
(* send_callback_with_retry, called by the background task of an item and  *)
(* by the retry thread                                                     *)

(* What the calling thread does next.                                      *)
AfterSend(t) ==
    CASE t = RetryThread -> "guard"
      [] t # RetryThread /\ event[t] = "processing" -> "run"
      [] OTHER -> "idle"

OpenDelivery(t) ==
    /\ pc[t] = "open" /\ LockFreeFor(t)
    /\ delivery' = [delivery EXCEPT ![item[t]] = DeliveryAfterOpen(item[t], event[t])]
    /\ pc' = [pc EXCEPT ![t] = "send"]
    /\ tries' = [tries EXCEPT ![t] = 0]
    /\ UNCHANGED <<record, fingerprint, due, answer, item, event, queue, modeVars,
                   received, crashes>>

SendSucceeds(t) ==
    /\ pc[t] = "send"
    /\ received' = received \cup {<<item[t], event[t]>>}
    /\ pc' = [pc EXCEPT ![t] = "acked"]
    /\ UNCHANGED <<dbVars, answer, item, event, tries, queue, modeVars, crashes>>

(* Kaede refuses it, does not hear it, or is not heard.                    *)
SendFails(t) ==
    /\ pc[t] = "send"
    /\ received' = received \cup {<<item[t], event[t]>>} \/ UNCHANGED received
    /\ pc' = [pc EXCEPT ![t] = "nacked"]
    /\ UNCHANGED <<dbVars, answer, item, event, tries, queue, modeVars, crashes>>

MarkDelivered(t) ==
    /\ pc[t] = "acked" /\ LockFreeFor(t)
    /\ SetDelivery(item[t], event[t], "delivered", FALSE)
    /\ pc' = [pc EXCEPT ![t] = AfterSend(t)]
    /\ UNCHANGED <<record, fingerprint, answer, item, event, tries, queue, modeVars,
                   received, crashes>>

(* Mutant: one send too many.                                              *)
SendsOnceMore(t) == tries[t] + 1 <= MaxTries

SendsAgain(t) == tries[t] + 1 < MaxTries

MarkFailed(t) ==
    /\ pc[t] = "nacked" /\ LockFreeFor(t)
    /\ SetDelivery(item[t], event[t], "failed", due[item[t]][event[t]])
    /\ tries' = [tries EXCEPT ![t] = @ + 1]
    /\ pc' = [pc EXCEPT ![t] = IF SendsAgain(t) THEN "send" ELSE "park"]
    /\ UNCHANGED <<record, fingerprint, answer, item, event, queue, modeVars, received,
                   crashes>>

(* Mutant: the last failure is recorded and nothing is scheduled.          *)
StatusAfterLastTry(t) == "failed"

ParkedStatus(t) == "retrying"

(* The delivery waits for the retry thread, with exponential back-off.     *)
Park(t) ==
    /\ pc[t] = "park" /\ LockFreeFor(t)
    /\ SetDelivery(item[t], event[t], ParkedStatus(t), FALSE)
    /\ pc' = [pc EXCEPT ![t] = AfterSend(t)]
    /\ UNCHANGED <<record, fingerprint, answer, item, event, tries, queue, modeVars,
                   received, crashes>>
-----------------------------------------------------------------------------
(* _run_execution: the record is written before the callback is created.   *)
RunExecution(i) ==
    /\ pc[i] = "run" /\ LockFreeFor(i)
    /\ \E verdict \in Verdicts :
         /\ record' = [record EXCEPT ![i] = verdict]
         /\ event' = [event EXCEPT ![i] = verdict]
    /\ pc' = [pc EXCEPT ![i] = "open"]
    /\ UNCHANGED <<fingerprint, delivery, due, answer, item, tries, queue, modeVars,
                   received, crashes>>
-----------------------------------------------------------------------------
(* retry_pending_callbacks                                                 *)

Retryable(i, e) == delivery[i][e] = "retrying" /\ due[i][e]

PollRetries ==
    /\ mode = "up" /\ pc[RetryThread] = "idle"
    /\ queue' = {d \in Items \X EventStatus : Retryable(d[1], d[2])}
    /\ queue' # {}
    /\ pc' = [pc EXCEPT ![RetryThread] = "guard"]
    /\ UNCHANGED <<dbVars, answer, item, event, tries, modeVars, received, crashes>>

(* Mutant: the snapshot is trusted.                                        *)
TrustSnapshot(i, e) == TRUE

(* retry_guard: what was read may have been superseded since.              *)
StillRetrying(i, e) == delivery[i][e] = "retrying"

RetryNext ==
    /\ pc[RetryThread] = "guard"
    /\ \E d \in queue :
         /\ queue' = queue \ {d}
         /\ IF StillRetrying(d[1], d[2])
            THEN /\ pc' = [pc EXCEPT ![RetryThread] = "open"]
                 /\ item' = [item EXCEPT ![RetryThread] = d[1]]
                 /\ event' = [event EXCEPT ![RetryThread] = d[2]]
            ELSE UNCHANGED <<pc, item, event>>
    /\ UNCHANGED <<dbVars, answer, tries, modeVars, received, crashes>>

EndRetries ==
    /\ pc[RetryThread] = "guard" /\ queue = {}
    /\ pc' = [pc EXCEPT ![RetryThread] = "idle"]
    /\ UNCHANGED <<dbVars, answer, item, event, tries, queue, modeVars, received, crashes>>

BackoffElapses(i, e) ==
    /\ delivery[i][e] = "retrying" /\ ~due[i][e]
    /\ due' = [due EXCEPT ![i][e] = TRUE]
    /\ UNCHANGED <<record, fingerprint, delivery, answer, threadVars, queue, modeVars,
                   received, crashes>>
-----------------------------------------------------------------------------
(* Crash and restart                                                       *)

(* The process stops, by a signal too: the retry thread is a daemon and    *)
(* shutdown waits one second for it.  A request on the wire may have been  *)
(* received.                                                               *)
Crash ==
    /\ crashes < MaxCrashes
    /\ crashes' = crashes + 1
    /\ pc' = [t \in Threads |-> "idle"]
    /\ item' = [t \in Threads |-> IF t \in Items THEN t ELSE NoItem]
    /\ event' = [t \in Threads |-> "processing"]
    /\ tries' = [t \in Threads |-> 0]
    /\ queue' = {}
    /\ mode' = "put"
    /\ recovering' = NoItem
    /\ \E arrived \in SUBSET {<<item[t], event[t]>> : t \in {u \in Threads : pc[u] = "send"}} :
         received' = received \cup arrived
    /\ UNCHANGED <<dbVars, answer>>

(* Mutants: recovery takes every record, or only announced ones.           *)
AnyRecord(i) == record[i] # "absent"
AnnouncedOnly(i) == record[i] = "processing" /\ delivery[i]["processing"] # "none"

Interrupted(i) == record[i] = "processing"

(* recover_interrupted_executions runs before the service takes requests:  *)
(* for each orphan it commits the failed record, the delivery row, and the *)
(* row's state, one after the other.                                       *)
RecoverRecord ==
    /\ mode = "put"
    /\ \E i \in Items :
         /\ Interrupted(i)
         /\ record' = [record EXCEPT ![i] = "failed"]
         /\ recovering' = i
    /\ mode' = "deliver"
    /\ UNCHANGED <<fingerprint, delivery, due, answer, threadVars, queue, received, crashes>>

RecoverDelivery ==
    /\ mode = "deliver"
    /\ delivery' = [delivery EXCEPT ![recovering] = DeliveryAfterOpen(recovering, "failed")]
    /\ mode' = "park"
    /\ UNCHANGED <<record, fingerprint, due, answer, threadVars, queue, recovering,
                   received, crashes>>

RecoverSchedule ==
    /\ mode = "park"
    /\ SetDelivery(recovering, "failed", "retrying", TRUE)
    /\ mode' = "put"
    /\ recovering' = NoItem
    /\ UNCHANGED <<record, fingerprint, answer, threadVars, queue, received, crashes>>

StartServing ==
    /\ mode = "put" /\ \A i \in Items : ~Interrupted(i)
    /\ mode' = "up"
    /\ UNCHANGED <<dbVars, answer, threadVars, queue, recovering, received, crashes>>
-----------------------------------------------------------------------------
ThreadStep(t) ==
    \/ OpenDelivery(t) \/ SendSucceeds(t) \/ SendFails(t)
    \/ MarkDelivered(t) \/ MarkFailed(t) \/ Park(t)

Recovery == RecoverRecord \/ RecoverDelivery \/ RecoverSchedule \/ StartServing

NozomiNext ==
    \/ \E i \in Items, url \in SignedUrls : StartExecution(i, url)
    \/ \E t \in Threads : ThreadStep(t)
    \/ \E i \in Items : RunExecution(i)
    \/ \E i \in Items, e \in EventStatus : BackoffElapses(i, e)
    \/ PollRetries \/ RetryNext \/ EndRetries
    \/ Crash \/ Recovery

NozomiSpec == NozomiInit /\ [][NozomiNext]_nozomiVars

(* Threads run, the retry loop wakes up, an execution ends, and a callback *)
(* that is sent again and again is accepted in the end.                    *)
NozomiFairness ==
    /\ \A t \in Threads : WF_nozomiVars(ThreadStep(t)) /\ SF_nozomiVars(SendSucceeds(t))
    /\ \A i \in Items : WF_nozomiVars(RunExecution(i))
    /\ \A i \in Items, e \in EventStatus : WF_nozomiVars(BackoffElapses(i, e))
    /\ WF_nozomiVars(PollRetries) /\ WF_nozomiVars(RetryNext) /\ WF_nozomiVars(EndRetries)
    /\ WF_nozomiVars(Recovery)

FairNozomiSpec == NozomiSpec /\ NozomiFairness
-----------------------------------------------------------------------------
(* Every event on the wire or received agrees with the record, across      *)
(* restarts: Kaede is never told of a verdict Nozomi does not hold, nor of *)
(* two.                                                                    *)
CallbacksWithinContract ==
    /\ \A t \in Threads : pc[t] = "send" => MaySend(item[t], event[t])
    /\ \A d \in received : MaySend(d[1], d[2])

(* retry_guard promises that no old processing callback overtakes the      *)
(* terminal one: none is sent once the terminal delivery exists.           *)
NoStaleProcessing ==
    \A t \in Threads :
      pc[t] = "send" /\ event[t] = "processing" =>
        \A v \in Verdicts : delivery[item[t]][v] = "none"

(* A record that reads processing has its background task, or a restart is *)
(* about to fail it: nothing stays processing for ever.                    *)
NoOrphanExecution ==
    \A i \in Items : record[i] = "processing" => mode # "up" \/ pc[i] # "idle"

(* Kaede may dispatch an item again after an answer it did not hear, with  *)
(* freshly signed URLs: the comment in request_fingerprint says that this  *)
(* is the same computation, so it is not a conflict.                       *)
RedispatchIsIdempotent == \A i \in Items : answer[i] # "conflict"

(* A verdict's callback is on its way to Kaede, or arrived: a thread has   *)
(* it in hand, the retry thread will find its row, or recovery is about to *)
(* write one.                                                              *)
OnItsWay(i) ==
    \/ <<i, record[i]>> \in received
    \/ delivery[i][record[i]] = "retrying"
    \/ \E t \in Threads : pc[t] \in SendPC /\ item[t] = i /\ event[t] = record[i]
    \/ recovering = i

(* Every commit that ends an execution or moves its callback on hands it   *)
(* over: from the task to the retry queue, from there to the retry thread, *)
(* which takes its row out of the queue, and back, and from recovery to    *)
(* the queue.  A verdict drops out only when a crash hits between two of   *)
(* those commits, never while its row waits for a retry, and none is       *)
(* recorded without its callback.                                          *)
OnlyCrashesLoseVerdicts ==
    [][\A i \in Items :
         record'[i] \in Verdicts /\ ~OnItsWay(i)' =>
           record'[i] = record[i] /\ (OnItsWay(i) => crashes' # crashes)]_nozomiVars

(* Every verdict reaches Kaede: the README has undelivered callbacks sent  *)
(* again with back-off, after a restart too.                               *)
VerdictDelivered ==
    \A i \in Items : record[i] \in Verdicts ~> <<i, record[i]>> \in received
=============================================================================
