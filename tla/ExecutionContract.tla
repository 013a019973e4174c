-------------------------- MODULE ExecutionContract --------------------------
(***************************************************************************)
(* What Nozomi promises Kaede about one child execution of a positioning   *)
(* analysis (apps/nozomi/src/routes/executions.py):                        *)
(*                                                                         *)
(*   - an execution is reserved at most once and reaches one verdict,      *)
(*     completed or failed, which never changes;                           *)
(*   - a callback event tells no more than the record already says.        *)
(*                                                                         *)
(* A callback may be late, repeated or never sent: the contract promises   *)
(* nothing about that.  PositioningAnalysis is written against this module *)
(* and NozomiExecution is checked to implement it.                         *)
(***************************************************************************)
CONSTANT Items            \* positioning_analysis_run_items ids

VARIABLE record           \* Items -> state of the execution record

Verdicts       == {"completed", "failed"}
EventStatus    == {"processing"} \cup Verdicts
RecordStatus   == {"absent"} \cup EventStatus

RecordTypeOK == record \in [Items -> RecordStatus]

NoExecutions == record = [i \in Items |-> "absent"]

(* POST /internal/pipeline-executions: a request for a known item finds    *)
(* the existing record and starts nothing.                                 *)
Reserve(i) ==
    record' = [record EXCEPT ![i] = IF @ = "absent" THEN "processing" ELSE @]

(* The execution ends, or a restart declares it interrupted.               *)
Finish(i, verdict) ==
    /\ record[i] = "processing"
    /\ record' = [record EXCEPT ![i] = verdict]

(* The events Nozomi may have on the wire for item i.                      *)
MaySend(i, event) ==
    IF event = "processing" THEN record[i] # "absent" ELSE record[i] = event

ContractNext ==
    \E i \in Items : Reserve(i) \/ \E v \in Verdicts : Finish(i, v)

ContractSpec == NoExecutions /\ [][ContractNext]_record
=============================================================================
