-------------------------- MODULE AnalysisLifeCycle --------------------------
(***************************************************************************)
(* What an analysis that Nozomi reports by a callback promises: a job      *)
(* starts once and ends once, it ends completed only when its outputs are  *)
(* stored, and an outcome that was acknowledged to Nozomi is the job's     *)
(* outcome for good.                                                       *)
(***************************************************************************)
CONSTANT Jobs

VARIABLES
    outcome,    \* "absent", "open", "completed" or "failed"
    stored,     \* jobs whose outputs are all in the object store
    told        \* <<job, outcome>> that Nozomi was told is recorded

lifeVars == <<outcome, stored, told>>

LifeInit ==
    /\ outcome = [j \in Jobs |-> "absent"]
    /\ stored = {}
    /\ told = {}

Open(j) ==
    /\ outcome[j] = "absent"
    /\ outcome' = [outcome EXCEPT ![j] = "open"]
    /\ UNCHANGED <<stored, told>>

StoreOutputs(j) ==
    /\ j \notin stored
    /\ stored' = stored \cup {j}
    /\ UNCHANGED <<outcome, told>>

(* The outcome may be told in the step that records it, or later.          *)
Close(j, verdict) ==
    /\ outcome[j] = "open"
    /\ verdict = "completed" => j \in stored
    /\ outcome' = [outcome EXCEPT ![j] = verdict]
    /\ told' \in {told, told \cup {<<j, verdict>>}}
    /\ UNCHANGED stored

(* The start-up of a process closes every overdue job at once.             *)
CloseLate(late) ==
    /\ \A j \in late : outcome[j] = "open"
    /\ outcome' = [j \in Jobs |-> IF j \in late THEN "failed" ELSE outcome[j]]
    /\ UNCHANGED <<stored, told>>

Tell(j) ==
    /\ outcome[j] \in {"completed", "failed"}
    /\ told' = told \cup {<<j, outcome[j]>>}
    /\ UNCHANGED <<outcome, stored>>

LifeNext ==
    \/ \E j \in Jobs : Open(j) \/ StoreOutputs(j) \/ Tell(j)
    \/ \E j \in Jobs, verdict \in {"completed", "failed"} : Close(j, verdict)
    \/ \E late \in SUBSET Jobs : CloseLate(late)

LifeCycle == LifeInit /\ [][LifeNext]_lifeVars
==============================================================================
