----------------------------- MODULE RunCreation -----------------------------
(***************************************************************************)
(* Positioning runs of one organization are created: requests that share   *)
(* an idempotency key race each other, each reads recordings, floors,      *)
(* assets and pipelines without a lock, then writes the run, the object    *)
(* with the ground truth, the items and their outbox jobs in one           *)
(* transaction.  What keeps one run per key is the unique constraint on    *)
(* the organization and the key; a request that meets a committed run of   *)
(* its key compares digests.                                               *)
(***************************************************************************)
EXTENDS FiniteSets

CONSTANTS
    Creations,    \* requests; a request inserts the run of its name
    IdempotencyKeys,
    Recordings,
    Pipelines,
    Assets,       \* assets a recording or its floor can have for the one input slot
    Parameters,
    Requires,     \* pipeline -> parameters its schema requires
    Takes,        \* pipeline -> parameters its schema knows
    RunBodies,    \* request bodies, up to the order canonicalize removes
    NoRun

ASSUME RunCreationConstantsOK ==
    /\ Requires \in [Pipelines -> SUBSET Parameters]
    /\ Takes \in [Pipelines -> SUBSET Parameters]
    /\ \A b \in RunBodies :
          /\ b.recordings \in (SUBSET Recordings) \ {{}}
          /\ b.pipelines \in (SUBSET Pipelines) \ {{}}
          /\ b.given \in [b.pipelines -> SUBSET Parameters]
          /\ b.groundTruth \in BOOLEAN
          /\ b.retryOf \in Creations \cup {NoRun}
    /\ NoRun \notin Creations

VARIABLES
    present,       \* recordings of this organization
    derivable,     \* recording -> parameters its constraints and its floor give
    validAssets,   \* recording -> assets that are valid
    stored,        \* recording -> assets whose object is in the store
    available,     \* pipelines Nozomi can run
    runRow,        \* run: "none", "open" in a transaction, "committed"
    runItems,      \* run -> items
    runJobs,       \* run -> items that have an outbox job
    truthObjects,  \* runs whose ground truth is in the object store
    creation       \* request: step, key, body, what it resolved, answer

inputVars    == <<present, derivable, validAssets, stored, available>>
runVars      == <<runRow, runItems, runJobs, truthObjects>>
creationVars == <<inputVars, runVars, creation>>

RunItems == [recording : Recordings, pipeline : Pipelines, bound : Assets]
CreationSteps == {"idle", "retry", "recordings", "pipelines", "insert", "truth", "items",
                  "commit", "clash", "over"}
CreationAt(step, k, b, reply, run) ==
    [step |-> step, key |-> k, body |-> b, items |-> {}, reply |-> reply, named |-> run]
NotAsked == CreationAt("idle", NoRun, NoRun, "none", NoRun)

CreationRecords ==
    [step : CreationSteps, key : IdempotencyKeys \cup {NoRun}, body : RunBodies \cup {NoRun},
     items : SUBSET RunItems, reply : {"none", "refused", "conflict", "error", "accepted"},
     named : Creations \cup {NoRun}]

RunCreationTypeOK ==
    /\ present \subseteq Recordings
    /\ derivable \in [Recordings -> SUBSET Parameters]
    /\ validAssets \in [Recordings -> SUBSET Assets] /\ stored \in [Recordings -> SUBSET Assets]
    /\ \A d \in Recordings : validAssets[d] \subseteq stored[d]
    /\ available \subseteq Pipelines
    /\ runRow \in [Creations -> {"none", "open", "committed"}]
    /\ runItems \in [Creations -> SUBSET RunItems] /\ runJobs \in [Creations -> SUBSET RunItems]
    /\ \A q \in Creations : runJobs[q] \subseteq runItems[q]
    /\ truthObjects \subseteq Creations
    /\ creation \in [Creations -> CreationRecords]

RunCreationInit ==
    /\ present = {}
    /\ derivable = [d \in Recordings |-> {}]
    /\ validAssets = [d \in Recordings |-> {}] /\ stored = [d \in Recordings |-> {}]
    /\ available = Pipelines
    /\ runRow = [q \in Creations |-> "none"]
    /\ runItems = [q \in Creations |-> {}]
    /\ runJobs = [q \in Creations |-> {}]
    /\ truthObjects = {}
    /\ creation = [q \in Creations |-> NotAsked]

------------------------------------------------------------------------------
(* What the request reads.                                                 *)

RunOfKey(k) == {q \in Creations : runRow[q] = "committed" /\ creation[q].key = k}

(* Mutant: the digest of the stored run is not compared.                   *)
AnyDigest(b, q) == TRUE

SameDigest(b, q) == creation[q].body = b

CreationGoesTo(q, step) == creation' = [creation EXCEPT ![q].step = step]

AnswerCreation(q, reply, run) ==
    creation' = [creation EXCEPT ![q] = [@ EXCEPT !.step = "over", !.items = {},
                                                  !.reply = reply, !.named = run]]

(* An actor who is no manager, or a key that is empty or too long.         *)
RefuseCreation(q) ==
    /\ creation[q].step = "idle"
    /\ AnswerCreation(q, "refused", NoRun)
    /\ UNCHANGED <<inputVars, runVars>>

ReadRunOfKey(q, k, b) ==
    /\ creation[q].step = "idle"
    /\ \/ /\ RunOfKey(k) = {}
          /\ creation' = [creation EXCEPT ![q] = CreationAt("retry", k, b, "none", NoRun)]
       \/ \E run \in RunOfKey(k) :
             creation' = [creation EXCEPT ![q] =
                 IF SameDigest(b, run) THEN CreationAt("over", k, b, "accepted", run)
                                       ELSE CreationAt("over", k, b, "conflict", NoRun)]
    /\ UNCHANGED <<inputVars, runVars>>

ReadRetriedRun(q) ==
    /\ creation[q].step = "retry"
    /\ LET run == creation[q].body.retryOf IN
       IF run # NoRun /\ runRow[run] # "committed" THEN AnswerCreation(q, "refused", NoRun)
                                                   ELSE CreationGoesTo(q, "recordings")
    /\ UNCHANGED <<inputVars, runVars>>

(* All of them have to be there and on one floor; where they are does not  *)
(* change.                                                                 *)
ReadRecordings(q) ==
    /\ creation[q].step = "recordings"
    /\ \/ creation[q].body.recordings \subseteq present /\ CreationGoesTo(q, "pipelines")
       \/ AnswerCreation(q, "refused", NoRun)
    /\ UNCHANGED <<inputVars, runVars>>

(* bindingFor: a required slot takes the one valid asset that fits it.     *)
BindingFor(d) == {a \in validAssets[d] : validAssets[d] = {a}}

ParametersOf(b, d, p) == (derivable[d] \cap Takes[p]) \cup b.given[p]

ParametersMatchSchema(names, p) == Requires[p] \subseteq names /\ names \subseteq Takes[p]

CanRun(b, p) ==
    /\ p \in available
    /\ \A d \in b.recordings : /\ BindingFor(d) # {}
                               /\ ParametersMatchSchema(ParametersOf(b, d, p), p)

(* The answer is 404, 409 or 400, or 502 when Nozomi does not answer.      *)
ResolvePipelines(q) ==
    /\ creation[q].step = "pipelines"
    /\ LET b == creation[q].body IN
       \/ /\ \A p \in b.pipelines : CanRun(b, p)
          /\ creation' = [creation EXCEPT ![q].step = "insert",
                            ![q].items = {i \in RunItems : /\ i.recording \in b.recordings
                                                           /\ i.pipeline \in b.pipelines
                                                           /\ i.bound \in BindingFor(i.recording)}]
       \/ \E p \in b.pipelines : ~CanRun(b, p) /\ AnswerCreation(q, "refused", NoRun)
       \/ AnswerCreation(q, "refused", NoRun)
    /\ UNCHANGED <<inputVars, runVars>>

------------------------------------------------------------------------------
(* The transaction.  A second insert of a key waits for the first one.     *)

RowsOfKey(k) == {q \in Creations : runRow[q] # "none" /\ creation[q].key = k}

InsertPositioningRun(q) ==
    /\ creation[q].step = "insert"
    /\ LET held == RowsOfKey(creation[q].key) IN
       \/ /\ held = {}
          /\ runRow' = [runRow EXCEPT ![q] = "open"]
          /\ CreationGoesTo(q, IF creation[q].body.groundTruth THEN "truth" ELSE "items")
       \/ /\ \E run \in held : runRow[run] = "committed"
          /\ CreationGoesTo(q, "clash") /\ UNCHANGED runRow
    /\ UNCHANGED <<inputVars, runItems, runJobs, truthObjects>>

RollBackRun(q) ==
    /\ runRow' = [runRow EXCEPT ![q] = "none"]
    /\ runItems' = [runItems EXCEPT ![q] = {}]
    /\ runJobs' = [runJobs EXCEPT ![q] = {}]

(* The object is no part of the transaction: a rollback leaves it.         *)
PutGroundTruth(q) ==
    /\ creation[q].step = "truth"
    /\ truthObjects' = truthObjects \cup {q}
    /\ CreationGoesTo(q, "items")
    /\ UNCHANGED <<inputVars, runRow, runItems, runJobs>>

InsertItemsAndJobs(q) ==
    /\ creation[q].step = "items"
    /\ runItems' = [runItems EXCEPT ![q] = creation[q].items]
    /\ runJobs' = [runJobs EXCEPT ![q] = creation[q].items]
    /\ CreationGoesTo(q, "commit")
    /\ UNCHANGED <<inputVars, runRow, truthObjects>>

(* The connection may break when the commit is already done.               *)
CommitRun(q) ==
    /\ creation[q].step = "commit"
    /\ runRow' = [runRow EXCEPT ![q] = "committed"]
    /\ AnswerCreation(q, "accepted", q) \/ AnswerCreation(q, "error", NoRun)
    /\ UNCHANGED <<inputVars, runItems, runJobs, truthObjects>>

(* A statement or the object store fails, or the process dies.             *)
AbortRun(q) ==
    /\ creation[q].step \in {"truth", "items", "commit"}
    /\ RollBackRun(q)
    /\ AnswerCreation(q, "error", NoRun)
    /\ UNCHANGED <<inputVars, truthObjects>>

(* The loser of a race looks for a constraint whose name differs from the  *)
(* one PostgreSQL gives the migration's UNIQUE clause, so it is an error.  *)
RethrowClash(q) ==
    /\ creation[q].step = "clash"
    /\ AnswerCreation(q, "error", NoRun)
    /\ UNCHANGED <<inputVars, runVars>>

------------------------------------------------------------------------------
(* What changes meanwhile: uploads and resources, constraints, Nozomi.     *)

RecordingAppears(d) ==
    /\ d \notin present
    /\ present' = present \cup {d}
    /\ UNCHANGED <<derivable, validAssets, stored, available, runVars, creation>>

(* An upload is validated, or the floor of the recording has got a map or  *)
(* another beacon layout, whose object is stored under its digest.         *)
AssetBecomesValid(d, a) ==
    /\ d \in present /\ a \notin validAssets[d]
    /\ validAssets' = [validAssets EXCEPT ![d] = @ \cup {a}]
    /\ stored' = [stored EXCEPT ![d] = @ \cup {a}]
    /\ UNCHANGED <<present, derivable, available, runVars, creation>>

(* The beacons of the floor have changed; the object of the old layout     *)
(* stays.                                                                  *)
ResourceGoes(d, a) ==
    /\ a \in validAssets[d]
    /\ validAssets' = [validAssets EXCEPT ![d] = @ \ {a}]
    /\ UNCHANGED <<present, derivable, stored, available, runVars, creation>>

UpdateRecordingConstraints(d, names) ==
    /\ d \in present /\ names # derivable[d]
    /\ derivable' = [derivable EXCEPT ![d] = names]
    /\ UNCHANGED <<present, validAssets, stored, available, runVars, creation>>

PipelineChanges(p) ==
    /\ available' = IF p \in available THEN available \ {p} ELSE available \cup {p}
    /\ UNCHANGED <<present, derivable, validAssets, stored, runVars, creation>>

RunCreationNext ==
    \/ \E q \in Creations :
          \/ RefuseCreation(q) \/ ReadRetriedRun(q) \/ ReadRecordings(q)
          \/ ResolvePipelines(q) \/ InsertPositioningRun(q) \/ PutGroundTruth(q)
          \/ InsertItemsAndJobs(q) \/ CommitRun(q) \/ AbortRun(q) \/ RethrowClash(q)
          \/ \E k \in IdempotencyKeys, b \in RunBodies : ReadRunOfKey(q, k, b)
    \/ \E d \in Recordings : \/ RecordingAppears(d)
                             \/ \E a \in Assets : AssetBecomesValid(d, a) \/ ResourceGoes(d, a)
                             \/ \E names \in SUBSET Parameters : UpdateRecordingConstraints(d, names)
    \/ \E p \in Pipelines : PipelineChanges(p)

RunCreationSpec == RunCreationInit /\ [][RunCreationNext]_creationVars

------------------------------------------------------------------------------
(* The run a request was told of is committed, was made for the same key   *)
(* and body, and is whole: an item with an outbox job for each recording   *)
(* and pipeline, bound to an asset whose object is stored, and the ground  *)
(* truth that came along.                                                  *)
WholeRun(q) ==
    /\ runRow[q] = "committed"
    /\ creation[q].body.groundTruth => q \in truthObjects
    /\ \A d \in creation[q].body.recordings, p \in creation[q].body.pipelines :
          \E i \in runJobs[q] : /\ i.recording = d /\ i.pipeline = p
                                /\ i.bound \in stored[d]

(* However requests race, one idempotency key names one run, and everybody *)
(* who was told of it asked for it and finds it whole.  A later request    *)
(* with the key and body is given the stored run, one with another body is *)
(* refused; the loser of a race is answered with an error (RethrowClash)   *)
(* and learns of no run.                                                   *)
OneRunPerKey ==
    \A q, r \in Creations :
        (creation[q].reply = "accepted" /\ creation[r].reply = "accepted"
           /\ creation[q].key = creation[r].key) =>
        /\ creation[q].named = creation[r].named
        /\ creation[q].body = creation[r].body
        /\ WholeRun(creation[q].named)
=============================================================================
