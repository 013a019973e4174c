# Formal models of okarin

Okarin records pedestrians' sensor data and turns it into trajectories and stay
heatmaps. **Kaede** (`src/apps/kaede`, TypeScript, PostgreSQL, S3) is the API the
mobile app and the dashboard use; **Nozomi** (`src/apps/nozomi`, Python, SQLite)
runs the analyses. They talk over HTTP: Kaede dispatches work, Nozomi calls back.
This directory holds TLA+ models of the parts where that conversation, the
database and the failures in between decide whether the system is right, the TLC
runs that check small instances, and TLAPS proofs for all of them.

## 1. Inventory

| Component | State | Operations | What is hard | What makes it correct |
|---|---|---|---|---|
| Outbox dispatch (`services/analysis-runs/outbox-*.ts`) | `outbox_jobs` (status, attempts, lease, run_at), the worker's batch | `tick`: claim, dispatch, retry, give up, expire timeouts | no transaction around a job; stale item reads; leases; crashes; several workers | attempts bounded, a dispatch is never lost, every item ends |
| Callback endpoint (`receive-positioning-analysis-callback.ts`) | run, items, `positioning_analysis_callbacks`, `trajectories`, output manifest | one transaction per event | repeated, late and concurrent callbacks; READ COMMITTED aggregation | outputs exactly once, rows consistent, run status backed by outputs |
| Execution service (`executions.py`, `pipeline_execution.py`) | `execution_records`, `callback_deliveries`, background tasks, retry thread | accept, run, call back, retry, recover | lost callbacks, crash between commits, stale retries, idempotency of requests | one verdict, callbacks agree with the record, every verdict delivered |
| Run creation (`create-positioning-analysis-run.ts`) | runs by idempotency key, items, jobs, ground truth objects | create | concurrent duplicates, unlocked reads, object written before commit | one run per key, an answer names a committed run |
| Stay heatmap (`create-stay-heatmap.ts`, `receive-callback.ts`, `stay_heatmap.py`) | `analysis_runs`, artifacts in the object store, signed callback token | create and submit, callback, expire at start-up and before every read of runs | lost answers both ways, `failed` after `completed`, late expiry | completed only with all artifacts, one final status |
| Trajectories (`usecases/trajectories`) | `trajectories.status`, result object, soft deletion | create and submit, callback, delete | a lost callback leaves `processing` for ever; deletion while in use | completed only with a result, final states are final |
| Recording upload (`usecases/recordings`, `migrate-recording-assets`) | `recordings.upload_status`, data assets and their validation, raw objects | init, put, refresh URLs, complete, fail, migrate | validation outside the lock, URLs that outlive it, concurrent completions | ready only when validated, final states are final |
| User accounts (`usecases/auth`, `admin-users`) | `users`, password, lock, activation tokens, sessions | create, activate, login, change password, logout, admin command | a login writes what it derived from an old read; links raced | one activation, a lock is earned |
| Google sign-in (`usecases/auth`) | `users`, `auth_identities` | sign in, link | no lock anywhere, two unique indexes | an answer names the owner of the Google account |
| Memberships and access (`membership-administration`, `organization-authentication`, `organization-local-auth`, `organization-oidc-auth`, `organization-authorization`) | memberships, settings, credentials, links, grants | administer, change settings, sign in, link, unlink, disable, request | grants written while they are being revoked; owners demoting each other; last methods taken together | an active owner remains, an effective grant is current |
| Invites (`organization-invites`) | invites, users, memberships | issue, reissue, revoke, accept with a password or through OIDC | accept racing revoke or a second accept | an invite is settled once |
| OIDC authorizations, mobile exchange (`organization-oidc-auth`, `mobile-session-exchange`) | authorization rows, single-use codes, sessions | start, callback, exchange | replay, expiry at the boundary, crash between statements | a state is completed once, its code exchanged once |
| Organizations and requests (`usecases/organizations`) | organizations, creation requests | create, request, approve, reject | approve racing reject, slugs raced | a request has one decision and makes one organization |
| Floors and beacons (`usecases/floors`, `usecases/beacons`) | rows; floors also a map object | create, patch, delete | the object beside the row; a count and an insert | a row names an object; limit, identity and position of beacons |
| Profiles (`usecases/profiles`) | global profile, overrides, audit events | edit one's own, edit a member's | overlapping edits | the trail names whose values stand |
| Authorization and reads (`usecases/*`, `authorization.ts`, `pagination.ts`) | none of their own | one read per endpoint, keyset pages | rows and roles that change between pages, timestamps coarser than rows | nothing outside the role, no row missed or shown twice |
| Storage, pipeline catalogue, buildings, pedestrians, routes, schemas, configuration, CLI, deployment | none with a life cycle | | | |

How they interact: creating a run commits the run, its items and one outbox job
per item in one transaction. The worker claims jobs, marks the item and the run,
and POSTs the item to Nozomi. Nozomi reserves the item in SQLite, answers 202 and
runs two background tasks: the *processing* callback, then the pipeline and its
*completed* or *failed* callback. Each callback is one transaction in Kaede, which
also creates the trajectory and recomputes the run's status. A timeout in the
worker fails items that stay processing for 30 minutes. Workers, callbacks and
Nozomi share no lock except the rows of PostgreSQL. Everything else in Kaede is
request against request: handlers of one component meet in its rows, under
READ COMMITTED, with `FOR UPDATE`, a conditional update or a unique index between
them where the code put one.

## 2. Plan

1. `ExecutionContract`, `PositioningAnalysis`, `NozomiExecution` and their proofs (done).
2. `AnalysisLifeCycle`, `TrajectoryAnalysis`, `StayHeatmap`, `AnalysisChain` and
   `AnalysisChainProofs` (done).
3. `RecordingUpload`, `RunCreation`, `FloorResources` and `MemberProfiles`: the
   resources of an organization (done).
4. `OrganizationAccess`, `OrganizationOnboarding`, `OidcHandover`, `UserAccounts`,
   `GoogleSignIn`: who may act and how one comes to (done).
5. `Authorization` and `OrganizationReads`: what the guards let through (done).
6. `KaedeRequests`, which composes 3 to 5 (done).
7. Theorems for every safety invariant and action property of the runs, in one
   module of proofs per group of components (done): `PositioningAnalysisProofs`,
   `NozomiExecutionProofs`, `AnalysisChainProofs` (with both kinds of analysis),
   `ResourceProofs` (recordings, runs, floors), `SignInProofs` (accounts, Google,
   OIDC handover), `OrganizationAccessProofs`, `OnboardingProofs` (invites, requests,
   profiles), and `KaedeRequestsProofs` (reads, and all of them side by side).
8. Left: the composition of `PositioningAnalysis` with the detailed
   `NozomiExecution` in place of the contract, for the liveness Kaede gets when
   Nozomi is up.

Modules that are proved about use no RECURSIVE operator; parameters are CONSTANTS
with a named assumption; invariants are conjunctions of named parts.

## 3. The modules

### ExecutionContract
What Nozomi promises about one execution, as a specification over the single
variable `record`: it is reserved at most once, reaches one verdict, and a
callback event tells no more than the record. `PositioningAnalysis` uses its
actions for the other side of the wire; `NozomiExecution` is checked and proved
to implement it (`ContractSpec`, with the identity mapping of `record`). Neither
model needs the other's detail.

### PositioningAnalysis
One action per statement that PostgreSQL commits.

- *Worker.* `pc[w]` is the statement of `tick` that worker `w` executes next.
  `ClaimJobs` (the one UPDATE of `claimPendingOutboxJobs`), `ReadItem`,
  `MarkItemProcessing`, `MarkRunProcessing`, `Dispatch...`, `CompleteJob`, then
  for a failure `RetryJob` or `FailJob`, `FailItem`, `ReadSiblings`,
  `WriteAggregate`; when the batch is empty `ScanTimeouts`, `PickTimedOut` and the
  same three steps. `seen` is the `job.attempts` the claim returned, which is what
  the catch block compares; `view` is the run status computed from the read items
  and written one statement later.
- *Dispatch.* Accepted reserves the execution; retriable may or may not have
  (timeout, 5xx, lost answer); rejected is any other status.
- *Callback.* `BeginCallback` stands for the transaction up to the sibling read of
  its aggregation, `CommitCallback` for the rest: under READ COMMITTED other
  transactions commit in between. The row lock is `RowFree`, which workers'
  updates also wait for. The CHECK constraint (`RowAllowed`) and the primary key
  of `trajectories` are guards: a refused statement rolls back and the request
  changes nothing.
- *Environment.* `NozomiFinishes`, the clock (`RetryFallsDue`, `LeaseExpires`,
  `ItemAges`), crashes (`AbandonTick`, `AbortCallback`).

Abstracted: ids, payloads, error messages, the contents of manifests (an item's
artifacts are listed or not), times (due, expired, older than the limit).

### NozomiExecution
One action per SQLite commit or HTTP call. Threads are the background task of
each item and the retry thread; `pc` walks through `send_callback_with_retry`
(`open`, `send`, `acked` or `nacked`, `park`), `run` is the pipeline. The
repository's RLock is `LockFreeFor`: the retry thread holds it from `retry_guard`
to the end of its send, everyone else for one commit. `Crash` stops every thread
at any point and a request on the wire may have arrived; the database survives
(`docker/compose.yml` mounts a volume). Recovery runs before requests are taken,
one commit at a time, and may itself be interrupted. A pipeline's result is any
verdict.

### AnalysisLifeCycle
What Kaede promises about an analysis that Nozomi reports by a callback, whatever
its kind: `outcome` starts once and ends once, ends completed only when the
outputs are `stored`, and what Nozomi was `told` (a 2xx answer to a callback) is
the outcome for good. Both kinds of analysis below are shown to implement it.

### TrajectoryAnalysis
The legacy analysis of a trajectory. No transaction is involved: the insert, the
two status updates of `createTrajectory`, the reads and the conditional update of
`receiveCallback` are a step each, and a deletion may fall between any two.
`tStage[h]` is the statement that callback request `h` executes next: `check` the
result object, `complete` or `fail` the row, read it again when no row matched
(`completeReread`, `failReread`). `tWire` keeps every callback sent, so a callback
is lost, late, repeated or overtaken by behaving as if it were delivered never,
later or twice. A refused callback changes nothing and is no step. Refinement:
`outcome` is `tStatus` with accepted and processing both open, `stored` is
`results`, `told` is `tTold`.

### StayHeatmap
The same conversation for heatmap runs, where creation inserts and starts the run
in one transaction, a completed callback is accepted only if the heatmap parses,
names exactly the run's trajectories and every CSV exists (`ArtifactsOK`), an
invalid set of artifacts fails the run, and a process that starts, or a read of
analysis runs, fails every overdue run in one UPDATE (`ExpireOverdueRuns`). Nozomi's task uploads a CSV per input,
then the heatmap, and reports once; an exception anywhere, the completed callback
included, is reported as a failure. Refinement: `stored` is the set of runs whose
artifacts pass the verification.

### AnalysisChain
Both, with the read that links them: `createStayHeatmap` validates its
trajectories before the transaction that inserts the run, and a deletion may come
in between. That the trajectories of a run exist (`ChainConstantsOK`) is the foreign
key of `analysis_run_trajectories`.

### The request modules
Ten modules model a component each whose requests race one another. They share
one form: a variable says which statement each request executes next, a step is
one statement or one transaction, reads that no lock protects are remembered until
they are used, and a request may die between any two steps. Reads under a lock and
the commit that ends it are two steps whose guard is the lock, so that what runs
without a lock still falls in between.

- `RecordingUpload`: one recording. Clients put objects of any content while
  complete-upload requests download and check them one by one, then lock and
  record; fail-upload requests overtake them; the migration command links objects
  of older recordings as assets. `seen[c]` is what a
  completion found, the object may be another one by the time it commits.
- `UserAccounts`: one account with its activation links. A login reads the row,
  hashes, and writes the counter it derived from the read; an activation checks a
  token in one statement and marks it in another; the index admits one active
  token.
- `GoogleSignIn`: callbacks that look for the identity, then the user, then attach
  or create, with the two unique indexes as the only protection.
- `OrganizationAccess`: memberships and their administration, the settings with
  their version, password credentials and OIDC links, grants. An OIDC sign-in
  reads the settings, talks to the provider and locks afterwards. `Admit` is the
  check of each request to an organization's routes.
- `OrganizationOnboarding`: invites (issue, reissue, revoke, lapse, acceptance
  with a password or through OIDC) and requests for organizations (submit, approve,
  reject), with the locks on the invite or the request and the unique indexes on
  everything else.
- `OidcHandover`: the row of one authorization and its code. Claim, completion,
  issue of the code, exchange and rotation of the session's token are the
  statements of the code, and a crash may come between any two.
- `RunCreation`: the reads of `createPositioningAnalysisRun`, which nothing locks,
  and its transaction with the ground truth object; the loser of a race on a key
  gets an error (`RethrowClash`, section 6), its retry the stored run.
- `FloorResources`: image first, row second, clean-up if the insert failed, which
  includes the answer to an insert that did take effect; beacons counted and
  inserted under their floor's lock; patches that write back an unlocked read.
- `OrganizationReads`: one client reads while rows come, complete and go and roles
  change, between two requests and in the middle of one, which has loaded them at its
  start; `heldIn` records what the client held meanwhile. An action per endpoint names its guard and its kind of answer; lists are
  read page by page with the cursor as the code encodes it. `created_at` has ticks
  finer than a millisecond (`MicrosPerMilli`). The guards are the operators of
  `Authorization`.
- `MemberProfiles`: edits of the global profile and of the overrides, with the
  audit trail. `author` and `overtaken` record whose value a field holds and which
  fields others changed between the read and the write of an edit.

### KaedeRequests
The ten modules side by side. No two of them share a row that one changes and
another relies on (what they share are users and memberships, whose states each
module lets change freely where it reads them), so their interleavings add no
behaviour to any of them: `focus` picks the component whose requests run. One run
then covers all of them at the cost of the sum of their state spaces instead of
the product. `RequestsRunEach` proves that whatever the whole does, each component
does what it does alone.

## 4. The runs

Every run checks for deadlock but `analysis_chain`, `kaede_requests` and
`beacon_cursor`, whose requests, tasks and clocks may all have come to their end. Bounds are constants in the cfg.

| Run | Instance | Checks |
|---|---|---|
| `positioning_one_worker` | 1 worker, 2 items with artifacts, 1 attempt, 1 lease expiry, 1 fault | `TypeOK`, `ItemRowsConsistent`, `CompletedOnce`, `RunStatusBacked`, `NoLostDispatch`, `CallbackNeverUndoesCompleted` |
| `positioning_termination` | 2 workers, 1 item, 2 attempts, 1 lease expiry, fair | `RetryLimitKept`, `HoldersBounded`, `EventuallyTerminal` |
| `nozomi_safety` | 2 items, 2 sends per callback, 1 crash | `NozomiTypeOK`, `CallbacksWithinContract`, `NoStaleProcessing`, `NoOrphanExecution`, `OnlyCrashesLoseVerdicts`, `ContractSpec` |
| `nozomi_delivery` | 2 items, 1 send, no crash, fair | `VerdictDelivered` |
| `analysis_chain` | 1 trajectory, 1 heatmap run over it, 2 callback requests of each kind at a time | `TrajectoryTypeOK`, `TrajectoryAnswersHold`, `TrajectoryLifeCycle`, `HeatmapTypeOK`, `CompletedHasArtifacts`, `AnswersHold`, `OneLifeCycle`, `InputsStayCompleted` |
| `kaede_requests` | 2 requests of each kind, 2 people, 3 rows to read in 2 organizations | `RequestsTypeOK`, `ReadyIsValidated`, `UploadAnswersHold`, `UploadEndsOnce`, `AccountsHold`, `GoogleAnswersHold`, `OwnerRemains`, `GrantsAreCurrent`, `OwnMethodsRemain`, `InviteSettledOnce`, `PetitionDecidedOnce`, `HandedOverOnce`, `OneRunPerKey`, `FloorResourcesHold`, `ReadsHold`, `TrailNamesAuthors` |
| `claim_boundary`, `parent_aggregation`, `failed_job_crash`, `nozomi_restart`, `nozomi_ground_truth`, `beacon_cursor` | see section 6 | one property each, violated |

Why the bounds are enough. Two items are the least that make aggregation
interesting, and any set of sibling statuses of more items has the same four
summaries (all completed, all failed, mixed, open) that two items reach. The
jobs of different items meet only in a worker's batch and in the run's row, so
properties of one job (`positioning_termination`) need one item. One lease expiry
gives the slow worker and one new holder; that a late write of the slow one never
creates a third is `LeasesBoundHolders`, proved for any number of workers and
expiries. `MaxAttempts` 1 or 2 instead of 3 keeps
the first, the middle and the last attempt apart where it matters. Symmetry is
used for workers, callback requests and items in safety runs only, where
they are interchangeable and no run of that cfg checks liveness. `deploy` runs a single
Kaede, but nothing in the code enforces it and the claim is written for several
(`FOR UPDATE SKIP LOCKED`, leases), so several workers are modelled. The run takes
one crash of Nozomi at any point of its normal work; a second crash, during the
recovery from the first, is covered by the theorems, which hold for any number of
crashes (section 5). In `analysis_chain` two requests in flight are the least that
race for the same row; rows of different trajectories or runs never meet, so one of
each is enough. Several inputs of one run, and any number of requests, are covered
by the theorems about `StayHeatmap`. In `kaede_requests` two requests of each
kind are what it takes to race; password changes, floor requests and beacon
patches come once, since what they race with are requests of the other kinds. Three
puts (`MaxPuts`) replace an object once per target and once more; two wrong
passwords (`MaxFailedLogins`, 5 in the code) tell the first from the last;
`MaxVersion` 1 and `MaxChanges` 1 let the settings and a membership change once
under a sign-in, `MaxBegun` 2 lets two requests be under way; the theorems lift all
of these, and the number of requests, people and rows. A limit of one beacon per floor is reached by
the first of two. Pages of one row make every row a page boundary, and
`MicrosPerMilli` 2 with two stamps (`StampsOf`: the lower row may be as old as the
higher one or later) puts two rows into one millisecond, where a
cursor that lost precision would skip or repeat a row. One change of membership in
the middle of a request (`MaxHeld` 1) makes the roles it goes by stale. Interchangeable requests and
people are symmetric. Items whose pipeline yields no artifacts occur
in the runs of single properties and in the theorems, which hold for any
`ArtifactItems`.

Fairness. A worker's tick continues and is rescheduled whatever became of the
last one (`start` reschedules in `finally`), a transaction ends, and time passes:
weak fairness of those actions, none for Nozomi's answers, verdicts or callbacks,
so `EventuallyTerminal` holds even if Nozomi never says a word. In Nozomi,
threads and the retry loop run, an execution ends, and a callback sent again and
again is accepted in the end (strong fairness of `SendSucceeds`: Kaede comes
back).

## 5. What is proved

For every value of the constants that satisfies the modules' assumptions, under the
specification without fairness. Each module names its assumption (`ConstantsOK`,
`UploadConstantsOK`, `AccountConstantsOK` and so on), and TLC evaluates it on every
run. They leave open how many items, workers, attempts, crashes, recordings, people,
rows and requests there are, and ask for little: limits are numbers, a marker such
as `NoOne` or `NoRun` is none of the things it stands in for, the requests of one
kind are not those of another, foreign keys point at rows (`ChainConstantsOK`,
`ReadConstantsOK`). Three tables are finite because the proofs count them or take
their least row: the logins (`AccountConstantsOK`), the invites
(`OnboardingConstantsOK`) and the rows of a list (`ReadConstantsOK`).

| Theorem | States |
|---|---|
| `TypeCorrect`, `NozomiTypeCorrect`, `TrajectoryTypeCorrect`, `RequestsTypeCorrect` | `TypeOK`, `NozomiTypeOK`, `TrajectoryTypeOK`, `RequestsTypeOK` |
| `UploadTypeCorrect`, `AccountsTypeCorrect`, `GoogleTypeCorrect`, `AccessTypeCorrect`, `OnboardingTypeCorrect`, `HandoverTypeCorrect`, `CreationTypeCorrect`, `FloorsTypeCorrect`, `ReadsTypeCorrect`, `ProfilesTypeCorrect` | the ten type invariants that `RequestsTypeOK` joins |
| `RowsStayConsistent` | `ItemRowsConsistent` |
| `OutputsExactlyOnce` | `CompletedOnce` |
| `RunStatusIsBacked` | `RunStatusBacked` |
| `CallbackKeepsCompleted` | `CallbackNeverUndoesCompleted` |
| `LeasesBoundHolders` | `HoldersBounded` |
| `RetriesAreLimited` | `RetryLimitKept` |
| `DispatchNotLost` | `NoLostDispatch`, if there is one worker (`OneWorker`) |
| `CallbacksAgree` | `CallbacksWithinContract` |
| `ExecutionsHaveTasks` | `NoOrphanExecution` |
| `NoProcessingAfterVerdict` | `NoStaleProcessing` |
| `OnlyACrashLosesAVerdict` | `OnlyCrashesLoseVerdicts` |
| `ImplementsContract` | `ContractSpec`: every step of Nozomi is a step of the contract or leaves `record` alone |
| `HeatmapTypeCorrect` | `HeatmapTypeOK` |
| `CompletedArtifacts` | `CompletedHasArtifacts` |
| `AnswersStayTrue` | `AnswersHold` |
| `HeatmapLifeCycle` | `OneLifeCycle`: every step is a step of `AnalysisLifeCycle` or a stutter |
| `TrajectoryAnswersStayTrue` | `TrajectoryAnswersHold` |
| `TrajectoryHasOneLife` | `TrajectoryLifeCycle`, the refinement for trajectories |
| `ChainRefinesBoth` | a behaviour of the chain is one of `TrajectorySpec` and of `HeatmapSpec` |
| `InputsCompleted` | `InputsStayCompleted` |
| `OneRunForEachKey` | `OneRunPerKey` |
| `HandedOverExactlyOnce` | `HandedOverOnce` |
| `FloorsAndBeaconsInOrder` | `FloorResourcesHold` |
| `GoogleAnswersStayTrue` | `GoogleAnswersHold` |
| `AnOwnerRemains` | `OwnerRemains` |
| `GrantsStayCurrent` | `GrantsAreCurrent` |
| `MethodsRemain` | `OwnMethodsRemain` |
| `ReadyMeansValidated` | `ReadyIsValidated` |
| `UploadAnswersStayTrue` | `UploadAnswersHold` |
| `UploadEndsOnlyOnce` | `UploadEndsOnce` |
| `ActivatedOnceAndLockEarned` | `AccountsHold` |
| `InviteSettlesOnce` | `InviteSettledOnce` |
| `PetitionDecidesOnce` | `PetitionDecidedOnce` |
| `TrailTellsAuthors` | `TrailNamesAuthors` |
| `ReadsAreRight` | `ReadsHold` |
| `RequestsRunEach` | a behaviour of `RequestsSpec` is one of the specification of each of its ten components |
| `RequestsKeepPromises` | under `RequestsSpec`, every property the run `kaede_requests` checks |

`RunStatusBacked` is not inductive: a status is computed from items, kept in a
worker's `view` or a transaction's `txView`, and written later, when the items may
have moved on. The argument is that evidence only grows. `RunInv` says that the
run's status *and every status in somebody's hand* are backed by trajectories
rows, which nothing deletes; items may fall back to processing or failed but their
trajectory stays. `OutputsAgree` ties completed items to trajectories and events,
and an open completed transaction to the row it is about to insert. `OpenIsFirst`
says that such a transaction is the only one its item ever has: an event once recorded
opens none.
`RowInv` strengthens `ItemRowsConsistent` with what a worker is about to write
(`ErrorInHand`: it carries an error exactly when its next item update is a failure)
and with the acceptance of an open transaction's update (`UpdateAccepted`), which
the row lock keeps true until the commit. `NozomiInv` relates each thread's
position to the record: a thread in `run` has a processing record, one that sends
carries an event the record allows (`SendInv`), a processing record has a task
(`TaskInv`), delivery rows and received events agree with the record
(`EventsBacked`), and recovery's item is failed (`RecoveryInv`).
For heatmaps, `CompletedHasArtifacts` needs what a handler holds between its
verification and its update: `ArtifactInv` says that the run of a handler about to
complete has its artifacts, and that the heatmap object is missing as long as the
task is analysing, so an upload never overwrites what was verified; that a run has
one task at most comes from `CreationInv`. `AnswersHold` then follows from
`StatusStep`, that a row which has ended stays as it ended, and the refinement
from the few steps that touch a row, an object or an acknowledgement
(`QuietOrLoud`).
Trajectories follow the same argument with `ResultInv` (a result is stored once, by
the only task, and is there when a handler is about to complete) in the place of
`ArtifactInv`; a create request that answered an error relies on a row that has
ended or is deleted, and neither is undone (`GoneStays`). In the chain, what was
read before the transaction stays good because a completed trajectory never
leaves that status, whether or not it is deleted (`ReadInputsInv`).
For the outbox, `HandInv` says for each worker (`InHand`) that the job in its hand
is not in its batch as well, when it retries and when it gives up, and that the
attempts it remembers are never ahead of the row's.
`HoldersBounded` and `RetryLimitKept` count, so `ClaimInv` gives both a potential
(`Paid`): the holders of a job, plus one while the job can be claimed, are at most
one plus the leases that ran out; and once the attempts have reached the limit, they
and the claims still to come (one if the job is open, one for each holder who
remembers fewer attempts than the limit) are at most the limit plus those leases.
No statement of the worker adds a holder but the claim, which uses up the open job,
and only an expired lease, or a holder that puts the job back, opens it again. `ExhaustedInv` adds that an item failed for exhausted retries has used
its attempts. `ReachedInv`, for one worker, says that a job about to be
completed, or completed, reached Nozomi or belongs to an item that has ended.

In Nozomi, `FreshInv` says that a processing callback waiting for its retry, or in
the retry thread's hand, has no delivery row of a verdict beside it
(`RowsSuperseded`, `RetriesFresh`), because opening that row supersedes the retry
and the thread sends under the lock, and that whatever is being sent has its row
(`RowsOpened`). For `OnlyACrashLosesAVerdict`, `HandoffInv` says that an
acknowledged callback has arrived and that recovery has no item in hand outside the
writing of its row; with these a step either hands the verdict on or crashes
(`VerdictStep`).

For runs, `RowsInv` ties rows to requests: a row exists from its request's insert
on, a key has one row, open or committed, and a request answered with a run names a
committed one of its own key and body. `WholeInv` says what an open transaction has
written by each statement, and that a committed run has its items, jobs and ground
truth. For the handover, `CallersInv`, `CallbackInv`, `CodeInv` and `SessionInv`
relate the statement a request is at to the row, the code and the session: at most
one callback serves a claimed row, at most one exchange rotates after a code, and a
code names a session of the user who signed in.
For floors, `PlaceInv` says that a position in a patch's hand is on the map and
`CountInv` that a floor still has room when the insert after a count is due. For
Google sign-in, `GoogleIdentityInv` keeps subjects and users one to one, and `ReadInv`
says that a user in a callback's hand fits its claims (`Fits`).
For access, `LocksInv` says that one request administers at a time and one holds a
member's row. `OwnerInv` says that a request about to take the role of an active
owner, counted under the lock of the organization, still leaves another. `GrantInv`
says that a grant, and a sign-in under way, that carries the current policy version
knows the current settings: versions never come back. `MethodInv` says that what a
request that gives up one method has seen of the other is still so, since it holds
the member's row.

For recordings, `UploadInv` adds to the two properties what a completion has
learned without a lock and may still rely on (`CompletionKnows`): raw objects, once
there, are never removed, only replaced, and the assets that must be validated are
all linked by the insert, so a completion that has read the links knows them; an
asset the migration links later is not among them, which is why it may be invalid
on a ready recording (section 6).
For accounts, `OneToken` says that at most one token is active and one was used, and
that an activation which holds a token read as active finds it active no more if one
was used meanwhile. `CountersEarned` makes the lock a matter of counting: the failed
counter, in the row or in the hand of a login about to write it, never exceeds the
wrong passwords answered so far, so however stale the value written, `MaxFailedLogins`
wrong passwords were really given.
For invites, `InvitesInv` expresses the row lock: one transaction at most accepts an
invite, which stays open until it commits; what was answered about an invite is the
one sequence its state allows (`SettledAs`), and a person entered as often as there
are invites used up in their name. `PetitionsInv` does the same for requests and
their approval, and adds that a requester with a pending request under approval owns
no organization, which keeps anyone from coming to own two by approvals.
For profiles, `ReadsCurrent` says that what a running edit read is what the row still
holds, but for the fields other edits have changed since (`overtaken`), so among the
others the fields its event names are all it changes.
For reads, `BetweenPages` relates what was shown to the cursor: no row shown lies
after it, and each row that was there when the first page was read and stayed has
been shown or lies after it. A page (`PageIsFirst`) is the first `PageSize` rows after the cursor in
the order of stamps and ids, so moving the cursor to its last row (`CursorMoves`)
keeps both, however large pages are and however many rows share a stamp.
`Served` follows from the guards of `Authorization` in the step itself, in the roles
the request has loaded; `RolesWereHeld` ties those to the memberships the client has
held since (`heldIn`), whatever becomes of them before the answer.
Side by side, a step of `KaedeRequests` is a step of one component and leaves the
variables of the others alone (`StepIsOfEach`), so each component's theorems carry
over as they stand.

The inductive invariants were model-checked as well: `RunInv`, `RowInv` and
`NozomiInv` on the instances of section 4 before they were proved, and those of all
ten request components on the instance of `kaede_requests`, by a copy of
`MCKaedeRequests` that extends `KaedeRequestsProofs`.

Model-checked only: the liveness properties `EventuallyTerminal` and
`VerdictDelivered`, which the prover does not reach (fairness and ENABLED), and that
what the code's own statements say is violated (section 6), for which one behaviour
is enough. `NoLostDispatch` is proved under the condition the table names; without it
the code does not keep it.

## 6. Where the code and its own statements differ

- `claim_boundary`: `positioning-analysis-run-repository.ts:79` announces a claim
  with `status = 'queued'` that the worker will make before it dispatches; the
  worker updates the item unconditionally (`outbox-worker.ts:288`). After a lost
  answer the item may be completed by its callback and then set back to
  processing; its second dispatch finds the execution known, no callback follows
  (its event is already recorded), and the timeout fails the item.
- `parent_aggregation`: two callbacks of sibling items commit concurrently, each
  aggregating without the other's outcome; the run stays processing for good.
- `failed_job_crash`: a crash between `outbox-worker.ts:298` and `:299` while the
  item is still queued (its earlier attempts failed before line 288) leaves it
  queued for ever.
- `nozomi_restart`: `README.md:33` of Nozomi promises that undelivered callbacks
  are sent again after a restart; a crash after the verdict's commit and before
  its delivery row, or while the row is pending or failed, loses it. Kaede's
  timeout then fails a completed execution.
- `nozomi_ground_truth`: with a ground truth input the fingerprint contains a
  presigned URL, so a retried dispatch is refused with 409, which Kaede takes as
  fatal, and fails an item that is running.
- `beacon_cursor`: the list of beacons builds its cursor from `toISOString()`,
  three fractional digits (`beacons/index.ts:79`), where the schema of cursors
  demands six; `pagination.ts:47` promises a cursor on every page but the last. A
  list with more rows than its limit fails with 500.

What the models showed beyond that, without a run of its own:

- *Uploads.* A migrated asset can be recorded invalid on a ready recording. A
  clock that jumps back makes the final update violate its CHECK, answered 500.
- *Accounts.* A wrong-password write from an old read undoes a lock or a reset. A
  login with the old password may open a session after a password change has
  revoked all. A second activation within the window is answered ok and its
  password ignored. `--reset-password` leaves sessions alive. The failed counter is
  not reset when a lock runs out (`login.ts:165`).
- *Access.* The membership upsert overwrites an owner's role without the check for
  the last owner (`ownerEnrolled`). An OIDC sign-in may leave a grant after a
  concurrent revocation of the membership's grants. A login and an administration
  that sets `left` take locks in opposite orders; PostgreSQL aborts one.
- *Onboarding.* Somebody invited elsewhere while a request is approved ends with
  two memberships.
- *Handover.* The rotation of the session's token is a statement after the code is
  spent: a crash in between loses both. It invalidates the browser's cookie.
- *Run creation.* The loser of a race on a key looks for the constraint
  `positioning_analysis_runs_organization_idempotency_key_key`
  (`create-positioning-analysis-run.ts:311`), but PostgreSQL names the migration's
  unnamed UNIQUE after its columns (`..._organization_id_idempotency_key_key`), so
  the loser gets an error (`RethrowClash`) instead of the existing run that
  `create-positioning-analysis-run.test.ts:477` speaks of. A rollback orphans the ground truth object.
- *Floors.* If the answer to an insert is lost, the image of a live floor is
  deleted (the exception in `FloorHasImage`); a failed clean-up leaves an image
  nobody names.
- *Profiles.* Of two overlapping edits one may write back what the other changed,
  and no event says so: `TrailNamesAuthors` holds of every field but those
  (`overtaken`).

## 7. Not modelled

No liveness is claimed for heatmap runs and legacy trajectories: a run whose
callback is lost stays processing until a process starts, or somebody reads runs,
after its deadline, and a trajectory for ever (no timeout exists for
trajectories). The numeric pipelines, the object store's contents, signatures,
request validation and presentation are abstracted or left out: their outcomes are
nondeterministic choices where they matter. A second Nozomi process on the same
SQLite file is excluded by the code's own docstring (`retry_guard`). Deadlocks
inside PostgreSQL end by its aborting one transaction, which the models have as a
request that dies; whether it comes to that is not asked.

Left out of modelled components: setting a floor's name, level or scale, creating a
building or a pedestrian (single statements no property is about), the pipeline
catalogue's cache, and the guards in `usecases/authorization.ts` that no code calls.
Some actions cannot fire and are there because the code has the branch: the refusal
of disabled Google users (no code sets that status) and the consumption of an
invite that misses under the lock. Routes, schemas, middleware, configuration and
deployment hold no state; where one decides something, the module of its use case
models the decision.
