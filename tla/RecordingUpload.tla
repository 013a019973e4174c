--------------------------- MODULE RecordingUpload ---------------------------
(***************************************************************************)
(* The upload of one recording: initRecording inserts it with its data     *)
(* assets and signs upload URLs, the client puts objects directly into the *)
(* store, and concurrent complete-upload and fail-upload requests decide   *)
(* its upload_status.  The command-line migration links raw objects of     *)
(* older recordings as data assets.                                        *)
(*                                                                         *)
(* Objects are downloaded and checked before the recording is locked, and  *)
(* a signed URL stays usable until it lapses, so a check may be about an   *)
(* object that has been replaced since.                                    *)
(***************************************************************************)
EXTENDS Naturals, FiniteSets

CONSTANTS
    Targets,        \* upload_targets of the recording, "metadata" among them
    AssetTypes,     \* data types of the catalog
    Contents,       \* object -> the contents a client may put there
    MaxPuts,        \* bound on the objects the client puts
    Completions,    \* complete-upload requests
    Failures,       \* fail-upload requests
    PayloadOf       \* fail-upload request -> the failure it reports

Raw(t) == <<"raw", t>>
Asset(t) == <<"asset", t>>
Raws == {Raw(t) : t \in Targets}
Objects == Raws \cup {Asset(t) : t \in AssetTypes}
Content == {"absent", "good", "bad", "empty", "legacy", "backwards"}
Payloads == {PayloadOf[f] : f \in Failures}
Nothing == [t \in AssetTypes |-> "unseen"]

ASSUME UploadConstantsOK ==
    /\ "metadata" \in Targets
    /\ Contents \in [Objects -> SUBSET (Content \ {"absent"})]
    /\ MaxPuts \in Nat
    /\ Completions \cap Failures = {}
    /\ Payloads \cap {"none", "ASSET_STRUCTURE_INVALID"} = {}

VARIABLES
    uploadStatus,   \* recordings.upload_status, "absent" before the insert
    uploadFailure,  \* recordings.upload_failure, "none" when NULL
    link,           \* recording_data_assets: "none", "own" object or "raw" object
    validation,     \* data_assets.validation_status, with the code when invalid
    checksum,       \* content whose checksum the asset's object row holds
    content,        \* what the object store holds
    urls,           \* objects with an upload URL that has not lapsed
    puts,           \* objects put so far
    uploadStep,     \* request: what it does next
    listed,         \* completion: asset types it has read from the database
    seen,           \* completion: what it found in their objects
    uploadReply     \* request: what it answered

recordingVars == <<uploadStatus, uploadFailure, link, validation, checksum>>
objectVars    == <<content, urls, puts>>
requestVars   == <<uploadStep, listed, seen, uploadReply>>
uploadVars    == <<recordingVars, objectVars, requestVars>>

Ended == {"ready", "failed"}
Uploaders == Completions \cup Failures
(* "no" is every refusal and error.                                        *)
UploadReply == {"none", "no", "ready", "failed", "was_ready", "was_failed"}

UploadTypeOK ==
    /\ uploadStatus \in {"absent", "accepted"} \cup Ended
    /\ uploadFailure \in {"none", "ASSET_STRUCTURE_INVALID"} \cup Payloads
    /\ link \in [AssetTypes -> {"none", "own", "raw"}]
    /\ validation \in [AssetTypes -> {"none", "pending", "valid", "NO_SAMPLES", "invalid"}]
    /\ checksum \in [AssetTypes -> Content]
    /\ content \in [Objects -> Content]
    /\ urls \subseteq Objects
    /\ puts \in 0..MaxPuts
    /\ uploadStep \in [Uploaders -> {"idle", "list", "raws", "assets", "decide", "mark", "over"}]
    /\ listed \in [Completions -> SUBSET AssetTypes]
    /\ seen \in [Completions -> [AssetTypes -> Content \cup {"unseen"}]]
    /\ uploadReply \in [Uploaders -> UploadReply]

UploadInit ==
    /\ uploadStatus = "absent"
    /\ uploadFailure = "none"
    /\ link = [t \in AssetTypes |-> "none"]
    /\ validation = [t \in AssetTypes |-> "none"]
    /\ checksum = [t \in AssetTypes |-> "absent"]
    /\ content = [o \in Objects |-> "absent"]
    /\ urls = {}
    /\ puts = 0
    /\ uploadStep = [q \in Uploaders |-> "idle"]
    /\ listed = [c \in Completions |-> {}]
    /\ seen = [c \in Completions |-> Nothing]
    /\ uploadReply = [q \in Uploaders |-> "none"]

------------------------------------------------------------------------------
(* initRecording and the client's uploads.                                 *)

(* One transaction inserts the recording and an asset for each data type   *)
(* of the payload; then every object gets its URL.                         *)
InitRecording ==
    /\ uploadStatus = "absent"
    /\ uploadStatus' = "accepted"
    /\ \E types \in SUBSET AssetTypes :
        /\ link' = [t \in AssetTypes |-> IF t \in types THEN "own" ELSE "none"]
        /\ validation' = [t \in AssetTypes |-> IF t \in types THEN "pending" ELSE "none"]
        /\ urls' = Raws \cup {Asset(t) : t \in types}
    /\ UNCHANGED <<uploadFailure, checksum, content, puts, requestVars>>

(* Only the raw targets of an accepted recording get fresh URLs; a client  *)
(* that asks for some of them is one that does not use the others.         *)
RefreshUploadUrls ==
    /\ uploadStatus = "accepted"
    /\ ~(Raws \subseteq urls)
    /\ urls' = urls \cup Raws
    /\ UNCHANGED <<recordingVars, content, puts, requestVars>>

UrlsLapse ==
    /\ urls # {}
    /\ urls' = {}
    /\ UNCHANGED <<recordingVars, content, puts, requestVars>>

Put(o) ==
    /\ o \in urls
    /\ puts < MaxPuts
    /\ puts' = puts + 1
    /\ \E c \in Contents[o] : content' = [content EXCEPT ![o] = c]
    /\ UNCHANGED <<recordingVars, urls, requestVars>>

------------------------------------------------------------------------------
(* What the validations find.                                              *)

ObjectOf(t) == IF link[t] = "raw" THEN Raw(t) ELSE Asset(t)

(* Mutant: an asset of any type may be empty.                              *)
AnyTypeAccepts(t, c) == c \in {"good", "backwards", "empty"}

(* An asset is fit when it validates; a BLE asset may also be empty.  A    *)
(* sensor file with legacy column names validates only in the migration,   *)
(* and the wall clock of a file that validates may run backwards.          *)
Accepts(t, c) == c \in {"good", "backwards"} \/ (t = "ble" /\ c = "empty")

(* Mutant: what was found is stored as the status.                         *)
RecordedAsFound(c) == c

Recorded(c) ==
    CASE c \in {"good", "backwards"} -> "valid"
      [] c = "empty" -> "NO_SAMPLES"
      [] OTHER -> "invalid"

------------------------------------------------------------------------------
(* Requests.                                                               *)

(* What a completion had read is forgotten with its request.               *)
Answer(q, reply) ==
    /\ uploadStep' = [uploadStep EXCEPT ![q] = "over"]
    /\ uploadReply' = [uploadReply EXCEPT ![q] = reply]
    /\ listed' = [c \in Completions |-> IF c = q THEN {} ELSE listed[c]]
    /\ seen' = [c \in Completions |-> IF c = q THEN Nothing ELSE seen[c]]

Advance(q, step, read, found) ==
    /\ uploadStep' = [uploadStep EXCEPT ![q] = step]
    /\ listed' = [c \in Completions |-> IF c = q THEN read ELSE listed[c]]
    /\ seen' = [c \in Completions |-> IF c = q THEN found ELSE seen[c]]
    /\ UNCHANGED uploadReply

(* Unknown recording, no access to it, or targets that are not its own.    *)
RefuseUploader(q) ==
    /\ uploadStep[q] = "idle"
    /\ Answer(q, "no")
    /\ UNCHANGED <<recordingVars, objectVars>>

AnswerEnded == [ready |-> "was_ready", failed |-> "was_failed"]

ReadForCompletion(c) ==
    /\ uploadStep[c] = "idle"
    /\ \/ uploadStatus = "accepted" /\ Advance(c, "list", {}, Nothing)
       \/ uploadStatus = "ready" /\ Answer(c, "ready")
       \/ uploadStatus = "failed" /\ Answer(c, "was_failed")
    /\ UNCHANGED <<recordingVars, objectVars>>

ListObjects(c) ==
    /\ uploadStep[c] = "list"
    /\ IF \E o \in Raws : content[o] = "absent"
       THEN Answer(c, "no") ELSE Advance(c, "raws", {}, Nothing)
    /\ UNCHANGED <<recordingVars, objectVars>>

(* The metadata and, when it is a target, the BLE file; other raw files    *)
(* are not looked into.  Then the assets are read from the database.       *)
ValidateRaws(c) ==
    /\ uploadStep[c] = "raws"
    /\ IF \E t \in Targets \cap {"metadata", "ble"} : content[Raw(t)] # "good"
       THEN Answer(c, "no")
       ELSE LET types == {t \in AssetTypes : link[t] # "none"} IN
            Advance(c, IF types = {} THEN "mark" ELSE "assets", types, Nothing)
    /\ UNCHANGED <<recordingVars, objectVars>>

ValidateAsset(c, t) ==
    /\ uploadStep[c] = "assets"
    /\ t \in listed[c]
    /\ seen[c][t] = "unseen"
    /\ Advance(c, IF \A u \in listed[c] \ {t} : seen[c][u] # "unseen" THEN "decide" ELSE "assets",
               listed[c], [seen[c] EXCEPT ![t] = content[ObjectOf(t)]])
    /\ UNCHANGED <<recordingVars, objectVars>>

HasInvalidAsset(c) == \E t \in listed[c] : ~Accepts(t, seen[c][t])

(* Mutant: the status read before the validations is relied upon.          *)
AlwaysStillAccepted == TRUE

(* The row is locked and read again, FOR UPDATE.                           *)
StillAccepted == uploadStatus = "accepted"

DecideTooLate(c) ==
    /\ uploadStep[c] = "decide"
    /\ ~StillAccepted
    /\ Answer(c, IF HasInvalidAsset(c) THEN "no" ELSE AnswerEnded[uploadStatus])
    /\ UNCHANGED <<recordingVars, objectVars>>

(* ended_at before started_at violates a CHECK: the transaction is undone. *)
DecideRaises(c) ==
    /\ uploadStep[c] = "decide"
    /\ StillAccepted
    /\ \E t \in listed[c] : seen[c][t] = "backwards"
    /\ Answer(c, "no")
    /\ UNCHANGED <<recordingVars, objectVars>>

Decide(c) ==
    /\ uploadStep[c] = "decide"
    /\ StillAccepted
    /\ \A t \in listed[c] : seen[c][t] # "backwards"
    /\ validation' = [t \in AssetTypes |->
                        IF t \in listed[c] THEN Recorded(seen[c][t]) ELSE validation[t]]
    /\ checksum' = [t \in AssetTypes |->
                      IF t \in listed[c] /\ seen[c][t] = "good" THEN "good" ELSE checksum[t]]
    /\ IF HasInvalidAsset(c)
       THEN /\ uploadFailure' = "ASSET_STRUCTURE_INVALID"
            /\ UNCHANGED uploadStatus
            /\ Answer(c, "no")
       ELSE /\ uploadStatus' = "ready"
            /\ uploadFailure' = "none"
            /\ Answer(c, "ready")
    /\ UNCHANGED <<link, objectVars>>

(* A recording without assets: one update, conditional on the status.      *)
MarkReady(c) ==
    /\ uploadStep[c] = "mark"
    /\ IF uploadStatus = "accepted"
       THEN uploadStatus' = "ready" /\ uploadFailure' = "none" /\ Answer(c, "ready")
       ELSE Answer(c, AnswerEnded[uploadStatus]) /\ UNCHANGED <<uploadStatus, uploadFailure>>
    /\ UNCHANGED <<link, validation, checksum, objectVars>>

(* Mutant: any recorded failure counts as the same.                        *)
EveryFailureIsSame(f) == TRUE

HasSameFailure(f) == uploadFailure = PayloadOf[f]

AnswerFailure(f) ==
    CASE uploadStatus = "ready" -> "was_ready"
      [] uploadStatus = "failed" -> (IF HasSameFailure(f) THEN "failed" ELSE "no")

ReadForFailure(f) ==
    /\ uploadStep[f] = "idle"
    /\ \/ uploadStatus = "accepted" /\ Advance(f, "mark", {}, Nothing)
       \/ uploadStatus \in Ended /\ Answer(f, AnswerFailure(f))
    /\ UNCHANGED <<recordingVars, objectVars>>

MarkFailed(f) ==
    /\ uploadStep[f] = "mark"
    /\ IF uploadStatus = "accepted"
       THEN uploadStatus' = "failed" /\ uploadFailure' = PayloadOf[f] /\ Answer(f, "failed")
       ELSE Answer(f, AnswerFailure(f)) /\ UNCHANGED <<uploadStatus, uploadFailure>>
    /\ UNCHANGED <<link, validation, checksum, objectVars>>

(* A statement throws or the process dies; a transaction is undone.        *)
AbandonUploader(q) ==
    /\ uploadStep[q] \notin {"idle", "over"}
    /\ Answer(q, "no")
    /\ UNCHANGED <<recordingVars, objectVars>>

------------------------------------------------------------------------------
(* migrateItem, for a sensor target whose raw file validates with the      *)
(* legacy column names too.  A replacement of the file between download    *)
(* and insert leaves what one right after the insert leaves.               *)
MigrateLegacyRecording(t) ==
    /\ uploadStatus # "absent"
    /\ t \in {"acce", "gyro"} \cap Targets \cap AssetTypes
    /\ link[t] = "none"
    /\ content[Raw(t)] \in {"good", "legacy"}
    /\ link' = [link EXCEPT ![t] = "raw"]
    /\ validation' = [validation EXCEPT ![t] = "valid"]
    /\ checksum' = [checksum EXCEPT ![t] = content[Raw(t)]]
    /\ UNCHANGED <<uploadStatus, uploadFailure, objectVars, requestVars>>

------------------------------------------------------------------------------
CompletionStep(c) ==
    \/ ReadForCompletion(c) \/ ListObjects(c) \/ ValidateRaws(c)
    \/ \E t \in AssetTypes : ValidateAsset(c, t)
    \/ DecideTooLate(c) \/ DecideRaises(c) \/ Decide(c) \/ MarkReady(c)

ClientStep == InitRecording \/ RefreshUploadUrls \/ UrlsLapse \/ \E o \in Objects : Put(o)

UploadNext ==
    \/ ClientStep
    \/ \E c \in Completions : CompletionStep(c)
    \/ \E f \in Failures : ReadForFailure(f) \/ MarkFailed(f)
    \/ \E q \in Uploaders : RefuseUploader(q) \/ AbandonUploader(q)
    \/ \E t \in AssetTypes : MigrateLegacyRecording(t)

UploadSpec == UploadInit /\ [][UploadNext]_uploadVars

------------------------------------------------------------------------------
(* A ready recording carries no failure, holds every declared raw file,    *)
(* and each data asset it was created with is recorded as validated, an    *)
(* empty BLE asset as that, whatever completions, failures, uploads and    *)
(* migrations overlapped.  It cannot be said of an asset the migration     *)
(* linked: a completion that had found no asset may end the upload after   *)
(* another has recorded the migrated one as invalid.                       *)
ReadyIsValidated ==
    uploadStatus = "ready" =>
        /\ uploadFailure = "none"
        /\ \A o \in Raws : content[o] # "absent"
        /\ \A t \in AssetTypes : link[t] = "own" =>
            \/ validation[t] = "valid" /\ checksum[t] = "good"
            \/ t = "ble" /\ validation[t] = "NO_SAMPLES"

(* What a request was told stays true: the upload it was told ready or     *)
(* failed is so, and a fail-upload answered with success left exactly the  *)
(* failure it reported.                                                    *)
UploadAnswersHold ==
    /\ \A q \in Uploaders :
        /\ uploadReply[q] \in {"ready", "was_ready"} => uploadStatus = "ready"
        /\ uploadReply[q] \in {"failed", "was_failed"} => uploadStatus = "failed"
    /\ \A f \in Failures : uploadReply[f] = "failed" => uploadFailure = PayloadOf[f]

EndedUploadIsLeft ==
    uploadStatus \in Ended =>
        /\ UNCHANGED <<uploadStatus, uploadFailure>>
        /\ \A t \in AssetTypes : link[t] # "none" => validation'[t] = validation[t]

(* Once an upload has ended, no request changes its status, its failure or *)
(* the recorded validation of an asset it has.                             *)
UploadEndsOnce == [][EndedUploadIsLeft]_uploadVars
==============================================================================
