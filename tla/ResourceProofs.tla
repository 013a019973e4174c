--------------------------- MODULE ResourceProofs ----------------------------
(***************************************************************************)
(* Proofs about the rows that several requests make and change at a time:  *)
(* recordings and their files, analysis runs and their keys, and floors    *)
(* with their beacons, for any number of each.                             *)
(***************************************************************************)
EXTENDS RecordingUpload, RunCreation, FloorResources, FiniteSetTheorems, TLAPS

------------------------------------------------------------------------------
(***************************************************************************)
(* The upload of a recording.                                              *)
(***************************************************************************)

RawsArePut == \A o \in Raws : content[o] # "absent"

(* Nothing is linked before the recording is inserted and no request has   *)
(* gone past its first read; only a target's raw object is linked.         *)
LinksInOrder ==
    /\ uploadStatus = "absent" =>
        /\ \A t \in AssetTypes : link[t] = "none"
        /\ \A q \in Uploaders : uploadStep[q] \in {"idle", "over"}
    /\ \A t \in AssetTypes : link[t] = "raw" => t \in Targets

(* A completion past the raw files has them all, for no object is ever     *)
(* removed; and past the read of the assets it knows every asset the       *)
(* recording was created with, for those are all linked by the insert.     *)
CompletionKnows ==
    \A c \in Completions :
        /\ uploadStep[c] \in {"raws", "assets", "decide", "mark"} => RawsArePut
        /\ uploadStep[c] \in {"assets", "decide", "mark"} =>
             \A t \in AssetTypes : link[t] = "own" => t \in listed[c]
        /\ uploadStep[c] = "mark" => listed[c] = {}

UploadInv ==
    /\ UploadTypeOK
    /\ LinksInOrder
    /\ CompletionKnows
    /\ ReadyIsValidated
    /\ UploadAnswersHold

------------------------------------------------------------------------------
LEMMA InitUpload == UploadInit => UploadInv
<1>. SUFFICES ASSUME UploadInit PROVE UploadInv
  OBVIOUS
<1>1. UploadTypeOK
  BY UploadConstantsOK DEF UploadInit, UploadTypeOK, Nothing, UploadReply, Content
<1>2. LinksInOrder
  BY DEF UploadInit, LinksInOrder
<1>3. CompletionKnows
  BY DEF UploadInit, CompletionKnows, Uploaders
<1>4. ReadyIsValidated
  <2>1. uploadStatus # "ready"
    BY DEF UploadInit
  <2>. QED
    BY <2>1 DEF ReadyIsValidated
<1>5. UploadAnswersHold
  BY DEF UploadInit, UploadAnswersHold, Uploaders
<1>. QED
  BY <1>1, <1>2, <1>3, <1>4, <1>5 DEF UploadInv

(* What the two rewrites make of the requests.                             *)
LEMMA AnswerLeaves ==
    ASSUME UploadTypeOK, NEW q \in Uploaders, NEW reply \in UploadReply, Answer(q, reply)
    PROVE  /\ uploadStep' \in [Uploaders -> {"idle", "list", "raws", "assets", "decide", "mark", "over"}]
           /\ listed' \in [Completions -> SUBSET AssetTypes]
           /\ seen' \in [Completions -> [AssetTypes -> Content \cup {"unseen"}]]
           /\ uploadReply' \in [Uploaders -> UploadReply]
           /\ uploadStep'[q] = "over" /\ uploadReply'[q] = reply
           /\ \A r \in Uploaders \ {q} :
                uploadStep'[r] = uploadStep[r] /\ uploadReply'[r] = uploadReply[r]
           /\ \A c \in Completions \ {q} : listed'[c] = listed[c] /\ seen'[c] = seen[c]
<1>1. Nothing \in [AssetTypes -> Content \cup {"unseen"}]
  BY DEF Nothing
<1>. QED
  BY <1>1 DEF Answer, UploadTypeOK

LEMMA AdvanceLeaves ==
    ASSUME UploadTypeOK, NEW q \in Uploaders,
           NEW step \in {"list", "raws", "assets", "decide", "mark"},
           NEW read \in SUBSET AssetTypes,
           NEW found \in [AssetTypes -> Content \cup {"unseen"}],
           Advance(q, step, read, found)
    PROVE  /\ uploadStep' \in [Uploaders -> {"idle", "list", "raws", "assets", "decide", "mark", "over"}]
           /\ listed' \in [Completions -> SUBSET AssetTypes]
           /\ seen' \in [Completions -> [AssetTypes -> Content \cup {"unseen"}]]
           /\ uploadReply' = uploadReply
           /\ uploadStep'[q] = step
           /\ q \in Completions => listed'[q] = read /\ seen'[q] = found
           /\ \A r \in Uploaders \ {q} : uploadStep'[r] = uploadStep[r]
           /\ \A c \in Completions \ {q} : listed'[c] = listed[c] /\ seen'[c] = seen[c]
BY DEF Advance, UploadTypeOK

------------------------------------------------------------------------------
(* The rows of the recording and the store, one step of each actor at a    *)
(* time.                                                                   *)
LEMMA RequestKinds == Completions \subseteq Uploaders /\ Failures \subseteq Uploaders
                        /\ \A f \in Failures : f \notin Completions
BY UploadConstantsOK DEF Uploaders

(* A request that answers without touching a row.                          *)
LEMMA AnswerOnly ==
    ASSUME UploadInv, NEW q \in Uploaders, NEW reply \in UploadReply, Answer(q, reply),
           UNCHANGED <<recordingVars, objectVars>>,
           reply \in {"ready", "was_ready"} => uploadStatus = "ready",
           reply \in {"failed", "was_failed"} => uploadStatus = "failed",
           reply = "failed" /\ q \in Failures => uploadFailure = PayloadOf[q]
    PROVE  UploadInv'
<1>. USE DEF UploadInv
<1>1. UNCHANGED <<uploadStatus, uploadFailure, link, validation, checksum, content, urls, puts>>
  BY DEF recordingVars, objectVars
<1>2. UploadTypeOK'
  BY <1>1, AnswerLeaves DEF UploadTypeOK
<1>3. LinksInOrder'
  BY <1>1, AnswerLeaves DEF LinksInOrder
<1>4. CompletionKnows'
  BY <1>1, AnswerLeaves, RequestKinds DEF CompletionKnows, RawsArePut
<1>5. ReadyIsValidated'
  BY <1>1 DEF ReadyIsValidated
<1>6. UploadAnswersHold'
  BY <1>1, AnswerLeaves, RequestKinds DEF UploadAnswersHold
<1>. QED
  BY <1>2, <1>3, <1>4, <1>5, <1>6

(* A request that goes on without touching a row.                          *)
LEMMA AdvanceOnly ==
    ASSUME UploadInv, NEW q \in Uploaders, uploadStatus # "absent",
           NEW step \in {"list", "raws", "assets", "decide", "mark"},
           NEW read \in SUBSET AssetTypes,
           NEW found \in [AssetTypes -> Content \cup {"unseen"}],
           Advance(q, step, read, found),
           UNCHANGED <<recordingVars, objectVars>>,
           q \in Completions /\ step \in {"raws", "assets", "decide", "mark"} => RawsArePut,
           q \in Completions /\ step \in {"assets", "decide", "mark"} =>
             \A t \in AssetTypes : link[t] = "own" => t \in read,
           q \in Completions /\ step = "mark" => read = {}
    PROVE  UploadInv'
<1>. USE DEF UploadInv
<1>1. UNCHANGED <<uploadStatus, uploadFailure, link, validation, checksum, content, urls, puts>>
  BY DEF recordingVars, objectVars
<1>2. UploadTypeOK'
  BY <1>1, AdvanceLeaves DEF UploadTypeOK
<1>3. LinksInOrder'
  BY <1>1, AdvanceLeaves DEF LinksInOrder
<1>4. CompletionKnows'
  <2>1. RawsArePut' <=> RawsArePut
    BY <1>1 DEF RawsArePut
  <2>2. /\ \A r \in Uploaders \ {q} : uploadStep'[r] = uploadStep[r]
        /\ \A c \in Completions \ {q} : listed'[c] = listed[c]
    BY AdvanceLeaves
  <2>3. uploadStep'[q] = step /\ (q \in Completions => listed'[q] = read)
    BY DEF Advance, UploadTypeOK
  <2>. QED
    BY <1>1, <2>1, <2>2, <2>3, RequestKinds DEF CompletionKnows
<1>5. ReadyIsValidated'
  BY <1>1 DEF ReadyIsValidated
<1>6. UploadAnswersHold'
  BY <1>1, AdvanceLeaves DEF UploadAnswersHold
<1>. QED
  BY <1>2, <1>3, <1>4, <1>5, <1>6

------------------------------------------------------------------------------
(* The insert, the object store and the migration.                         *)
LEMMA ClientKeepsInv == ASSUME UploadInv, ClientStep PROVE UploadInv'
<1>. USE DEF UploadInv
<1>1. CASE InitRecording
  <2>1. PICK types \in SUBSET AssetTypes :
          /\ link' = [t \in AssetTypes |-> IF t \in types THEN "own" ELSE "none"]
          /\ validation' = [t \in AssetTypes |-> IF t \in types THEN "pending" ELSE "none"]
          /\ urls' = Raws \cup {Asset(t) : t \in types}
    BY <1>1 DEF InitRecording
  <2>2. /\ uploadStatus = "absent" /\ uploadStatus' = "accepted"
        /\ UNCHANGED <<uploadFailure, checksum, content, puts, uploadStep, listed, seen, uploadReply>>
    BY <1>1 DEF InitRecording, requestVars
  <2>3. urls' \subseteq Objects
    BY <2>1 DEF Objects
  <2>4. UploadTypeOK'
    BY <2>1, <2>2, <2>3 DEF UploadTypeOK
  <2>5. LinksInOrder'
    BY <2>1, <2>2 DEF LinksInOrder
  <2>6. CompletionKnows'
    BY <2>2, RequestKinds DEF CompletionKnows, LinksInOrder
  <2>7. ReadyIsValidated'
    BY <2>2 DEF ReadyIsValidated
  <2>8. UploadAnswersHold'
    BY <2>2 DEF UploadAnswersHold
  <2>. QED
    BY <2>4, <2>5, <2>6, <2>7, <2>8
<1>2. CASE RefreshUploadUrls \/ UrlsLapse \/ \E o \in Objects : Put(o)
  <2>1. UNCHANGED <<uploadStatus, uploadFailure, link, validation, checksum, uploadStep, listed, seen,
                    uploadReply>>
    BY <1>2 DEF RefreshUploadUrls, UrlsLapse, Put, recordingVars, requestVars
  <2>2. /\ urls' \subseteq Objects
        /\ puts' \in 0..MaxPuts
        /\ content' \in [Objects -> Content]
        /\ \A o \in Objects : content[o] # "absent" => content'[o] # "absent"
    <3>1. CASE RefreshUploadUrls \/ UrlsLapse
      BY <3>1 DEF RefreshUploadUrls, UrlsLapse, UploadTypeOK, Objects
    <3>2. CASE \E o \in Objects : Put(o)
      <4>0. PICK o \in Objects : Put(o)
        BY <3>2
      <4>1. PICK k \in Contents[o] :
              /\ content' = [content EXCEPT ![o] = k]
              /\ puts < MaxPuts /\ puts' = puts + 1 /\ urls' = urls
        BY <4>0 DEF Put
      <4>2. k \in Content /\ k # "absent"
        BY UploadConstantsOK
      <4>. QED
        BY <4>1, <4>2, UploadConstantsOK DEF UploadTypeOK
    <3>. QED
      BY <1>2, <3>1, <3>2
  <2>3. UploadTypeOK'
    BY <2>1, <2>2 DEF UploadTypeOK
  <2>4. RawsArePut => RawsArePut'
    BY <2>2 DEF RawsArePut, Objects
  <2>5. LinksInOrder'
    BY <2>1 DEF LinksInOrder
  <2>6. CompletionKnows'
    BY <2>1, <2>4 DEF CompletionKnows
  <2>7. ReadyIsValidated'
    BY <2>1, <2>4 DEF ReadyIsValidated, RawsArePut
  <2>8. UploadAnswersHold'
    BY <2>1 DEF UploadAnswersHold
  <2>. QED
    BY <2>3, <2>5, <2>6, <2>7, <2>8
<1>. QED
  BY <1>1, <1>2 DEF ClientStep

LEMMA MigrationKeepsInv ==
    ASSUME UploadInv, NEW t \in AssetTypes, MigrateLegacyRecording(t)
    PROVE  UploadInv'
<1>. USE DEF UploadInv
<1>1. /\ uploadStatus # "absent" /\ link[t] = "none" /\ t \in Targets
      /\ link' = [link EXCEPT ![t] = "raw"]
      /\ validation' = [validation EXCEPT ![t] = "valid"]
      /\ checksum' = [checksum EXCEPT ![t] = content[Raw(t)]]
      /\ UNCHANGED <<uploadStatus, uploadFailure, content, urls, puts, uploadStep, listed, seen, uploadReply>>
  BY DEF MigrateLegacyRecording, objectVars, requestVars
<1>2. Raw(t) \in Objects
  BY <1>1 DEF Objects, Raws
<1>3. UploadTypeOK'
  BY <1>1, <1>2 DEF UploadTypeOK
<1>4. /\ link'[t] = "raw"
      /\ \A u \in AssetTypes \ {t} :
           link'[u] = link[u] /\ validation'[u] = validation[u] /\ checksum'[u] = checksum[u]
  BY <1>1 DEF UploadTypeOK
<1>5. \A u \in AssetTypes : link'[u] = "own" => u # t /\ link[u] = "own"
  BY <1>4
<1>6. LinksInOrder'
  BY <1>1, <1>4 DEF LinksInOrder
<1>7. CompletionKnows'
  BY <1>1, <1>5 DEF CompletionKnows, RawsArePut
<1>8. ReadyIsValidated'
  BY <1>1, <1>4, <1>5 DEF ReadyIsValidated
<1>9. UploadAnswersHold'
  BY <1>1 DEF UploadAnswersHold
<1>. QED
  BY <1>3, <1>6, <1>7, <1>8, <1>9

------------------------------------------------------------------------------
(* The requests.                                                           *)
LEMMA FindingIsContent ==
    ASSUME UploadInv, NEW t \in AssetTypes
    PROVE  content[ObjectOf(t)] \in Content
<1>1. link[t] = "raw" => t \in Targets
  BY DEF UploadInv, LinksInOrder
<1>2. ObjectOf(t) \in Objects
  BY <1>1 DEF ObjectOf, Objects, Raws
<1>. QED
  BY <1>2 DEF UploadInv, UploadTypeOK

LEMMA CompletionReads ==
    ASSUME UploadInv, NEW c \in Completions,
           \/ ReadForCompletion(c) \/ ListObjects(c) \/ ValidateRaws(c)
           \/ \E t \in AssetTypes : ValidateAsset(c, t)
    PROVE  UploadInv'
<1>. USE RequestKinds
<1>1. Nothing \in [AssetTypes -> Content \cup {"unseen"}] /\ {} \in SUBSET AssetTypes
  BY DEF Nothing
<1>2. \A r \in {"no", "ready", "was_failed"} : r \in UploadReply
  BY DEF UploadReply
<1>3. uploadStep[c] \notin {"idle", "over"} => uploadStatus # "absent"
  BY DEF UploadInv, LinksInOrder
<1>4. CASE ReadForCompletion(c)
  <2>1. CASE uploadStatus = "accepted" /\ Advance(c, "list", {}, Nothing)
    BY <1>1, <1>4, <2>1, AdvanceOnly DEF ReadForCompletion
  <2>2. CASE uploadStatus = "ready" /\ Answer(c, "ready")
    BY <1>2, <1>4, <2>2, AnswerOnly DEF ReadForCompletion
  <2>3. CASE uploadStatus = "failed" /\ Answer(c, "was_failed")
    BY <1>2, <1>4, <2>3, AnswerOnly DEF ReadForCompletion
  <2>. QED
    BY <1>4, <2>1, <2>2, <2>3 DEF ReadForCompletion
<1>5. CASE ListObjects(c)
  <2>1. CASE Answer(c, "no")
    BY <1>2, <1>5, <2>1, AnswerOnly DEF ListObjects
  <2>2. CASE RawsArePut /\ Advance(c, "raws", {}, Nothing)
    BY <1>1, <1>3, <1>5, <2>2, AdvanceOnly DEF ListObjects
  <2>. QED
    BY <1>5, <2>1, <2>2 DEF ListObjects, RawsArePut
<1>6. CASE ValidateRaws(c)
  <2>. DEFINE types == {t \in AssetTypes : link[t] # "none"}
              step == IF types = {} THEN "mark" ELSE "assets"
  <2>1. CASE Answer(c, "no")
    BY <1>2, <1>6, <2>1, AnswerOnly DEF ValidateRaws
  <2>2. CASE Advance(c, step, types, Nothing)
    <3>1. RawsArePut
      BY <1>6 DEF ValidateRaws, UploadInv, CompletionKnows
    <3>2. /\ step \in {"list", "raws", "assets", "decide", "mark"}
          /\ types \in SUBSET AssetTypes
          /\ \A t \in AssetTypes : link[t] = "own" => t \in types
          /\ step = "mark" => types = {}
      OBVIOUS
    <3>3. uploadStatus # "absent" /\ UNCHANGED <<recordingVars, objectVars>>
      BY <1>3, <1>6 DEF ValidateRaws
    <3>. HIDE DEF types, step
    <3>. QED
      BY <1>1, <2>2, <3>1, <3>2, <3>3, AdvanceOnly
  <2>. QED
    BY <1>6, <2>1, <2>2 DEF ValidateRaws
<1>7. ASSUME NEW t \in AssetTypes, ValidateAsset(c, t) PROVE UploadInv'
  <2>. DEFINE step == IF \A u \in listed[c] \ {t} : seen[c][u] # "unseen" THEN "decide" ELSE "assets"
              found == [seen[c] EXCEPT ![t] = content[ObjectOf(t)]]
  <2>1. Advance(c, step, listed[c], found) /\ UNCHANGED <<recordingVars, objectVars>>
        /\ uploadStep[c] = "assets"
    BY <1>7 DEF ValidateAsset
  <2>2. found \in [AssetTypes -> Content \cup {"unseen"}] /\ listed[c] \in SUBSET AssetTypes
    BY FindingIsContent DEF UploadInv, UploadTypeOK
  <2>3. step \in {"decide", "assets"}
    OBVIOUS
  <2>4. RawsArePut /\ \A u \in AssetTypes : link[u] = "own" => u \in listed[c]
    BY <2>1 DEF UploadInv, CompletionKnows
  <2>. HIDE DEF step, found
  <2>. QED
    BY <1>3, <2>1, <2>2, <2>3, <2>4, AdvanceOnly
<1>. QED
  BY <1>4, <1>5, <1>6, <1>7

(* An upload that ends or is refused by its assets: the rows change with   *)
(* the answer.                                                             *)
LEMMA DecideKeepsInv == ASSUME UploadInv, NEW c \in Completions, Decide(c) PROVE UploadInv'
<1>. USE DEF UploadInv
<1>1. /\ uploadStep[c] = "decide" /\ uploadStatus = "accepted"
      /\ \A t \in listed[c] : seen[c][t] # "backwards"
      /\ validation' = [t \in AssetTypes |->
                          IF t \in listed[c] THEN Recorded(seen[c][t]) ELSE validation[t]]
      /\ checksum' = [t \in AssetTypes |->
                        IF t \in listed[c] /\ seen[c][t] = "good" THEN "good" ELSE checksum[t]]
      /\ UNCHANGED <<link, content, urls, puts>>
  BY DEF Decide, StillAccepted, objectVars
<1>2. PICK reply \in {"no", "ready"} :
        /\ Answer(c, reply)
        /\ \/ reply = "no" /\ uploadStatus' = uploadStatus /\ uploadFailure' = "ASSET_STRUCTURE_INVALID"
           \/ reply = "ready" /\ uploadStatus' = "ready" /\ uploadFailure' = "none" /\ ~HasInvalidAsset(c)
  BY DEF Decide
<1>3. reply \in UploadReply /\ c \in Uploaders
  BY RequestKinds DEF UploadReply
<1>4. UploadTypeOK'
  <2>1. \A k : Recorded(k) \in {"valid", "NO_SAMPLES", "invalid"}
    BY DEF Recorded
  <2>2. validation' \in [AssetTypes -> {"none", "pending", "valid", "NO_SAMPLES", "invalid"}]
    BY <1>1, <2>1 DEF UploadTypeOK
  <2>3. checksum' \in [AssetTypes -> Content]
    BY <1>1 DEF UploadTypeOK, Content
  <2>4. uploadStatus' \in {"absent", "accepted"} \cup Ended
        /\ uploadFailure' \in {"none", "ASSET_STRUCTURE_INVALID"} \cup Payloads
    BY <1>1, <1>2 DEF Ended
  <2>. QED
    BY <1>1, <1>2, <1>3, <2>2, <2>3, <2>4, AnswerLeaves DEF UploadTypeOK
<1>5. LinksInOrder'
  BY <1>1, <1>2 DEF LinksInOrder
<1>6. CompletionKnows'
  BY <1>1, <1>2, <1>3, AnswerLeaves, RequestKinds DEF CompletionKnows, RawsArePut
<1>7. ReadyIsValidated'
  <2>1. SUFFICES ASSUME uploadStatus' = "ready" PROVE ReadyIsValidated'
    BY DEF ReadyIsValidated
  <2>2. uploadFailure' = "none" /\ ~HasInvalidAsset(c)
    BY <1>1, <1>2, <2>1
  <2>3. \A o \in Raws : content'[o] # "absent"
    BY <1>1 DEF CompletionKnows, RawsArePut
  <2>4. ASSUME NEW t \in AssetTypes, link'[t] = "own"
        PROVE  \/ validation'[t] = "valid" /\ checksum'[t] = "good"
               \/ t = "ble" /\ validation'[t] = "NO_SAMPLES"
    <3>1. t \in listed[c]
      BY <1>1, <2>4 DEF CompletionKnows
    <3>2. seen[c][t] = "good" \/ (t = "ble" /\ seen[c][t] = "empty")
      BY <1>1, <2>2, <3>1 DEF HasInvalidAsset, Accepts
    <3>3. validation'[t] = Recorded(seen[c][t]) /\ (seen[c][t] = "good" => checksum'[t] = "good")
      BY <1>1, <3>1
    <3>. QED
      BY <3>2, <3>3 DEF Recorded
  <2>. QED
    BY <2>2, <2>3, <2>4 DEF ReadyIsValidated
<1>8. UploadAnswersHold'
  BY <1>1, <1>2, <1>3, AnswerLeaves, RequestKinds DEF UploadAnswersHold
<1>. QED
  BY <1>4, <1>5, <1>6, <1>7, <1>8

LEMMA EndedAnswer ==
    ASSUME UploadInv, uploadStatus \notin {"absent", "accepted"}
    PROVE  \/ (uploadStatus = "ready" /\ AnswerEnded[uploadStatus] = "was_ready")
           \/ (uploadStatus = "failed" /\ AnswerEnded[uploadStatus] = "was_failed")
BY DEF UploadInv, UploadTypeOK, Ended, AnswerEnded

LEMMA CompletionDecides ==
    ASSUME UploadInv, NEW c \in Completions, DecideTooLate(c) \/ DecideRaises(c)
    PROVE  UploadInv'
<1>1. PICK reply \in {"no", "was_ready", "was_failed"} :
        /\ Answer(c, reply) /\ UNCHANGED <<recordingVars, objectVars>>
        /\ reply = "was_ready" => uploadStatus = "ready"
        /\ reply = "was_failed" => uploadStatus = "failed"
  <2>1. uploadStatus # "absent"
    BY RequestKinds DEF UploadInv, LinksInOrder, DecideTooLate, DecideRaises
  <2>2. CASE Answer(c, "no")
    BY <2>2 DEF DecideTooLate, DecideRaises
  <2>3. CASE Answer(c, AnswerEnded[uploadStatus]) /\ ~StillAccepted
    BY <2>1, <2>3, EndedAnswer DEF DecideTooLate, DecideRaises, StillAccepted
  <2>. QED
    BY <2>2, <2>3 DEF DecideTooLate, DecideRaises
<1>. QED
  BY <1>1, RequestKinds, AnswerOnly DEF UploadReply

(* The conditional update, of a completion without assets or of a failure. *)
LEMMA MarkKeepsInv ==
    ASSUME UploadInv, NEW q \in Uploaders, uploadStep[q] = "mark", uploadStatus = "accepted",
           NEW reply \in {"ready", "failed"}, Answer(q, reply),
           UNCHANGED <<link, validation, checksum, objectVars>>,
           \/ q \in Completions /\ reply = "ready" /\ uploadStatus' = "ready" /\ uploadFailure' = "none"
           \/ q \in Failures /\ reply = "failed" /\ uploadStatus' = "failed" /\ uploadFailure' = PayloadOf[q]
    PROVE  UploadInv'
<1>. USE DEF UploadInv
<1>1. UNCHANGED <<link, validation, checksum, content, urls, puts>> /\ reply \in UploadReply
  BY DEF objectVars, UploadReply
<1>2. UploadTypeOK'
  BY <1>1, AnswerLeaves DEF UploadTypeOK, Ended, Payloads
<1>3. LinksInOrder'
  BY <1>1 DEF LinksInOrder
<1>4. CompletionKnows'
  BY <1>1, AnswerLeaves, RequestKinds DEF CompletionKnows, RawsArePut
<1>5. ReadyIsValidated'
  BY <1>1 DEF ReadyIsValidated, CompletionKnows, RawsArePut
<1>6. UploadAnswersHold'
  BY <1>1, AnswerLeaves, RequestKinds DEF UploadAnswersHold
<1>. QED
  BY <1>2, <1>3, <1>4, <1>5, <1>6

LEMMA MarkReadyKeepsInv == ASSUME UploadInv, NEW c \in Completions, MarkReady(c) PROVE UploadInv'
<1>1. CASE uploadStatus = "accepted"
  BY <1>1, RequestKinds, MarkKeepsInv DEF MarkReady
<1>2. CASE uploadStatus # "accepted"
  <2>1. uploadStatus # "absent"
    BY RequestKinds DEF UploadInv, LinksInOrder, MarkReady
  <2>2. /\ Answer(c, AnswerEnded[uploadStatus]) /\ UNCHANGED <<recordingVars, objectVars>>
        /\ AnswerEnded[uploadStatus] \in UploadReply
    BY <1>2, <2>1, EndedAnswer DEF MarkReady, recordingVars, UploadReply
  <2>. QED
    BY <1>2, <2>1, <2>2, EndedAnswer, RequestKinds, AnswerOnly
<1>. QED
  BY <1>1, <1>2

LEMMA FailureKeepsInv ==
    ASSUME UploadInv, NEW f \in Failures, ReadForFailure(f) \/ MarkFailed(f)
    PROVE  UploadInv'
<1>1. CASE uploadStep[f] = "mark" /\ uploadStatus = "accepted" /\ MarkFailed(f)
  BY <1>1, RequestKinds, MarkKeepsInv DEF MarkFailed
<1>2. CASE Advance(f, "mark", {}, Nothing) /\ uploadStatus = "accepted" /\ UNCHANGED <<recordingVars, objectVars>>
  <2>1. Nothing \in [AssetTypes -> Content \cup {"unseen"}] /\ {} \in SUBSET AssetTypes
    BY DEF Nothing
  <2>. QED
    BY <1>2, <2>1, RequestKinds, AdvanceOnly
<1>3. CASE Answer(f, AnswerFailure(f)) /\ uploadStatus \in Ended /\ UNCHANGED <<recordingVars, objectVars>>
  <2>1. /\ AnswerFailure(f) \in {"was_ready", "failed", "no"}
        /\ AnswerFailure(f) = "was_ready" => uploadStatus = "ready"
        /\ AnswerFailure(f) = "failed" => uploadStatus = "failed" /\ uploadFailure = PayloadOf[f]
    BY <1>3 DEF AnswerFailure, HasSameFailure, Ended
  <2>. QED
    BY <1>3, <2>1, RequestKinds, AnswerOnly DEF UploadReply
<1>4. uploadStatus \in {"accepted"} \cup Ended
  BY RequestKinds DEF UploadInv, UploadTypeOK, LinksInOrder, ReadForFailure, MarkFailed
<1>. QED
  BY <1>1, <1>2, <1>3, <1>4 DEF ReadForFailure, MarkFailed, recordingVars

LEMMA StepUpload == ASSUME UploadInv, [UploadNext]_uploadVars PROVE UploadInv'
<1>1. ASSUME NEW c \in Completions, CompletionStep(c) PROVE UploadInv'
  BY <1>1, CompletionReads, CompletionDecides, DecideKeepsInv, MarkReadyKeepsInv DEF CompletionStep
<1>2. ASSUME NEW q \in Uploaders, RefuseUploader(q) \/ AbandonUploader(q) PROVE UploadInv'
  <2>1. Answer(q, "no") /\ UNCHANGED <<recordingVars, objectVars>> /\ "no" \in UploadReply
    BY <1>2 DEF RefuseUploader, AbandonUploader, UploadReply
  <2>. QED
    BY <2>1, AnswerOnly
<1>3. CASE UNCHANGED uploadVars
  <2>1. UNCHANGED <<uploadStatus, uploadFailure, link, validation, checksum, content, urls, puts,
                    uploadStep, listed, seen, uploadReply>>
    BY <1>3 DEF uploadVars, recordingVars, objectVars, requestVars
  <2>. QED
    BY <2>1 DEF UploadInv, UploadTypeOK, LinksInOrder, CompletionKnows, RawsArePut, ReadyIsValidated,
                UploadAnswersHold
<1>. QED
  BY <1>1, <1>2, <1>3, ClientKeepsInv, FailureKeepsInv, MigrationKeepsInv DEF UploadNext

LEMMA UploadInductive == UploadSpec => []UploadInv
BY InitUpload, StepUpload, PTL DEF UploadSpec

(* The recording's row, its assets, the object store and every request     *)
(* keep their shape.                                                       *)
THEOREM UploadTypeCorrect == UploadSpec => []UploadTypeOK
<1>1. UploadInv => UploadTypeOK
  BY DEF UploadInv
<1>. QED
  BY <1>1, UploadInductive, PTL

(* However completions, failures, uploads, lapsed URLs and migrations      *)
(* overlap, a recording that becomes ready has its raw files, carries no   *)
(* failure, and every asset it was created with is recorded as validated.  *)
THEOREM ReadyMeansValidated == UploadSpec => []ReadyIsValidated
<1>1. UploadInv => ReadyIsValidated
  BY DEF UploadInv
<1>. QED
  BY <1>1, UploadInductive, PTL

(* What a complete-upload or fail-upload request was told stays true.      *)
THEOREM UploadAnswersStayTrue == UploadSpec => []UploadAnswersHold
<1>1. UploadInv => UploadAnswersHold
  BY DEF UploadInv
<1>. QED
  BY <1>1, UploadInductive, PTL

(* An ended upload is left alone: an insert wants an absent recording,     *)
(* every update of the status an accepted one, and the migration records   *)
(* only the asset it links.                                                *)
THEOREM UploadEndsOnlyOnce == UploadSpec => UploadEndsOnce
<1>1. ASSUME UploadInv, [UploadNext]_uploadVars PROVE EndedUploadIsLeft
  <2>1. SUFFICES ASSUME uploadStatus \in Ended
                 PROVE  /\ UNCHANGED <<uploadStatus, uploadFailure>>
                        /\ \A t \in AssetTypes : link[t] # "none" => validation'[t] = validation[t]
    BY DEF EndedUploadIsLeft
  <2>2. uploadStatus \notin {"absent", "accepted"}
    BY <2>1 DEF Ended
  <2>3. ASSUME NEW c \in Completions, CompletionStep(c) PROVE UNCHANGED recordingVars
    BY <2>2, <2>3
    DEF CompletionStep, ReadForCompletion, ListObjects, ValidateRaws, ValidateAsset, DecideTooLate,
        DecideRaises, Decide, StillAccepted, MarkReady, recordingVars
  <2>4. ASSUME NEW f \in Failures, ReadForFailure(f) \/ MarkFailed(f) PROVE UNCHANGED recordingVars
    BY <2>2, <2>4 DEF ReadForFailure, MarkFailed, recordingVars
  <2>5. ASSUME NEW q \in Uploaders, RefuseUploader(q) \/ AbandonUploader(q) PROVE UNCHANGED recordingVars
    BY <2>5 DEF RefuseUploader, AbandonUploader
  <2>6. ASSUME ClientStep PROVE UNCHANGED recordingVars
    BY <2>2, <2>6 DEF ClientStep, InitRecording, RefreshUploadUrls, UrlsLapse, Put, recordingVars
  <2>7. ASSUME UNCHANGED uploadVars PROVE UNCHANGED recordingVars
    BY <2>7 DEF uploadVars, recordingVars
  <2>8. ASSUME NEW t \in AssetTypes, MigrateLegacyRecording(t)
        PROVE  /\ UNCHANGED <<uploadStatus, uploadFailure>>
               /\ \A u \in AssetTypes : link[u] # "none" => validation'[u] = validation[u]
    BY <2>8 DEF MigrateLegacyRecording, UploadInv, UploadTypeOK
  <2>9. CASE UNCHANGED recordingVars
    BY <2>9 DEF recordingVars
  <2>10. CASE \E t \in AssetTypes : MigrateLegacyRecording(t)
    BY <2>8, <2>10
  <2>11. UNCHANGED recordingVars \/ \E t \in AssetTypes : MigrateLegacyRecording(t)
    BY <1>1, <2>3, <2>4, <2>5, <2>6, <2>7 DEF UploadNext
  <2>. QED
    BY <2>9, <2>10, <2>11
<1>. QED
  BY <1>1, UploadInductive, PTL DEF UploadSpec, UploadEndsOnce

------------------------------------------------------------------------------
(***************************************************************************)
(* Runs and their idempotency keys.                                        *)
(***************************************************************************)

Asking(q) == creation[q].step \notin {"idle", "over"}

InTransaction(q) == creation[q].step \in {"truth", "items", "commit"}

Resolved(q) == creation[q].step = "insert" \/ InTransaction(q)

(* Each recording and pipeline of the body has an item whose asset is      *)
(* stored.                                                                 *)
ItemsCover(items, b, store) ==
    \A d \in b.recordings, p \in b.pipelines :
        \E i \in items : i.recording = d /\ i.pipeline = p /\ i.bound \in store[d]

(* A request between its first read and its answer knows its key and body, *)
(* and a run keeps those of its request.                                   *)
AskingKnowsBody ==
    \A q \in Creations : Asking(q) \/ runRow[q] = "committed" =>
        creation[q].body \in RunBodies /\ creation[q].key \in IdempotencyKeys

(* A run is open while its request is in the transaction.                  *)
RowsFollowRequests ==
    \A q \in Creations :
        /\ runRow[q] = "open" <=> InTransaction(q)
        /\ runRow[q] = "committed" => creation[q].step = "over"

(* The unique constraint.                                                  *)
OneRowPerKey ==
    \A q, r \in Creations :
        runRow[q] # "none" /\ runRow[r] # "none" /\ creation[q].key = creation[r].key => q = r

(* What a request has resolved, and how far its transaction has come.      *)
SoFar(q) ==
    /\ Resolved(q) => ItemsCover(creation[q].items, creation[q].body, stored)
    /\ creation[q].step \in {"items", "commit"} /\ creation[q].body.groundTruth => q \in truthObjects
    /\ creation[q].step = "commit" => runJobs[q] = creation[q].items

TransactionSoFar == \A q \in Creations : SoFar(q)

CommittedIsWhole == \A q \in Creations : runRow[q] = "committed" => WholeRun(q)

AcceptedNamesARun ==
    \A q \in Creations : creation[q].reply = "accepted" =>
        /\ creation[q].step = "over"
        /\ creation[q].named \in Creations
        /\ runRow[creation[q].named] = "committed"
        /\ creation[creation[q].named].key = creation[q].key
        /\ creation[creation[q].named].body = creation[q].body

CreationInv ==
    /\ RunCreationTypeOK
    /\ AskingKnowsBody
    /\ RowsFollowRequests
    /\ OneRowPerKey
    /\ TransactionSoFar
    /\ CommittedIsWhole
    /\ AcceptedNamesARun

------------------------------------------------------------------------------
LEMMA InitCreation == RunCreationInit => CreationInv
<1>. SUFFICES ASSUME RunCreationInit PROVE CreationInv
  OBVIOUS
<1>1. NotAsked \in CreationRecords
  BY DEF NotAsked, CreationAt, CreationRecords, CreationSteps
<1>2. RunCreationTypeOK
  BY <1>1 DEF RunCreationInit, RunCreationTypeOK
<1>3. \A q \in Creations : runRow[q] = "none" /\ creation[q].step = "idle" /\ creation[q].reply = "none"
  BY DEF RunCreationInit, NotAsked, CreationAt
<1>. QED
  BY <1>2, <1>3
  DEF CreationInv, AskingKnowsBody, RowsFollowRequests, OneRowPerKey, TransactionSoFar,
      SoFar, CommittedIsWhole, AcceptedNamesARun, Asking, Resolved, InTransaction

(* The two ways in which a step rewrites a request.                        *)
LEMMA AnsweredType ==
    ASSUME NEW q \in Creations, creation \in [Creations -> CreationRecords],
           NEW reply \in {"refused", "error", "accepted"}, NEW run \in Creations \cup {NoRun},
           AnswerCreation(q, reply, run)
    PROVE  creation' \in [Creations -> CreationRecords]
<1>1. creation[q] \in CreationRecords
  OBVIOUS
<1>2. [creation[q] EXCEPT !.step = "over", !.items = {}, !.reply = reply, !.named = run] \in CreationRecords
  BY <1>1 DEF CreationRecords, CreationSteps
<1>. QED
  BY <1>2 DEF AnswerCreation

LEMMA MovedType ==
    ASSUME NEW q \in Creations, creation \in [Creations -> CreationRecords],
           NEW step \in CreationSteps, CreationGoesTo(q, step)
    PROVE  creation' \in [Creations -> CreationRecords]
<1>1. creation[q] \in CreationRecords
  OBVIOUS
<1>2. [creation[q] EXCEPT !.step = step] \in CreationRecords
  BY <1>1 DEF CreationRecords
<1>. QED
  BY <1>2 DEF CreationGoesTo

(* Every step leaves rows, objects and requests with values of their types. *)
LEMMA StepType ==
    ASSUME RunCreationTypeOK, [RunCreationNext]_creationVars
    PROVE  RunCreationTypeOK'
<1>. USE DEF RunCreationTypeOK, inputVars, runVars
<1>0. \A s \in {"over", "recordings", "pipelines", "truth", "items", "commit", "clash", "insert"} : s \in CreationSteps
  BY DEF CreationSteps
<1>1. ASSUME NEW q \in Creations, RefuseCreation(q) PROVE RunCreationTypeOK'
  BY <1>1, AnsweredType DEF RefuseCreation
<1>2. ASSUME NEW q \in Creations, NEW k \in IdempotencyKeys, NEW b \in RunBodies, ReadRunOfKey(q, k, b)
      PROVE  RunCreationTypeOK'
  <2>1. \A step \in {"retry", "over"}, reply \in {"none", "accepted", "conflict"}, run \in Creations \cup {NoRun} :
          CreationAt(step, k, b, reply, run) \in CreationRecords
    BY DEF CreationAt, CreationRecords, CreationSteps
  <2>2. RunOfKey(k) \subseteq Creations
    BY DEF RunOfKey
  <2>. QED
    BY <1>2, <2>1, <2>2 DEF ReadRunOfKey
<1>3. ASSUME NEW q \in Creations, ReadRetriedRun(q) PROVE RunCreationTypeOK'
  BY <1>0, <1>3, AnsweredType, MovedType DEF ReadRetriedRun
<1>4. ASSUME NEW q \in Creations, ReadRecordings(q) PROVE RunCreationTypeOK'
  BY <1>0, <1>4, AnsweredType, MovedType DEF ReadRecordings
<1>5. ASSUME NEW q \in Creations, ResolvePipelines(q) PROVE RunCreationTypeOK'
  <2>1. \A items \in SUBSET RunItems :
          [creation[q] EXCEPT !.step = "insert", !.items = items] \in CreationRecords
    BY DEF CreationRecords, CreationSteps
  <2>2. creation' \in [Creations -> CreationRecords]
    <3>1. CASE AnswerCreation(q, "refused", NoRun)
      BY <3>1, AnsweredType
    <3>2. CASE \E items \in SUBSET RunItems :
                 creation' = [creation EXCEPT ![q] = [creation[q] EXCEPT !.step = "insert", !.items = items]]
      BY <2>1, <3>2
    <3>3. {i \in RunItems : /\ i.recording \in creation[q].body.recordings
                           /\ i.pipeline \in creation[q].body.pipelines
                           /\ i.bound \in BindingFor(i.recording)} \in SUBSET RunItems
      OBVIOUS
    <3>. QED
      BY <1>5, <3>1, <3>2, <3>3 DEF ResolvePipelines
  <2>. QED
    BY <1>5, <2>2 DEF ResolvePipelines
<1>6. ASSUME NEW q \in Creations, InsertPositioningRun(q) PROVE RunCreationTypeOK'
  BY <1>0, <1>6, MovedType DEF InsertPositioningRun
<1>7. ASSUME NEW q \in Creations, PutGroundTruth(q) PROVE RunCreationTypeOK'
  BY <1>0, <1>7, MovedType DEF PutGroundTruth
<1>8. ASSUME NEW q \in Creations, InsertItemsAndJobs(q) PROVE RunCreationTypeOK'
  <2>1. creation[q].items \in SUBSET RunItems
    BY DEF CreationRecords
  <2>. QED
    BY <1>0, <1>8, <2>1, MovedType DEF InsertItemsAndJobs
<1>9. ASSUME NEW q \in Creations, CommitRun(q) PROVE RunCreationTypeOK'
  BY <1>9, AnsweredType DEF CommitRun
<1>10. ASSUME NEW q \in Creations, AbortRun(q) PROVE RunCreationTypeOK'
  BY <1>10, AnsweredType DEF AbortRun, RollBackRun
<1>11. ASSUME NEW q \in Creations, RethrowClash(q) PROVE RunCreationTypeOK'
  BY <1>11, AnsweredType DEF RethrowClash
<1>12. ASSUME NEW d \in Recordings, RecordingAppears(d) PROVE RunCreationTypeOK'
  BY <1>12 DEF RecordingAppears
<1>13. ASSUME NEW d \in Recordings, NEW a \in Assets, AssetBecomesValid(d, a) \/ ResourceGoes(d, a)
       PROVE  RunCreationTypeOK'
  BY <1>13 DEF AssetBecomesValid, ResourceGoes
<1>14. ASSUME NEW d \in Recordings, NEW names \in SUBSET Parameters, UpdateRecordingConstraints(d, names)
       PROVE  RunCreationTypeOK'
  BY <1>14 DEF UpdateRecordingConstraints
<1>15. ASSUME NEW p \in Pipelines, PipelineChanges(p) PROVE RunCreationTypeOK'
  BY <1>15 DEF PipelineChanges
<1>16. CASE UNCHANGED creationVars
  BY <1>16 DEF creationVars
<1>. QED
  BY <1>1, <1>2, <1>3, <1>4, <1>5, <1>6, <1>7, <1>8, <1>9, <1>10, <1>11, <1>12, <1>13, <1>14,
     <1>15, <1>16
  DEF RunCreationNext
------------------------------------------------------------------------------
(* What the two rewrites leave of a request, and what reading the run of a *)
(* key makes of it.                                                        *)
OthersKept(q) == \A r \in Creations \ {q} : creation'[r] = creation[r]

Keeps(q) == creation'[q].key = creation[q].key /\ creation'[q].body = creation[q].body

LEMMA Answered ==
    ASSUME RunCreationTypeOK, NEW q \in Creations, NEW reply, NEW run, AnswerCreation(q, reply, run)
    PROVE  /\ OthersKept(q) /\ Keeps(q)
           /\ creation'[q].step = "over" /\ creation'[q].reply = reply /\ creation'[q].named = run
BY DEF RunCreationTypeOK, CreationRecords, AnswerCreation, OthersKept, Keeps

LEMMA CreationMoved ==
    ASSUME RunCreationTypeOK, NEW q \in Creations, NEW step, CreationGoesTo(q, step)
    PROVE  /\ OthersKept(q) /\ Keeps(q)
           /\ creation'[q].step = step /\ creation'[q].items = creation[q].items
           /\ creation'[q].reply = creation[q].reply /\ creation'[q].named = creation[q].named
BY DEF RunCreationTypeOK, CreationRecords, CreationGoesTo, OthersKept, Keeps

(* Rows and requests: who is in the transaction, and one row per key.      *)
RowsInv == AskingKnowsBody /\ RowsFollowRequests /\ OneRowPerKey /\ AcceptedNamesARun

LEMMA StepRows ==
    ASSUME CreationInv, [RunCreationNext]_creationVars
    PROVE  RowsInv'
<1>. USE DEF CreationInv, RowsInv, inputVars, runVars, OthersKept, Keeps,
             AskingKnowsBody, RowsFollowRequests, OneRowPerKey, AcceptedNamesARun, Asking, InTransaction
<1>0. runRow \in [Creations -> {"none", "open", "committed"}] /\ creation \in [Creations -> CreationRecords]
  BY DEF RunCreationTypeOK
<1>1. ASSUME NEW q \in Creations, RefuseCreation(q) \/ RethrowClash(q) PROVE RowsInv'
  BY <1>0, <1>1, Answered DEF RefuseCreation, RethrowClash
<1>2. ASSUME NEW q \in Creations, NEW k \in IdempotencyKeys, NEW b \in RunBodies, ReadRunOfKey(q, k, b)
      PROVE  RowsInv'
  BY <1>0, <1>2 DEF ReadRunOfKey, CreationAt, RunOfKey, SameDigest
<1>3. ASSUME NEW q \in Creations, ReadRetriedRun(q) \/ ReadRecordings(q) PROVE RowsInv'
  BY <1>0, <1>3, Answered, CreationMoved DEF ReadRetriedRun, ReadRecordings
<1>5. ASSUME NEW q \in Creations, ResolvePipelines(q) PROVE RowsInv'
  <2>1. /\ OthersKept(q) /\ Keeps(q) /\ UNCHANGED runRow
        /\ \/ creation'[q].step = "over" /\ creation'[q].reply = "refused"
           \/ creation'[q].step = "insert" /\ creation'[q].reply = creation[q].reply
    BY <1>0, <1>5, Answered DEF ResolvePipelines, CreationRecords
  <2>. QED
    BY <1>0, <1>5, <2>1 DEF ResolvePipelines
<1>6. ASSUME NEW q \in Creations, InsertPositioningRun(q) PROVE RowsInv'
  BY <1>0, <1>6, CreationMoved DEF InsertPositioningRun, RowsOfKey
<1>7. ASSUME NEW q \in Creations, PutGroundTruth(q) \/ InsertItemsAndJobs(q) PROVE RowsInv'
  BY <1>0, <1>7, CreationMoved DEF PutGroundTruth, InsertItemsAndJobs
<1>9. ASSUME NEW q \in Creations, CommitRun(q) PROVE RowsInv'
  BY <1>0, <1>9, Answered DEF CommitRun
<1>10. ASSUME NEW q \in Creations, AbortRun(q) PROVE RowsInv'
  BY <1>0, <1>10, Answered DEF AbortRun, RollBackRun
<1>12. CASE UNCHANGED <<runVars, creation>>
  BY <1>12
<1>. QED
  BY <1>1, <1>2, <1>3, <1>5, <1>6, <1>7, <1>9, <1>10, <1>12
  DEF RunCreationNext, creationVars, RecordingAppears, AssetBecomesValid, ResourceGoes,
      UpdateRecordingConstraints, PipelineChanges
------------------------------------------------------------------------------
(* What a run is made of.  Objects are never taken from the store.         *)
WholeInv == TransactionSoFar /\ CommittedIsWhole

StoreGrows ==
    /\ \A d \in Recordings : stored[d] \subseteq stored'[d]
    /\ truthObjects \subseteq truthObjects'

LEMMA StepStore ==
    ASSUME RunCreationTypeOK, [RunCreationNext]_creationVars
    PROVE  StoreGrows
<1>1. ASSUME NEW d \in Recordings, NEW a \in Assets, AssetBecomesValid(d, a)
      PROVE  StoreGrows
  BY <1>1 DEF AssetBecomesValid, StoreGrows, RunCreationTypeOK, runVars
<1>2. ASSUME NEW q \in Creations, PutGroundTruth(q)
      PROVE  StoreGrows
  BY <1>2 DEF PutGroundTruth, StoreGrows, inputVars
<1>3. CASE UNCHANGED <<stored, truthObjects>>
  BY <1>3 DEF StoreGrows
<1>. QED
  BY <1>1, <1>2, <1>3
  DEF RunCreationNext, creationVars, inputVars, runVars, RefuseCreation, ReadRunOfKey,
      ReadRetriedRun, ReadRecordings, ResolvePipelines, InsertPositioningRun, InsertItemsAndJobs,
      CommitRun, AbortRun, RethrowClash, RecordingAppears, ResourceGoes,
      UpdateRecordingConstraints, PipelineChanges

(* A cover stays one while objects are only added.                         *)
LEMMA CoverStays ==
    ASSUME StoreGrows, NEW b \in RunBodies, NEW items, ItemsCover(items, b, stored)
    PROVE  ItemsCover(items, b, stored')
BY RunCreationConstantsOK DEF ItemsCover, StoreGrows

(* What ResolvePipelines collects covers the body.                         *)
LEMMA ResolvedCover ==
    ASSUME RunCreationTypeOK, NEW b \in RunBodies, \A p \in b.pipelines : CanRun(b, p)
    PROVE  ItemsCover({i \in RunItems : /\ i.recording \in b.recordings
                                       /\ i.pipeline \in b.pipelines
                                       /\ i.bound \in BindingFor(i.recording)}, b, stored)
<1>1. SUFFICES ASSUME NEW d \in b.recordings, NEW p \in b.pipelines
      PROVE  \E i \in RunItems : /\ i.recording = d /\ i.pipeline = p
                                 /\ i.bound \in BindingFor(d) /\ i.bound \in stored[d]
  BY DEF ItemsCover
<1>2. PICK a \in BindingFor(d) : TRUE
  BY DEF CanRun
<1>3. d \in Recordings /\ p \in Pipelines /\ a \in Assets /\ a \in stored[d]
  BY RunCreationConstantsOK, <1>2 DEF BindingFor, RunCreationTypeOK
<1>. QED
  BY <1>2, <1>3, [recording |-> d, pipeline |-> p, bound |-> a] \in RunItems DEF RunItems

(* The request of a committed run is over: no step changes it or its jobs. *)
LEMMA CommittedFrozen ==
    ASSUME CreationInv, [RunCreationNext]_creationVars, NEW r \in Creations, runRow[r] = "committed"
    PROVE  creation'[r] = creation[r] /\ runJobs'[r] = runJobs[r] /\ runRow'[r] = "committed"
<1>. USE DEF runVars, OthersKept
<1>0. /\ creation[r].step = "over" /\ RunCreationTypeOK
      /\ runRow \in [Creations -> {"none", "open", "committed"}]
      /\ runJobs \in [Creations -> SUBSET RunItems] /\ creation \in [Creations -> CreationRecords]
  BY DEF CreationInv, RowsFollowRequests, RunCreationTypeOK
<1>1. ASSUME NEW q \in Creations, RefuseCreation(q) \/ ReadRetriedRun(q) \/ ReadRecordings(q) \/ RethrowClash(q)
      PROVE  creation'[r] = creation[r] /\ UNCHANGED runVars
  BY <1>0, <1>1, Answered, CreationMoved DEF RefuseCreation, ReadRetriedRun, ReadRecordings, RethrowClash
<1>2. ASSUME NEW q \in Creations, NEW k \in IdempotencyKeys, NEW b \in RunBodies, ReadRunOfKey(q, k, b)
      PROVE  creation'[r] = creation[r] /\ UNCHANGED runVars
  BY <1>0, <1>2 DEF ReadRunOfKey
<1>3. ASSUME NEW q \in Creations, ResolvePipelines(q)
      PROVE  creation'[r] = creation[r] /\ UNCHANGED runVars
  BY <1>0, <1>3, Answered DEF ResolvePipelines
<1>4. ASSUME NEW q \in Creations,
             \/ InsertPositioningRun(q) \/ PutGroundTruth(q) \/ InsertItemsAndJobs(q)
             \/ CommitRun(q) \/ AbortRun(q)
      PROVE  creation'[r] = creation[r] /\ runJobs'[r] = runJobs[r] /\ runRow'[r] = "committed"
  BY <1>0, <1>4, Answered, CreationMoved
  DEF InsertPositioningRun, PutGroundTruth, InsertItemsAndJobs, CommitRun, AbortRun, RollBackRun
<1>. QED
  BY <1>0, <1>1, <1>2, <1>3, <1>4
  DEF RunCreationNext, creationVars, RecordingAppears, AssetBecomesValid, ResourceGoes,
      UpdateRecordingConstraints, PipelineChanges

(* A step of one request leaves what another has done so far.              *)
LEMMA SoFarStays ==
    ASSUME StoreGrows, AskingKnowsBody, NEW r \in Creations, SoFar(r),
           creation'[r] = creation[r], runJobs'[r] = runJobs[r]
    PROVE  SoFar(r)'
BY CoverStays DEF SoFar, Resolved, InTransaction, AskingKnowsBody, Asking, StoreGrows

LEMMA StepSoFar ==
    ASSUME CreationInv, [RunCreationNext]_creationVars
    PROVE  TransactionSoFar'
<1>. USE DEF TransactionSoFar, OthersKept, Keeps, inputVars, runVars
<1>0. /\ RunCreationTypeOK /\ TransactionSoFar /\ StoreGrows /\ AskingKnowsBody
      /\ creation \in [Creations -> CreationRecords]
      /\ runJobs \in [Creations -> SUBSET RunItems]
  BY StepStore DEF CreationInv, RunCreationTypeOK
<1>1. ASSUME NEW q \in Creations, OthersKept(q), \A r \in Creations \ {q} : runJobs'[r] = runJobs[r], SoFar(q)'
      PROVE  TransactionSoFar'
  BY <1>0, <1>1, SoFarStays
<1>2. ASSUME NEW q \in Creations, RefuseCreation(q) \/ ReadRetriedRun(q) \/ ReadRecordings(q) \/ RethrowClash(q)
      PROVE  TransactionSoFar'
  BY <1>0, <1>1, <1>2, Answered, CreationMoved
  DEF RefuseCreation, ReadRetriedRun, ReadRecordings, RethrowClash, SoFar, Resolved, InTransaction
<1>3. ASSUME NEW q \in Creations, NEW k \in IdempotencyKeys, NEW b \in RunBodies, ReadRunOfKey(q, k, b)
      PROVE  TransactionSoFar'
  BY <1>0, <1>1, <1>3 DEF ReadRunOfKey, CreationAt, SoFar, Resolved, InTransaction
<1>4. ASSUME NEW q \in Creations, ResolvePipelines(q)
      PROVE  TransactionSoFar'
  <2>1. CASE AnswerCreation(q, "refused", NoRun)
    BY <1>0, <1>1, <1>4, <2>1, Answered DEF ResolvePipelines, SoFar, Resolved, InTransaction
  <2> DEFINE b == creation[q].body
             resolved == {i \in RunItems : /\ i.recording \in b.recordings /\ i.pipeline \in b.pipelines
                                          /\ i.bound \in BindingFor(i.recording)}
  <2>2. CASE /\ \A p \in b.pipelines : CanRun(b, p)
             /\ creation' = [creation EXCEPT ![q].step = "insert", ![q].items = resolved]
    <3>1. b \in RunBodies /\ ItemsCover(resolved, b, stored)
      BY <1>0, <1>4, <2>2, ResolvedCover DEF ResolvePipelines, AskingKnowsBody, Asking
    <3>2. /\ creation'[q].step = "insert" /\ creation'[q].items = resolved
          /\ creation'[q].body = b /\ OthersKept(q) /\ UNCHANGED <<stored, runJobs>>
      BY <1>0, <1>4, <2>2 DEF ResolvePipelines, CreationRecords
    <3>. QED
      BY <1>1, <3>1, <3>2 DEF SoFar, Resolved, InTransaction
  <2>. QED
    BY <1>4, <2>1, <2>2 DEF ResolvePipelines
<1>5. ASSUME NEW q \in Creations, InsertPositioningRun(q)
      PROVE  TransactionSoFar'
  BY <1>0, <1>1, <1>5, CreationMoved DEF InsertPositioningRun, SoFar, Resolved, InTransaction
<1>6. ASSUME NEW q \in Creations, PutGroundTruth(q)
      PROVE  TransactionSoFar'
  BY <1>0, <1>1, <1>6, CreationMoved DEF PutGroundTruth, SoFar, Resolved, InTransaction
<1>7. ASSUME NEW q \in Creations, InsertItemsAndJobs(q)
      PROVE  TransactionSoFar'
  BY <1>0, <1>1, <1>7, CreationMoved DEF InsertItemsAndJobs, SoFar, Resolved, InTransaction
<1>8. ASSUME NEW q \in Creations, CommitRun(q) \/ AbortRun(q)
      PROVE  TransactionSoFar'
  BY <1>0, <1>1, <1>8, Answered DEF CommitRun, AbortRun, RollBackRun, SoFar, Resolved, InTransaction
<1>9. CASE UNCHANGED <<runVars, creation>>
  BY <1>0, <1>9, SoFarStays
<1>. QED
  BY <1>2, <1>3, <1>4, <1>5, <1>6, <1>7, <1>8, <1>9
  DEF RunCreationNext, creationVars, RecordingAppears, AssetBecomesValid, ResourceGoes,
      UpdateRecordingConstraints, PipelineChanges

LEMMA StepWhole ==
    ASSUME CreationInv, [RunCreationNext]_creationVars
    PROVE  CommittedIsWhole'
<1>0. /\ RunCreationTypeOK /\ StoreGrows /\ AskingKnowsBody /\ CommittedIsWhole /\ TransactionSoFar
      /\ runRow \in [Creations -> {"none", "open", "committed"}]
  BY StepStore DEF CreationInv, RunCreationTypeOK
<1>1. \A r \in Creations :
          WholeRun(r) <=> /\ runRow[r] = "committed"
                          /\ creation[r].body.groundTruth => r \in truthObjects
                          /\ ItemsCover(runJobs[r], creation[r].body, stored)
  BY DEF WholeRun, ItemsCover
<1>2. \A r \in Creations :
          WholeRun(r)' <=> /\ runRow'[r] = "committed"
                           /\ creation'[r].body.groundTruth => r \in truthObjects'
                           /\ ItemsCover(runJobs'[r], creation'[r].body, stored')
  BY DEF WholeRun, ItemsCover
<1>3. ASSUME NEW r \in Creations, runRow[r] = "committed"
      PROVE  WholeRun(r)'
  BY <1>0, <1>1, <1>2, <1>3, CommittedFrozen, CoverStays DEF CommittedIsWhole, StoreGrows, AskingKnowsBody
<1>4. ASSUME NEW q \in Creations, CommitRun(q)
      PROVE  WholeRun(q)'
  BY <1>0, <1>2, <1>4, Answered
  DEF CommitRun, Keeps, TransactionSoFar, SoFar, Resolved, InTransaction, inputVars
<1>5. ASSUME NEW r \in Creations, runRow'[r] = "committed", runRow[r] # "committed"
      PROVE  CommitRun(r)
  BY <1>0, <1>5
  DEF RunCreationNext, creationVars, inputVars, runVars, RefuseCreation, ReadRunOfKey,
      ReadRetriedRun, ReadRecordings, ResolvePipelines, InsertPositioningRun, PutGroundTruth,
      InsertItemsAndJobs, CommitRun, AbortRun, RollBackRun, RethrowClash, RecordingAppears,
      AssetBecomesValid, ResourceGoes, UpdateRecordingConstraints, PipelineChanges
<1>. QED
  BY <1>3, <1>4, <1>5 DEF CommittedIsWhole

LEMMA CreationInductive == RunCreationSpec => []CreationInv
<1>1. CreationInv /\ [RunCreationNext]_creationVars => CreationInv'
  <2>. SUFFICES ASSUME CreationInv, [RunCreationNext]_creationVars PROVE CreationInv'
    OBVIOUS
  <2>1. RunCreationTypeOK'
    BY StepType DEF CreationInv
  <2>2. RowsInv'
    BY StepRows
  <2>3. TransactionSoFar' /\ CommittedIsWhole'
    BY StepSoFar, StepWhole
  <2>. QED
    BY <2>1, <2>2, <2>3 DEF CreationInv, RowsInv
<1>. QED
  BY InitCreation, <1>1, PTL DEF RunCreationSpec

(* Two runs of one key are the same row, so who was told of one was told   *)
(* of the other; and a committed run is whole.                             *)
LEMMA CreationInvSuffices == CreationInv => OneRunPerKey
<1>. SUFFICES ASSUME CreationInv, NEW q \in Creations, NEW r \in Creations,
                     creation[q].reply = "accepted", creation[r].reply = "accepted",
                     creation[q].key = creation[r].key
              PROVE  /\ creation[q].named = creation[r].named
                     /\ creation[q].body = creation[r].body
                     /\ WholeRun(creation[q].named)
  BY DEF OneRunPerKey
<1>1. creation[q].named = creation[r].named
  BY DEF CreationInv, AcceptedNamesARun, OneRowPerKey
<1>. QED
  BY <1>1 DEF CreationInv, AcceptedNamesARun, CommittedIsWhole

------------------------------------------------------------------------------
(* Recordings, assets, runs, items and requests keep their shape, however  *)
(* creations and the changes beside them interleave.                       *)
THEOREM CreationTypeCorrect == RunCreationSpec => []RunCreationTypeOK
BY CreationInductive, PTL DEF CreationInv

(* One idempotency key names one run: everybody createPositioningAnalysis- *)
(* Run answered with it had asked for it, and it has its items, its jobs   *)
(* and its ground truth.                                                   *)
THEOREM OneRunForEachKey == RunCreationSpec => []OneRunPerKey
BY CreationInductive, CreationInvSuffices, PTL

------------------------------------------------------------------------------
(***************************************************************************)
(* Floors and beacons.                                                     *)
(***************************************************************************)

(* The live beacons of a floor.                                            *)
BeaconsOn(f) == {b \in LiveBeacons : beaconRow[b].floor = f}

Creating(b) == beaconStep[b] \in {"lock", "count", "insert"}

FloorLocking(b) == beaconStep[b] \in {"count", "insert"}

(* A floor's image is there before its row, and goes only when the row is  *)
(* believed not to be.                                                     *)
FloorInv ==
    \A f \in FloorRequests :
        /\ floorStep[f] \in {"idle", "insert"} => floorRow[f] = "none"
        /\ floorStep[f] = "insert" => f \in floorImages
        /\ floorStep[f] = "cleanup" => floorRow[f] = "none" \/ f \in unheard
        /\ floorRow[f] # "none" => f \in floorImages \cup unheard

(* What is about to be written lies on the map, and so does what is.       *)
PlaceInv ==
    /\ \A b \in BeaconRequests : Creating(b) =>
          /\ beaconAsked[b].floor \in FloorRequests /\ ~beaconAsked[b].deleted
          /\ beaconAsked[b].position \in OnMap
    /\ \A w \in BeaconPatches : patchStep[w] = "write" =>
          patching[w].beacon \in BeaconRequests /\ patching[w].position \in OnMap
    /\ \A b \in LiveBeacons : beaconRow[b].position \in OnMap

BeaconIdentityInv ==
    \A b, c \in LiveBeacons : b # c => beaconRow[b].identity # beaconRow[c].identity

(* One creation at a time counts the beacons of a floor and adds to them.  *)
CountInv ==
    /\ \A b \in BeaconRequests : beaconStep[b] # "over" => beaconRow[b].floor = NoBeacon
    /\ \A b, c \in BeaconRequests :
          FloorLocking(b) /\ FloorLocking(c) /\ beaconAsked[b].floor = beaconAsked[c].floor => b = c
    /\ \A b \in BeaconRequests : beaconStep[b] = "insert" =>
          Cardinality(BeaconsOn(beaconAsked[b].floor)) < BeaconLimit
    /\ \A f \in FloorRequests : Cardinality(BeaconsOn(f)) <= BeaconLimit

FloorsInv == FloorsTypeOK /\ FloorInv /\ PlaceInv /\ BeaconIdentityInv /\ CountInv

------------------------------------------------------------------------------
LEMMA FiniteOnFloor ==
    ASSUME NEW f
    PROVE  IsFiniteSet(BeaconsOn(f)) /\ Cardinality(BeaconsOn(f)) \in Nat
BY FloorConstantsOK, FS_Subset, FS_CardinalityType DEF BeaconsOn, LiveBeacons

LEMMA InitFloors == FloorsInit => FloorsInv
<1>. SUFFICES ASSUME FloorsInit PROVE FloorsInv
  OBVIOUS
<1>1. FloorsTypeOK /\ FloorInv
  BY DEF FloorsInit, FloorsTypeOK, FloorInv, BeaconRows, NoRow, PatchRecords, NoPatch
<1>2. LiveBeacons = {}
  BY DEF FloorsInit, LiveBeacons, NoRow
<1>3. \A f \in FloorRequests : Cardinality(BeaconsOn(f)) = 0
  BY <1>2, FS_EmptySet DEF BeaconsOn
<1>4. PlaceInv /\ BeaconIdentityInv
  BY <1>2 DEF FloorsInit, PlaceInv, BeaconIdentityInv, Creating
<1>5. CountInv
  BY <1>3, FloorConstantsOK DEF FloorsInit, CountInv, FloorLocking, NoRow
<1>. QED
  BY <1>1, <1>4, <1>5 DEF FloorsInv

(* An action on floors leaves what is known of beacons.                    *)
LEMMA BeaconsLeft ==
    ASSUME PlaceInv, BeaconIdentityInv, CountInv, UNCHANGED beaconVars
    PROVE  PlaceInv' /\ BeaconIdentityInv' /\ CountInv'
<1>1. /\ beaconRow' = beaconRow /\ beaconStep' = beaconStep /\ beaconAsked' = beaconAsked
      /\ patchStep' = patchStep /\ patching' = patching
  BY DEF beaconVars
<1>2. LiveBeacons' = LiveBeacons /\ \A f : BeaconsOn(f)' = BeaconsOn(f)
  BY <1>1 DEF LiveBeacons, BeaconsOn
<1>. QED
  BY <1>1, <1>2 DEF PlaceInv, BeaconIdentityInv, CountInv, Creating, FloorLocking

LEMMA FloorsLeft ==
    ASSUME FloorInv, UNCHANGED floorVars
    PROVE  FloorInv'
BY DEF FloorInv, floorVars

LEMMA FloorStep ==
    ASSUME FloorsInv, NEW f \in FloorRequests,
           \/ PutFloorMap(f) \/ InsertFloor(f) \/ InsertFloorUnheard(f) \/ DeleteFloorMap(f)
           \/ FloorProcessDies(f) \/ SoftDeleteFloor(f)
    PROVE  FloorsInv'
<1>0. FloorsTypeOK /\ FloorInv /\ UNCHANGED beaconVars
  BY DEF FloorsInv, PutFloorMap, InsertFloor, InsertFloorUnheard, DeleteFloorMap, FloorProcessDies,
         SoftDeleteFloor
<1>1. PlaceInv' /\ BeaconIdentityInv' /\ CountInv'
  BY <1>0, BeaconsLeft DEF FloorsInv
<1>2. FloorsTypeOK' /\ FloorInv'
  <2>. USE <1>0 DEF FloorsTypeOK, FloorInv, FloorGoesTo, beaconVars
  <2>1. CASE PutFloorMap(f)
    BY <2>1 DEF PutFloorMap
  <2>2. CASE InsertFloor(f)
    BY <2>2 DEF InsertFloor
  <2>3. CASE InsertFloorUnheard(f)
    BY <2>3 DEF InsertFloorUnheard
  <2>4. CASE DeleteFloorMap(f)
    BY <2>4 DEF DeleteFloorMap
  <2>5. CASE FloorProcessDies(f)
    BY <2>5 DEF FloorProcessDies
  <2>6. CASE SoftDeleteFloor(f)
    BY <2>6 DEF SoftDeleteFloor
  <2>. QED
    BY <2>1, <2>2, <2>3, <2>4, <2>5, <2>6
<1>. QED
  BY <1>1, <1>2 DEF FloorsInv

------------------------------------------------------------------------------
(* The steps of a creation move one request and, at its end, one row.      *)
BeaconMoved(b, step) ==
    /\ beaconStep' \in [BeaconRequests -> {"idle", "lock", "count", "insert", "over"}]
    /\ beaconStep'[b] = step
    /\ \A c \in BeaconRequests \ {b} : beaconStep'[c] = beaconStep[c]

LEMMA BeaconMoves ==
    ASSUME FloorsTypeOK, NEW b \in BeaconRequests,
           NEW step \in {"idle", "lock", "count", "insert", "over"}, BeaconGoesTo(b, step)
    PROVE  BeaconMoved(b, step)
BY DEF FloorsTypeOK, BeaconGoesTo, BeaconMoved

(* Rows that did not change are counted as before.                         *)
LEMMA SameRows ==
    ASSUME beaconRow' = beaconRow
    PROVE  LiveBeacons' = LiveBeacons /\ \A f : BeaconsOn(f)' = BeaconsOn(f)
BY DEF LiveBeacons, BeaconsOn

LEMMA AskForBeaconStep ==
    ASSUME FloorsInv, NEW b \in BeaconRequests, NEW f \in FloorRequests, NEW position \in Positions,
           NEW i \in Identities, AskForBeacon(b, f, position, i)
    PROVE  FloorsInv'
<1>0. FloorsTypeOK /\ FloorInv /\ PlaceInv /\ BeaconIdentityInv /\ CountInv /\ UNCHANGED floorVars
  BY DEF FloorsInv, AskForBeacon
<1>1. /\ beaconRow' = beaconRow /\ patchStep' = patchStep /\ patching' = patching
      /\ beaconStep[b] = "idle"
  BY DEF AskForBeacon
<1>2. \/ /\ BeaconMoved(b, "lock") /\ position \in OnMap
         /\ beaconAsked' = [beaconAsked EXCEPT ![b] =
               [floor |-> f, position |-> position, identity |-> i, deleted |-> FALSE]]
      \/ BeaconMoved(b, "over") /\ beaconAsked' = beaconAsked
  BY <1>0, BeaconMoves DEF AskForBeacon, CheckCoordinates
<1>3. beaconAsked' \in [BeaconRequests -> BeaconRows]
  <2>1. [floor |-> f, position |-> position, identity |-> i, deleted |-> FALSE] \in BeaconRows
    BY DEF BeaconRows
  <2>. QED
    BY <1>0, <1>2, <2>1 DEF FloorsTypeOK
<1>4. \A c \in BeaconRequests \ {b} : beaconAsked'[c] = beaconAsked[c]
  BY <1>0, <1>2 DEF FloorsTypeOK
<1>5. beaconStep'[b] = "lock" =>
         /\ beaconAsked'[b].floor = f /\ ~beaconAsked'[b].deleted /\ beaconAsked'[b].position \in OnMap
  BY <1>0, <1>2 DEF FloorsTypeOK, BeaconMoved
<1>6. beaconStep'[b] \in {"lock", "over"} /\ BeaconMoved(b, beaconStep'[b])
  BY <1>2 DEF BeaconMoved
<1>7. FloorsTypeOK' /\ FloorInv'
  BY <1>0, <1>1, <1>3, <1>6, FloorsLeft DEF FloorsTypeOK, BeaconMoved, floorVars
<1>8. PlaceInv' /\ BeaconIdentityInv'
  BY <1>0, <1>1, <1>4, <1>5, <1>6, SameRows DEF PlaceInv, BeaconIdentityInv, Creating, BeaconMoved
<1>9. CountInv'
  BY <1>0, <1>1, <1>4, <1>6, SameRows DEF CountInv, FloorLocking, BeaconMoved
<1>. QED
  BY <1>7, <1>8, <1>9 DEF FloorsInv

LEMMA LockAndCountStep ==
    ASSUME FloorsInv, NEW b \in BeaconRequests, LockFloor(b) \/ CountOnFloor(b)
    PROVE  FloorsInv'
<1>0. /\ FloorsTypeOK /\ FloorInv /\ PlaceInv /\ BeaconIdentityInv /\ CountInv /\ UNCHANGED floorVars
      /\ beaconRow' = beaconRow /\ beaconAsked' = beaconAsked
      /\ patchStep' = patchStep /\ patching' = patching
  BY DEF FloorsInv, LockFloor, CountOnFloor
<1>1. \/ BeaconMoved(b, "count") /\ beaconStep[b] = "lock" /\ FloorUnlocked(beaconAsked[b].floor)
      \/ /\ BeaconMoved(b, "insert") /\ beaconStep[b] = "count"
         /\ ~(Cardinality(BeaconsOn(beaconAsked[b].floor)) >= BeaconLimit)
      \/ BeaconMoved(b, "over") /\ beaconStep[b] = "count"
  BY <1>0, BeaconMoves DEF LockFloor, CountOnFloor, BeaconsOn
<1>2. FloorsTypeOK' /\ FloorInv'
  BY <1>0, <1>1, FloorsLeft DEF FloorsTypeOK, BeaconMoved, floorVars
<1>3. PlaceInv' /\ BeaconIdentityInv'
  BY <1>0, <1>1, SameRows DEF PlaceInv, BeaconIdentityInv, Creating, BeaconMoved
<1>4. CountInv'
  <2>1. \A c \in BeaconRequests : beaconStep'[c] # "over" => beaconRow'[c].floor = NoBeacon
    BY <1>0, <1>1 DEF CountInv, BeaconMoved
  <2>2. \A c, d \in BeaconRequests :
           FloorLocking(c)' /\ FloorLocking(d)' /\ beaconAsked'[c].floor = beaconAsked'[d].floor => c = d
    BY <1>0, <1>1 DEF CountInv, BeaconMoved, FloorLocking, FloorUnlocked
  <2>3. \A c \in BeaconRequests : beaconStep'[c] = "insert" =>
           Cardinality(BeaconsOn(beaconAsked[c].floor)) < BeaconLimit
    BY <1>0, <1>1, FiniteOnFloor, FloorConstantsOK DEF CountInv, BeaconMoved
  <2>. QED
    BY <1>0, <2>1, <2>2, <2>3, SameRows DEF CountInv
<1>. QED
  BY <1>2, <1>3, <1>4 DEF FloorsInv

LEMMA InsertBeaconStep ==
    ASSUME FloorsInv, NEW b \in BeaconRequests, InsertBeacon(b)
    PROVE  FloorsInv'
<1>0. /\ FloorsTypeOK /\ FloorInv /\ PlaceInv /\ BeaconIdentityInv /\ CountInv /\ UNCHANGED floorVars
      /\ beaconAsked' = beaconAsked /\ patchStep' = patchStep /\ patching' = patching
      /\ beaconStep[b] = "insert" /\ beaconRow[b].floor = NoBeacon
      /\ BeaconMoved(b, "over")
  BY BeaconMoves DEF FloorsInv, InsertBeacon, CountInv
<1>. DEFINE f == beaconAsked[b].floor
<1>1. f \in FloorRequests /\ f # NoBeacon /\ ~beaconAsked[b].deleted /\ beaconAsked[b].position \in OnMap
  BY <1>0, FloorConstantsOK DEF PlaceInv, Creating
<1>2. CASE beaconRow' = beaconRow
  <2>1. FloorsTypeOK' /\ FloorInv'
    BY <1>0, <1>2, FloorsLeft DEF FloorsTypeOK, BeaconMoved, floorVars
  <2>2. PlaceInv' /\ BeaconIdentityInv' /\ CountInv'
    BY <1>0, <1>2, SameRows DEF PlaceInv, BeaconIdentityInv, CountInv, Creating, FloorLocking, BeaconMoved
  <2>. QED
    BY <2>1, <2>2 DEF FloorsInv
<1>3. CASE /\ ~IdentityTaken(beaconAsked[b].identity, b)
           /\ beaconRow' = [beaconRow EXCEPT ![b] = beaconAsked[b]]
  <2>1. /\ beaconRow' \in [BeaconRequests -> BeaconRows] /\ beaconRow'[b] = beaconAsked[b]
        /\ \A c \in BeaconRequests \ {b} : beaconRow'[c] = beaconRow[c]
    BY <1>0, <1>3 DEF FloorsTypeOK
  <2>2. LiveBeacons' = LiveBeacons \cup {b} /\ b \notin LiveBeacons
    BY <1>0, <1>1, <2>1 DEF LiveBeacons
  <2>3. /\ BeaconsOn(f)' = BeaconsOn(f) \cup {b} /\ b \notin BeaconsOn(f)
        /\ \A g : g # f => BeaconsOn(g)' = BeaconsOn(g)
    <3>1. f' = f
      BY <1>0
    <3>2. \A g : BeaconsOn(g)' = {c \in LiveBeacons' : beaconRow'[c].floor = g}
      BY DEF BeaconsOn
    <3>3. \A g : BeaconsOn(g)' = BeaconsOn(g) \cup (IF g = f THEN {b} ELSE {})
      BY <2>1, <2>2, <3>2 DEF BeaconsOn, LiveBeacons
    <3>. QED
      BY <2>2, <3>1, <3>3 DEF BeaconsOn
  <2>4. Cardinality(BeaconsOn(f)') = Cardinality(BeaconsOn(f)) + 1
    BY <2>3, FiniteOnFloor, FS_AddElement
  <2>5. Cardinality(BeaconsOn(f)') <= BeaconLimit
    BY <1>0, <2>4, FiniteOnFloor, FloorConstantsOK DEF CountInv
  <2>6. FloorsTypeOK' /\ FloorInv'
    BY <1>0, <2>1, FloorsLeft DEF FloorsTypeOK, BeaconMoved, floorVars
  <2>7. PlaceInv'
    BY <1>0, <1>1, <2>1, <2>2 DEF PlaceInv, Creating, BeaconMoved, LiveBeacons
  <2>8. BeaconIdentityInv'
    BY <1>0, <1>3, <2>1, <2>2 DEF BeaconIdentityInv, IdentityTaken, LiveBeacons
  <2>9. CountInv'
    <3>1. \A c \in BeaconRequests : beaconStep'[c] # "over" => beaconRow'[c].floor = NoBeacon
      BY <1>0, <2>1 DEF CountInv, BeaconMoved
    <3>2. \A c, d \in BeaconRequests :
             FloorLocking(c)' /\ FloorLocking(d)' /\ beaconAsked'[c].floor = beaconAsked'[d].floor => c = d
      BY <1>0 DEF CountInv, BeaconMoved, FloorLocking
    <3>3. ASSUME NEW c \in BeaconRequests, beaconStep'[c] = "insert"
          PROVE  Cardinality(BeaconsOn(beaconAsked[c].floor)') < BeaconLimit
      <4>1. c # b /\ beaconStep[c] = "insert"
        BY <1>0, <3>3 DEF BeaconMoved
      <4>2. beaconAsked[c].floor # f
        BY <1>0, <4>1 DEF CountInv, FloorLocking
      <4>3. BeaconsOn(beaconAsked[c].floor)' = BeaconsOn(beaconAsked[c].floor)
        BY <1>0, <2>3, <4>2
      <4>. QED
        BY <1>0, <4>1, <4>3 DEF CountInv
    <3>4. \A g \in FloorRequests : Cardinality(BeaconsOn(g)') <= BeaconLimit
      BY <1>0, <2>3, <2>5 DEF CountInv
    <3>. QED
      BY <1>0, <3>1, <3>2, <3>3, <3>4 DEF CountInv
  <2>. QED
    BY <2>6, <2>7, <2>8, <2>9 DEF FloorsInv
<1>. QED
  BY <1>2, <1>3 DEF InsertBeacon
------------------------------------------------------------------------------
(* Patches and deletions.                                                  *)
LEMMA ReadForPatchStep ==
    ASSUME FloorsInv, NEW w \in BeaconPatches, NEW b \in BeaconRequests,
           NEW position \in Positions \cup {NoBeacon}, NEW i \in Identities \cup {NoBeacon},
           ReadForPatch(w, b, position, i)
    PROVE  FloorsInv'
<1>0. /\ FloorsTypeOK /\ FloorInv /\ PlaceInv /\ BeaconIdentityInv /\ CountInv /\ UNCHANGED floorVars
      /\ beaconRow' = beaconRow /\ beaconStep' = beaconStep /\ beaconAsked' = beaconAsked
  BY DEF FloorsInv, ReadForPatch
<1>. DEFINE next == IF position = NoBeacon THEN beaconRow[b].position ELSE position
            record == [beacon |-> b, position |-> next, identity |-> i]
<1>1. record \in PatchRecords
  BY <1>0 DEF FloorsTypeOK, BeaconRows, PatchRecords
<1>2. \/ /\ next \in OnMap
         /\ patching' = [patching EXCEPT ![w] = record] /\ patchStep' = [patchStep EXCEPT ![w] = "write"]
      \/ patching' = patching /\ patchStep' = [patchStep EXCEPT ![w] = "over"]
  BY DEF ReadForPatch, CheckCoordinates, PatchGoesTo
<1>3. FloorsTypeOK' /\ FloorInv'
  BY <1>0, <1>1, <1>2, FloorsLeft DEF FloorsTypeOK, floorVars
<1>4. PlaceInv'
  BY <1>0, <1>2, SameRows DEF PlaceInv, FloorsTypeOK, Creating
<1>5. BeaconIdentityInv' /\ CountInv'
  BY <1>0, SameRows DEF BeaconIdentityInv, CountInv, FloorLocking
<1>. QED
  BY <1>3, <1>4, <1>5 DEF FloorsInv

LEMMA UpdateBeaconStep ==
    ASSUME FloorsInv, NEW w \in BeaconPatches, UpdateBeacon(w)
    PROVE  FloorsInv'
<1>0. /\ FloorsTypeOK /\ FloorInv /\ PlaceInv /\ BeaconIdentityInv /\ CountInv /\ UNCHANGED floorVars
      /\ beaconStep' = beaconStep /\ beaconAsked' = beaconAsked /\ patching' = patching
      /\ patchStep' = [patchStep EXCEPT ![w] = "over"] /\ patchStep[w] = "write"
  BY DEF FloorsInv, UpdateBeacon, PatchGoesTo
<1>. DEFINE b == patching[w].beacon
            i == IF patching[w].identity = NoBeacon THEN beaconRow[b].identity ELSE patching[w].identity
<1>1. b \in BeaconRequests /\ patching[w].position \in OnMap
  BY <1>0 DEF PlaceInv
<1>2. \/ beaconRow' = beaconRow
      \/ /\ b \in LiveBeacons /\ ~IdentityTaken(i, b)
         /\ beaconRow' = [beaconRow EXCEPT ![b].position = patching[w].position, ![b].identity = i]
  BY DEF UpdateBeacon
<1>3. i \in Identities \cup {NoBeacon} /\ patching[w].position \in Positions
  BY <1>0, <1>1, FloorConstantsOK DEF FloorsTypeOK, BeaconRows, PatchRecords
<1>4. /\ beaconRow' \in [BeaconRequests -> BeaconRows]
      /\ \A c \in BeaconRequests :
            beaconRow'[c].floor = beaconRow[c].floor /\ beaconRow'[c].deleted = beaconRow[c].deleted
      /\ \A c \in BeaconRequests \ {b} : beaconRow'[c] = beaconRow[c]
  <2>1. CASE beaconRow' = beaconRow
    BY <1>0, <2>1 DEF FloorsTypeOK
  <2>2. CASE beaconRow' = [beaconRow EXCEPT ![b].position = patching[w].position, ![b].identity = i]
    <3>. DEFINE row == [beaconRow[b] EXCEPT !.position = patching[w].position, !.identity = i]
    <3>1. beaconRow[b] \in BeaconRows /\ beaconRow \in [BeaconRequests -> BeaconRows]
      BY <1>0, <1>1 DEF FloorsTypeOK
    <3>2. row \in BeaconRows /\ row.floor = beaconRow[b].floor /\ row.deleted = beaconRow[b].deleted
      BY <1>3, <3>1 DEF BeaconRows
    <3>3. beaconRow' = [beaconRow EXCEPT ![b] = row]
      BY <2>2, <3>1 DEF BeaconRows
    <3>. QED
      BY <1>1, <3>1, <3>2, <3>3
  <2>. QED
    BY <1>2, <2>1, <2>2
<1>5. LiveBeacons' = LiveBeacons /\ \A f : BeaconsOn(f)' = BeaconsOn(f)
  BY <1>4 DEF LiveBeacons, BeaconsOn
<1>6. FloorsTypeOK' /\ FloorInv'
  BY <1>0, <1>4, FloorsLeft DEF FloorsTypeOK, floorVars
<1>7. /\ beaconRow'[b].position \in {beaconRow[b].position, patching[w].position}
      /\ \/ beaconRow'[b].identity = beaconRow[b].identity
         \/ beaconRow'[b].identity = i /\ ~IdentityTaken(i, b)
  BY <1>0, <1>1, <1>2 DEF FloorsTypeOK, BeaconRows
<1>8. PlaceInv'
  <2>1. \A c \in LiveBeacons' : beaconRow'[c].position \in OnMap
    BY <1>0, <1>1, <1>4, <1>5, <1>7 DEF PlaceInv, LiveBeacons
  <2>. QED
    BY <1>0, <2>1 DEF PlaceInv, Creating, FloorsTypeOK
<1>9. BeaconIdentityInv'
  BY <1>0, <1>4, <1>5, <1>7 DEF BeaconIdentityInv, IdentityTaken, LiveBeacons
<1>10. CountInv'
  BY <1>0, <1>4, <1>5 DEF CountInv, FloorLocking
<1>. QED
  BY <1>6, <1>8, <1>9, <1>10 DEF FloorsInv

LEMMA SoftDeleteBeaconStep ==
    ASSUME FloorsInv, NEW b \in BeaconRequests, SoftDeleteBeacon(b)
    PROVE  FloorsInv'
<1>0. /\ FloorsTypeOK /\ FloorInv /\ PlaceInv /\ BeaconIdentityInv /\ CountInv /\ UNCHANGED floorVars
      /\ beaconStep' = beaconStep /\ beaconAsked' = beaconAsked
      /\ patchStep' = patchStep /\ patching' = patching
      /\ beaconRow' = [beaconRow EXCEPT ![b].deleted = TRUE]
  BY DEF FloorsInv, SoftDeleteBeacon
<1>1. /\ beaconRow' \in [BeaconRequests -> BeaconRows] /\ beaconRow'[b].deleted
      /\ \A c \in BeaconRequests : beaconRow'[c].floor = beaconRow[c].floor
      /\ \A c \in BeaconRequests \ {b} : beaconRow'[c] = beaconRow[c]
  <2>. DEFINE row == [beaconRow[b] EXCEPT !.deleted = TRUE]
  <2>1. beaconRow[b] \in BeaconRows /\ beaconRow \in [BeaconRequests -> BeaconRows]
    BY <1>0 DEF FloorsTypeOK
  <2>2. row \in BeaconRows /\ row.floor = beaconRow[b].floor /\ row.deleted
    BY <2>1 DEF BeaconRows
  <2>3. beaconRow' = [beaconRow EXCEPT ![b] = row]
    BY <1>0, <2>1 DEF BeaconRows
  <2>. QED
    BY <2>1, <2>2, <2>3
<1>2. LiveBeacons' = LiveBeacons \ {b} /\ \A f : BeaconsOn(f)' \subseteq BeaconsOn(f)
  BY <1>1 DEF LiveBeacons, BeaconsOn
<1>3. \A f : /\ Cardinality(BeaconsOn(f)) \in Nat /\ Cardinality(BeaconsOn(f)') \in Nat
             /\ Cardinality(BeaconsOn(f)') <= Cardinality(BeaconsOn(f))
  <2>1. SUFFICES ASSUME NEW CONSTANT f
                 PROVE  /\ Cardinality(BeaconsOn(f)) \in Nat /\ Cardinality(BeaconsOn(f)') \in Nat
                        /\ Cardinality(BeaconsOn(f)') <= Cardinality(BeaconsOn(f))
    OBVIOUS
  <2>2. IsFiniteSet(BeaconsOn(f)) /\ Cardinality(BeaconsOn(f)) \in Nat
    BY FiniteOnFloor
  <2>3. BeaconsOn(f)' \in SUBSET BeaconsOn(f)
    BY <1>2
  <2>4. IsFiniteSet(BeaconsOn(f)') /\ Cardinality(BeaconsOn(f)') <= Cardinality(BeaconsOn(f))
    BY <2>2, <2>3, FS_Subset
  <2>. QED
    BY <2>2, <2>4, FS_CardinalityType
<1>4. FloorsTypeOK' /\ FloorInv'
  BY <1>0, <1>1, FloorsLeft DEF FloorsTypeOK, floorVars
<1>5. PlaceInv'
  BY <1>0, <1>1, <1>2 DEF PlaceInv, Creating, LiveBeacons
<1>6. BeaconIdentityInv'
  BY <1>0, <1>1, <1>2 DEF BeaconIdentityInv, LiveBeacons
<1>7. CountInv'
  <2>1. \A c \in BeaconRequests : beaconStep'[c] = "insert" =>
           Cardinality(BeaconsOn(beaconAsked[c].floor)') < BeaconLimit
    <3>1. SUFFICES ASSUME NEW c \in BeaconRequests, beaconStep'[c] = "insert"
                   PROVE  Cardinality(BeaconsOn(beaconAsked[c].floor)') < BeaconLimit
      OBVIOUS
    <3>2. Cardinality(BeaconsOn(beaconAsked[c].floor)) < BeaconLimit
      BY <1>0, <3>1 DEF CountInv
    <3>3. \A f : f = beaconAsked[c].floor => Cardinality(BeaconsOn(f)') < BeaconLimit
      BY <1>3, <3>2, FloorConstantsOK
    <3>4. beaconAsked'[c].floor = beaconAsked[c].floor
      BY <1>0
    <3>. QED
      BY <3>3, <3>4
  <2>2. \A f \in FloorRequests : Cardinality(BeaconsOn(f)') <= BeaconLimit
    BY <1>0, <1>3, FloorConstantsOK DEF CountInv
  <2>. QED
    BY <1>0, <1>1, <2>1, <2>2 DEF CountInv, FloorLocking
<1>. QED
  BY <1>4, <1>5, <1>6, <1>7 DEF FloorsInv

------------------------------------------------------------------------------
LEMMA StepFloors ==
    ASSUME FloorsInv, [FloorsNext]_resourceVars
    PROVE  FloorsInv'
<1>1. CASE UNCHANGED resourceVars
  <2>1. UNCHANGED floorVars /\ UNCHANGED beaconVars
    BY <1>1 DEF resourceVars
  <2>. QED
    BY <2>1, FloorsLeft, BeaconsLeft DEF FloorsInv, FloorsTypeOK, floorVars, beaconVars
<1>2. CASE FloorsNext
  BY <1>2, FloorStep, AskForBeaconStep, LockAndCountStep, InsertBeaconStep, ReadForPatchStep,
     UpdateBeaconStep, SoftDeleteBeaconStep DEF FloorsNext
<1>. QED
  BY <1>1, <1>2

LEMMA InvHolds ==
    ASSUME FloorsInv
    PROVE  FloorResourcesHold
<1>1. \A f : {b \in LiveBeacons : beaconRow[b].floor = f} = BeaconsOn(f)
  BY DEF BeaconsOn
<1>. QED
  BY <1>1 DEF FloorsInv, FloorInv, PlaceInv, BeaconIdentityInv, CountInv, FloorResourcesHold, FloorHasImage,
              BeaconsInOrder

(* Floors, beacons and the requests at work on them keep their shape.      *)
THEOREM FloorsTypeCorrect == FloorsSpec => []FloorsTypeOK
<1>1. FloorsInv => FloorsTypeOK
  BY DEF FloorsInv
<1>. QED
  BY <1>1, InitFloors, StepFloors, PTL DEF FloorsSpec

(* Whatever fails between the object store and the database, a floor has   *)
(* its image unless the answer to its insert was lost; and whatever races, *)
(* no floor holds more beacons than the limit, no two beacons share an     *)
(* identity, and each lies on its map.                                     *)
THEOREM FloorsAndBeaconsInOrder == FloorsSpec => []FloorResourcesHold
<1>. QED
  BY InvHolds, InitFloors, StepFloors, PTL DEF FloorsSpec
==============================================================================
