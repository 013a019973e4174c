-------------------------- MODULE OrganizationReads --------------------------
(***************************************************************************)
(* One client reads what organizations hold: a row, its result, a list, or *)
(* a list page by page, each page a request of its own with the cursor of  *)
(* the page before.  Rows come, complete and go meanwhile, and so do the   *)
(* roles of the client.  Reads change nothing, so one client is enough,    *)
(* and the rows are those of the table the endpoint reads.                 *)
(***************************************************************************)
EXTENDS Authorization, FiniteSets, Sequences

CONSTANTS
    Rows,           \* identifiers, which have an order
    Organizations,
    OrgOf,          \* row -> organization
    MembershipsIn,  \* organization -> the memberships of the client that are tried
    Runs,           \* rows that may complete
    Mine,           \* rows of the client's own pedestrian, or that the client asked for
    StampsOf,       \* bound: row -> values its created_at may have, in microseconds
    MicrosPerMilli, \* 1000 in the world
    PageSize,       \* limit of the query
    MaxHeld,        \* bound: memberships held when one more changes during a request
    NoCursor

(* In no read does an owner differ from a manager.                         *)
Memberships == {"none", "member", "manager", "suspended_manager"}

ASSUME ReadConstantsOK ==
    /\ Rows \subseteq Nat /\ IsFiniteSet(Rows)
    /\ OrgOf \in [Rows -> Organizations]
    /\ Mine \subseteq Rows /\ Runs \subseteq Rows
    /\ \A o \in Organizations : MembershipsIn[o] \subseteq Memberships
    /\ \A r \in Rows : StampsOf[r] \subseteq Nat
    /\ MicrosPerMilli \in Nat \ {0}
    /\ PageSize \in Nat \ {0}
    /\ MaxHeld \in Nat
    /\ NoCursor \notin Nat \X Rows

VARIABLES
    rowState,      \* row: "absent", "live", "completed" or "gone" (deleted_at)
    rowStamp,      \* row -> created_at
    clientIn,      \* organization -> membership of the client
    clientKind,    \* "user", "admin" or "service_client"
    readStep,      \* "idle", what was loaded ("actor" or "session"), or "over"
    readKind,      \* endpoint of the last answer
    rolesSeen,     \* roles loaded for the request
    heldIn,        \* history: organization -> memberships the client held during the request
    scope,         \* organization the pages are of
    cursor,        \* where the next page starts
    answer,        \* "none" before the first one
    page,          \* rows of the last answer
    shown,         \* rows of all pages so far
    twice,         \* rows that came more than once
    standing       \* rows there since the first page

rowVars  == <<rowState, rowStamp>>
clientVars == <<clientIn, clientKind>>
pageVars == <<scope, cursor, shown, twice, standing>>
organizationReadVars == <<rowVars, clientVars, readStep, readKind, rolesSeen, heldIn, answer, page, pageVars>>

ReadRoles == {"none", "member", "manager"}

Results == {"getAnalysisRunResult", "getTrajectoryResult", "getTrajectoryMapData"}
OwnKinds == {"listMyRecordings", "getMyPedestrian", "listMyOrganizationCreationRequests",
             "recording_of_organization"}
MemberKinds == {"listOrganizationBeacons", "getRecordingBeaconConfig", "listOrganizationFloors",
                "listFloors", "getFloor", "listBuildings", "getBuilding"}
Paged == {"listOrganizationRecordings", "listOrganizationTrajectories", "listAnalysisRuns",
          "listRecordingTrajectories", "listMyRecordings", "listOrganizationBeacons"}
ManagerKinds == {"listOrganizationRecordings", "listOrganizationTrajectories", "listAnalysisRuns",
                 "listRecordingTrajectories", "list_of_organization", "row_of_organization",
                 "list_for_administrator", "listPedestrians", "getRecording", "getTrajectory"}

ReadsTypeOK ==
    /\ rowState \in [Rows -> {"absent", "live", "completed", "gone"}]
    /\ rowStamp \in [Rows -> Nat]
    /\ clientIn \in [Organizations -> Memberships]
    /\ clientKind \in {"user", "admin", "service_client"}
    /\ readStep \in {"idle", "actor", "session", "over"}
    /\ readKind \in {"none"} \cup Results \cup OwnKinds \cup MemberKinds \cup Paged \cup ManagerKinds
    /\ rolesSeen \in [Organizations -> ReadRoles]
    /\ heldIn \in [Organizations -> SUBSET Memberships]
    /\ scope \subseteq Organizations
    /\ cursor \in {NoCursor} \cup (Nat \X Rows)
    /\ answer \in {"none", "ok", "NOT_FOUND", "NOT_READY", "INVALID", "AUTH_UNAUTHENTICATED",
                   "PAGINATION_CURSOR_INVALID", "AUTH_FORBIDDEN", "AUTH_ORGANIZATION_FORBIDDEN",
                   "AUTH_DASHBOARD_FORBIDDEN", "INTERNAL_SERVER_ERROR"}
    /\ \A s \in {page, shown, twice, standing} : s \subseteq Rows

ReadsInit ==
    /\ rowState = [r \in Rows |-> "absent"]
    /\ rowStamp = [r \in Rows |-> 0]
    /\ clientIn = [o \in Organizations |-> "none"]
    /\ clientKind = "user"
    /\ readStep = "idle" /\ readKind = "none" /\ answer = "none"
    /\ rolesSeen = [o \in Organizations |-> "none"]
    /\ heldIn = [o \in Organizations |-> {}]
    /\ scope = {} /\ cursor = NoCursor
    /\ page = {} /\ shown = {} /\ twice = {} /\ standing = {}

Live == {r \in Rows : rowState[r] \in {"live", "completed"}}

(* What the guards decide from.                                            *)
actor == [type |-> IF clientKind = "service_client" THEN "service_client" ELSE "user",
          global_role |-> IF clientKind = "admin" THEN "admin" ELSE "none",
          memberships |-> rolesSeen]

------------------------------------------------------------------------------
(* Loading the client.                                                     *)

RoleOf == [m \in Memberships |-> IF m = "suspended_manager" THEN "manager" ELSE m]

(* The session is an administrator's, or the client shows the API token    *)
(* instead of a session; their memberships do not matter.                  *)
Recognize ==
    /\ readStep = "idle" /\ clientKind = "user"
    /\ rowState = [r \in Rows |-> "absent"] /\ clientIn = [o \in Organizations |-> "none"]
    /\ clientKind' \in {"admin", "service_client"}
    /\ UNCHANGED <<rowVars, clientIn, readStep, readKind, rolesSeen, heldIn, answer, page, pageVars>>

HoldsNow == [o \in Organizations |-> {clientIn[o]}]

(* Mutant: the roles of the first page serve for the others too.           *)
RolesOfFirstPage ==
    IF cursor = NoCursor THEN [o \in Organizations |-> RoleOf[clientIn[o]]] ELSE rolesSeen

RolesHeld == [o \in Organizations |-> RoleOf[clientIn[o]]]

(* requestActorMiddleware: the memberships are read once per request, the  *)
(* suspended ones too.                                                     *)
LoadActor ==
    /\ readStep = "idle"
    /\ rolesSeen' = RolesHeld
    /\ heldIn' = HoldsNow
    /\ readStep' = "actor"
    /\ page' = {}
    /\ UNCHANGED <<rowVars, clientVars, readKind, answer, pageVars>>

(* The usecases for a session read the active membership themselves.       *)
LoadSession ==
    /\ readStep = "idle"
    /\ rolesSeen' = [o \in Organizations |-> IF clientIn[o] = "suspended_manager" THEN "none"
                                              ELSE RoleOf[clientIn[o]]]
    /\ heldIn' = HoldsNow
    /\ readStep' = "session"
    /\ page' = {}
    /\ UNCHANGED <<rowVars, clientVars, readKind, answer, pageVars>>

------------------------------------------------------------------------------
(* The queries.  Recordings, trajectories, floors and beacons are marked   *)
(* deleted and memberships end: from then on no query finds them.          *)

activeRecordings(os) == {r \in Live : OrgOf[r] \in os}

activeTrajectories(os) == {r \in Live : OrgOf[r] \in os}

floorRows(os) == {r \in Live : OrgOf[r] \in os}

enabledBeacons(o) == {r \in Live : OrgOf[r] = o}

organizationUsers(o) == {r \in Live : OrgOf[r] = o}

(* Analysis runs, buildings, pedestrians and requests for organizations    *)
(* are never deleted.                                                      *)
Kept == {r \in Rows : rowState[r] # "absent"}

analysisRuns(o) == {r \in Kept : OrgOf[r] = o}

buildingRows(os) == {r \in Kept : OrgOf[r] \in os}

pedestrianRows(os) == {r \in Kept : OrgOf[r] \in os}

myPedestrian == Kept \cap Mine

------------------------------------------------------------------------------
(* Answers.                                                                *)

Says(verdict, kind, rows) ==
    /\ answer' = verdict
    /\ page' = rows
    /\ readKind' = kind
    /\ UNCHANGED <<rowVars, clientVars, rolesSeen, heldIn>>

FoundIn(rows, r) == IF r \in rows THEN "ok" ELSE "NOT_FOUND"

(* The checks of an endpoint, in its order: the first refusal is the       *)
(* answer.                                                                 *)
Verdict(checks) ==
    LET refusals == {i \in DOMAIN checks : checks[i] # "ok"}
    IN IF refusals = {} THEN "ok" ELSE checks[CHOOSE i \in refusals : \A j \in refusals : i <= j]

(* The one answer of an endpoint without pages.                            *)
AnswerOnce(loaded, kind, checks, rows) ==
    /\ readStep = loaded /\ cursor = NoCursor
    /\ readStep' = "over"
    /\ Says(Verdict(checks), kind, IF Verdict(checks) = "ok" THEN rows ELSE {})
    /\ UNCHANGED pageVars

(* A result is there for a completed row only.                             *)
ReadyCheck(r) == IF rowState[r] = "completed" THEN "ok" ELSE "NOT_READY"

(* Later(r, s): r comes before s in created_at desc, id desc.              *)
Later(r, s) == rowStamp[r] > rowStamp[s] \/ (rowStamp[r] = rowStamp[s] /\ r > s)

AfterCursor(r) ==
    cursor = NoCursor \/ rowStamp[r] < cursor[1] \/ (rowStamp[r] = cursor[1] /\ r < cursor[2])

(* Mutant: the cursor carries milliseconds, like a Date of JavaScript.     *)
CursorInMillis(r) == <<(rowStamp[r] \div MicrosPerMilli) * MicrosPerMilli, r>>

(* cursor_created_at is formatted in the database, with microseconds.      *)
CursorOf(r) == <<rowStamp[r], r>>

First(n, rows) == {r \in rows : Cardinality({s \in rows : Later(s, r)}) < n}

(* What a client sends instead of a cursor it was given is refused.        *)
decodePaginationCursor(encoded) == IF encoded = "garbled" THEN "PAGINATION_CURSOR_INVALID" ELSE "ok"

(* toISOString has milliseconds, which the schema of cursors rejects:      *)
(* encodePaginationCursor throws.                                          *)
encodePaginationCursor(millis) == IF millis THEN "INTERNAL_SERVER_ERROR" ELSE "ok"

(* One page: the row beyond the limit tells whether there is a next one.   *)
(* all: the rows of the list; millis: how its cursor is formatted.         *)
AnswerPage(loaded, kind, o, checks, all, millis) ==
    /\ readStep = loaded
    /\ readKind \in {"none", kind} /\ scope \in {{}, {o}}
    /\ \E encoded \in {"given", "garbled"} :
          LET there == {r \in all : AfterCursor(r)}
              items == First(PageSize, there)
              more  == there # items
              said  == Verdict(checks \o <<decodePaginationCursor(encoded),
                                           IF more THEN encodePaginationCursor(millis) ELSE "ok">>)
          IN IF said # "ok"
             THEN Says(said, kind, {}) /\ readStep' = "over" /\ UNCHANGED pageVars
             ELSE /\ Says("ok", kind, items)
                  /\ scope' = {o}
                  /\ shown' = shown \cup items
                  /\ twice' = twice \cup (shown \cap items)
                  /\ standing' = IF cursor = NoCursor THEN all ELSE standing
                  /\ IF more THEN \E last \in items : /\ \A r \in items : ~Later(last, r)
                                                      /\ cursor' = CursorOf(last)
                             ELSE UNCHANGED cursor
                  /\ readStep' = IF more THEN "idle" ELSE "over"

------------------------------------------------------------------------------
(* The lists that come page by page.                                       *)

listOrganizationRecordings(o) ==
    AnswerPage("session", "listOrganizationRecordings", o,
               <<requireOrganizationManagerOrAdmin(actor, o)>>, activeRecordings({o}), FALSE)

listOrganizationTrajectories(o) ==
    AnswerPage("session", "listOrganizationTrajectories", o,
               <<requireOrganizationManagerOrAdmin(actor, o)>>, activeTrajectories({o}), FALSE)

listAnalysisRuns(o) ==
    AnswerPage("actor", "listAnalysisRuns", o,
               <<requireOrganizationManager(actor, o)>>, analysisRuns(o), FALSE)

(* The trajectories of a recording of o, while it is there.                *)
listRecordingTrajectories(o) ==
    \E found \in {"ok", "NOT_FOUND"} :
        AnswerPage("actor", "listRecordingTrajectories", o,
                   <<found, requireOrganizationManager(actor, o)>>, activeTrajectories({o}), FALSE)

UserOnly == IF actor.type = "user" THEN "ok" ELSE "AUTH_DASHBOARD_FORBIDDEN"

(* The recordings of the user's own pedestrian: no role is asked for.      *)
listMyRecordings(o) ==
    /\ o \in {OrgOf[r] : r \in Mine}
    /\ \E found \in {"ok", "NOT_FOUND"} :
          AnswerPage("actor", "listMyRecordings", o, <<UserOnly, found>>,
                     activeRecordings({o}) \cap Mine, FALSE)

(* The beacons of a floor of o; the disabled ones are for managers.        *)
listOrganizationBeacons(o) ==
    \E includeDisabled \in BOOLEAN, found \in {"ok", "NOT_FOUND"} :
        AnswerPage("actor", "listOrganizationBeacons", o,
                   <<requireOrganizationMember(actor, o),
                     IF includeDisabled THEN requireOrganizationManager(actor, o) ELSE "ok", found>>,
                   enabledBeacons(o), TRUE)

------------------------------------------------------------------------------
(* The lists that come whole.                                              *)

listOrganizationBuildings(o) ==
    AnswerOnce("session", "list_of_organization", <<requireOrganizationManagerOrAdmin(actor, o)>>,
               buildingRows({o}))

(* The floors of one building.                                             *)
listOrganizationBuildingFloors(o) ==
    \E found \in {"ok", "NOT_FOUND"} :
        AnswerOnce("session", "list_of_organization",
                   <<requireOrganizationManagerOrAdmin(actor, o), found>>, floorRows({o}))

listOrganizationUsers(o) ==
    AnswerOnce("session", "list_of_organization", <<requireOrganizationManagerOrAdmin(actor, o)>>,
               organizationUsers(o))

listOrganizationFloors(o) ==
    AnswerOnce("session", "listOrganizationFloors", <<requireOrganizationMemberOrAdmin(actor, o)>>,
               floorRows({o}))

getRecordingBeaconConfig(o) ==
    \E found \in {"ok", "NOT_FOUND"} :
        AnswerOnce("actor", "getRecordingBeaconConfig", <<requireOrganizationMember(actor, o), found>>,
                   enabledBeacons(o))

listOrganizations ==
    AnswerOnce("session", "list_for_administrator", <<requireAdmin(actor)>>, Kept)

listOrganizationCreationRequests ==
    AnswerOnce("session", "list_for_administrator", <<requireAdmin(actor)>>, Kept)

listMyOrganizationCreationRequests ==
    AnswerOnce("session", "listMyOrganizationCreationRequests", <<requireSessionUser(actor)>>,
               Kept \cap Mine)

listFloors ==
    AnswerOnce("actor", "listFloors", <<>>, floorRows(accessibleOrganizationIds(actor, Organizations)))

listBuildings ==
    AnswerOnce("actor", "listBuildings", <<>>, buildingRows(accessibleOrganizationIds(actor, Organizations)))

listPedestrians ==
    AnswerOnce("actor", "listPedestrians", <<requireDashboardReadAccess(actor, Organizations)>>,
               pedestrianRows(managerOrganizationIds(actor, Organizations)))

------------------------------------------------------------------------------
(* One row.                                                                *)

(* The organization r itself, looked up before the role in it.             *)
getOrganization(r) ==
    AnswerOnce("session", "row_of_organization",
               <<requireSessionUser(actor), FoundIn(Kept, r),
                 requireOrganizationManagerOrAdmin(actor, OrgOf[r])>>, {r})

getOrganizationUser(o, r) ==
    AnswerOnce("session", "row_of_organization",
               <<requireOrganizationManagerOrAdmin(actor, o), FoundIn(organizationUsers(o), r)>>, {r})

getOrganizationBuildingDetail(o, r) ==
    AnswerOnce("session", "row_of_organization",
               <<requireOrganizationManagerOrAdmin(actor, o), FoundIn(buildingRows({o}), r)>>, {r})

getOrganizationCreationRequest(r) ==
    AnswerOnce("session", "list_for_administrator", <<requireAdmin(actor), FoundIn(Kept, r)>>, {r})

getFloor(r) ==
    AnswerOnce("actor", "getFloor",
               <<FoundIn(floorRows(accessibleOrganizationIds(actor, Organizations)), r)>>, {r})

getBuilding(r) ==
    AnswerOnce("actor", "getBuilding",
               <<FoundIn(buildingRows(accessibleOrganizationIds(actor, Organizations)), r)>>, {r})

getRecording(r) ==
    AnswerOnce("actor", "getRecording",
               <<FoundIn(Live, r), requireOrganizationManager(actor, OrgOf[r])>>, {r})

(* Download URLs of the declared files that were uploaded.                 *)
getRecordingRaw(r) ==
    \E uploaded \in {"ok", "NOT_FOUND"} :
        AnswerOnce("actor", "getRecording",
                   <<FoundIn(Live, r), requireOrganizationManager(actor, OrgOf[r]), uploaded>>, {r})

(* What is stored is parsed again.                                         *)
getRecordingConstraints(r) ==
    \E parsed \in {"ok", "INVALID"} :
        AnswerOnce("actor", "recording_of_organization",
                   <<FoundIn(Live, r), requireRecordingAccess(actor, OrgOf[r], r \in Mine), parsed>>, {r})

(* GET /organizations/{o}/recordings/{r}: the row is looked up in o.       *)
getScopedRecording(o, r) ==
    AnswerOnce("actor", "recording_of_organization",
               <<FoundIn(activeRecordings({o}), r), requireRecordingAccess(actor, o, r \in Mine)>>, {r})

getTrajectory(r) ==
    AnswerOnce("actor", "getTrajectory",
               <<FoundIn(Live, r), requireOrganizationManager(actor, OrgOf[r])>>, {r})

getMyPedestrian ==
    AnswerOnce("actor", "getMyPedestrian",
               <<UserOnly, IF myPedestrian = {} THEN "NOT_FOUND" ELSE "ok">>, myPedestrian)

getTrajectoryResult(r) ==
    AnswerOnce("actor", "getTrajectoryResult",
               <<FoundIn(Live, r), requireOrganizationManager(actor, OrgOf[r]), ReadyCheck(r)>>, {r})

(* The file of the result may be missing, or not be a table of points.     *)
getTrajectoryMapData(r) ==
    \E parsed \in {"ok", "NOT_FOUND", "INVALID"} :
        AnswerOnce("actor", "getTrajectoryMapData",
                   <<FoundIn(Live, r), requireOrganizationManager(actor, OrgOf[r]), ReadyCheck(r), parsed>>, {r})

getAnalysisRun(o, r) ==
    AnswerOnce("actor", "row_of_organization",
               <<requireOrganizationManager(actor, o), FoundIn(analysisRuns(o), r)>>, {r})

getPositioningAnalysisRun(o, r) ==
    AnswerOnce("actor", "row_of_organization",
               <<requireOrganizationManager(actor, o), FoundIn(analysisRuns(o), r)>>, {r})

getAnalysisRunResult(o, r) ==
    \E artifact \in {"ok", "INVALID"} :
        AnswerOnce("actor", "getAnalysisRunResult",
                   <<requireOrganizationManager(actor, o), FoundIn(analysisRuns(o), r), ReadyCheck(r), artifact>>,
                   {r})

------------------------------------------------------------------------------
(* What happens meanwhile; after the last answer nothing matters any more. *)

Reading == readStep # "over"

(* created_at is the start of the inserting transaction, so a row may      *)
(* appear among older ones.                                                *)
RowAppears(r) ==
    /\ Reading /\ rowState[r] = "absent"
    /\ rowState' = [rowState EXCEPT ![r] = "live"]
    /\ \E stamp \in StampsOf[r] : rowStamp' = [rowStamp EXCEPT ![r] = stamp]
    /\ UNCHANGED <<clientVars, readStep, readKind, rolesSeen, heldIn, answer, page, pageVars>>

(* Results are read in one request, so it is enough that rows complete     *)
(* before it begins.                                                       *)
RowCompletes(r) ==
    /\ r \in Runs
    /\ readStep = "idle" /\ cursor = NoCursor /\ rowState[r] = "live"
    /\ rowState' = [rowState EXCEPT ![r] = "completed"]
    /\ UNCHANGED <<rowStamp, clientVars, readStep, readKind, rolesSeen, heldIn, answer, page, pageVars>>

RowGoes(r) ==
    /\ Reading /\ r \in Live
    /\ rowState' = [rowState EXCEPT ![r] = "gone"]
    /\ standing' = standing \ {r}
    /\ UNCHANGED <<rowStamp, clientVars, readStep, readKind, rolesSeen, heldIn, answer, page,
                   scope, cursor, shown, twice>>

(* Also while a request runs, which has read the roles once and goes by    *)
(* them to its end.                                                        *)
RoleChanges(o) ==
    /\ Reading /\ clientKind = "user"
    /\ readStep # "idle" => \A q \in Organizations : Cardinality(heldIn[q]) <= MaxHeld
    /\ \E m \in MembershipsIn[o] \ {clientIn[o]} :
          /\ clientIn' = [clientIn EXCEPT ![o] = m]
          /\ heldIn' = IF readStep = "idle" THEN heldIn ELSE [heldIn EXCEPT ![o] = @ \cup {m}]
    /\ UNCHANGED <<clientKind, rowVars, readStep, readKind, rolesSeen, answer, page, pageVars>>

ReadPages(o) ==
    \/ listOrganizationRecordings(o) \/ listOrganizationTrajectories(o) \/ listAnalysisRuns(o)
    \/ listRecordingTrajectories(o) \/ listMyRecordings(o) \/ listOrganizationBeacons(o)

ReadLists ==
    \/ listOrganizations \/ listOrganizationCreationRequests \/ listMyOrganizationCreationRequests
    \/ listFloors \/ listBuildings \/ listPedestrians
    \/ \E o \in Organizations :
          \/ listOrganizationBuildings(o) \/ listOrganizationBuildingFloors(o)
          \/ listOrganizationUsers(o) \/ listOrganizationFloors(o) \/ getRecordingBeaconConfig(o)

ReadRows ==
    \/ getMyPedestrian
    \/ \E r \in Rows :
          \/ getOrganization(r) \/ getOrganizationCreationRequest(r) \/ getFloor(r) \/ getBuilding(r)
          \/ getRecording(r) \/ getRecordingRaw(r) \/ getRecordingConstraints(r)
          \/ getTrajectory(r) \/ getTrajectoryResult(r) \/ getTrajectoryMapData(r)
          \/ \E o \in Organizations :
                \/ getOrganizationUser(o, r) \/ getOrganizationBuildingDetail(o, r)
                \/ getScopedRecording(o, r) \/ getAnalysisRun(o, r)
                \/ getPositioningAnalysisRun(o, r) \/ getAnalysisRunResult(o, r)

ReadsNext ==
    \/ Recognize \/ LoadActor \/ LoadSession \/ ReadLists \/ ReadRows
    \/ \E r \in Rows : RowAppears(r) \/ RowCompletes(r) \/ RowGoes(r)
    \/ \E o \in Organizations : ReadPages(o) \/ RoleChanges(o)

ReadsSpec == ReadsInit /\ [][ReadsNext]_organizationReadVars

------------------------------------------------------------------------------
(* What a client is shown: everything to an administrator and to a service *)
(* client; to others what is theirs where the endpoint serves it, and the  *)
(* rest only of organizations in which they have held a membership, for    *)
(* most endpoints a manager's, since the request began.  The roles of an   *)
(* earlier request, of the page before, do not serve, and those of this    *)
(* one only until its answer.                                              *)
AnswersWithinRole ==
    \A r \in page :
        \/ clientKind # "user"
        \/ readKind \in OwnKinds /\ r \in Mine
        \/ readKind \in MemberKinds /\ \E m \in heldIn[OrgOf[r]] : m # "none"
        \/ \E m \in heldIn[OrgOf[r]] : RoleOf[m] = "manager"

(* Whatever is inserted or deleted between two pages, no row comes twice,  *)
(* and who has read to the last page has seen every row that was there all *)
(* the time, rows of the same microsecond included.                        *)
PagesMissNothing ==
    /\ twice = {}
    /\ readKind \in Paged /\ readStep = "over" /\ answer = "ok" => standing \subseteq shown

(* No result is given of what did not complete.                            *)
ResultsAreComplete ==
    readKind \in Results => \A r \in page : rowState[r] \in {"completed", "gone"}

ReadsHold == AnswersWithinRole /\ PagesMissNothing /\ ResultsAreComplete

(* A page that is not the last one comes with the cursor of the next one:  *)
(* schemas/pagination.ts says that next_cursor is null on the last page    *)
(* only.                                                                   *)
EveryPageHasItsCursor == answer # "INTERNAL_SERVER_ERROR"
==============================================================================
