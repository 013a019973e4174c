------------------------- MODULE KaedeRequestsProofs -------------------------
(***************************************************************************)
(* Proofs about what clients are shown, for any rows and any order in      *)
(* which they come and go, and about all request components side by side.  *)
(***************************************************************************)
EXTENDS KaedeRequests, SignInProofs, ResourceProofs, OnboardingProofs, OrganizationAccessProofs

------------------------------------------------------------------------------
(***************************************************************************)
(* Reads: lists, pages, rows and results.                                  *)
(***************************************************************************)

ReadRefusals == {"NOT_FOUND", "NOT_READY", "INVALID", "AUTH_UNAUTHENTICATED", "PAGINATION_CURSOR_INVALID",
             "AUTH_FORBIDDEN", "AUTH_ORGANIZATION_FORBIDDEN", "AUTH_DASHBOARD_FORBIDDEN",
             "INTERNAL_SERVER_ERROR"}
Codes == {"ok"} \cup ReadRefusals

(* What the client may be shown of an endpoint.                            *)
Served(kind, r) ==
    \/ clientKind # "user"
    \/ kind \in OwnKinds /\ r \in Mine
    \/ kind \in MemberKinds /\ rolesSeen[OrgOf[r]] # "none"
    \/ rolesSeen[OrgOf[r]] = "manager"

(* The rows of a list that comes page by page.                             *)
Listed(kind, os) ==
    {r \in Kept : /\ OrgOf[r] \in os
                  /\ kind # "listAnalysisRuns" => r \in Live
                  /\ kind = "listMyRecordings" => r \in Mine}

(* Between two pages: what was shown is what lies before the cursor of the *)
(* rows that have been there since the first page, and is there still.     *)
BetweenPages ==
    IF cursor = NoCursor
    THEN readKind = "none" /\ shown = {} /\ standing = {}
    ELSE /\ readKind \in Paged
         /\ standing \subseteq Listed(readKind, scope)
         /\ shown \subseteq Kept
         /\ \A r \in shown : ~AfterCursor(r)
         /\ \A r \in standing : AfterCursor(r) \/ r \in shown

(* What the guards go by, the client did hold while the request ran.       *)
RolesWereHeld ==
    \A o \in Organizations : rolesSeen[o] # "none" => \E m \in heldIn[o] : RoleOf[m] = rolesSeen[o]

ReadsInv ==
    /\ ReadsTypeOK
    /\ ReadsHold
    /\ RolesWereHeld
    /\ readStep # "over" => BetweenPages
------------------------------------------------------------------------------
(* What the guards let through, and what they answer.                      *)
LEMMA LeastRefusal ==
    ASSUME NEW S, S \subseteq 1 .. 6, S # {}
    PROVE  \E i \in S : \A j \in S : i <= j
<1>1. CASE 1 \in S
  BY <1>1
<1>2. CASE 1 \notin S /\ 2 \in S
  BY <1>2
<1>3. CASE 1 \notin S /\ 2 \notin S /\ 3 \in S
  BY <1>3
<1>4. CASE 1 \notin S /\ 2 \notin S /\ 3 \notin S /\ 4 \in S
  BY <1>4
<1>5. CASE 1 \notin S /\ 2 \notin S /\ 3 \notin S /\ 4 \notin S /\ 5 \in S
  BY <1>5
<1>6. CASE \A i \in 1 .. 5 : i \notin S
  <2>1. PICK i \in S : i \in 1 .. 6
    OBVIOUS
  <2>2. i = 6
    BY <1>6, <2>1
  <2>. QED
    BY <2>2
<1>. QED
  BY <1>1, <1>2, <1>3, <1>4, <1>5, <1>6

(* An endpoint answers with a refusal of one of its checks, or with rows   *)
(* when all of them agree.                                                 *)
LEMMA VerdictIs ==
    ASSUME NEW checks \in Seq(Codes), Len(checks) <= 6
    PROVE  /\ Verdict(checks) \in Codes
           /\ Verdict(checks) = "ok" => \A i \in 1 .. Len(checks) : checks[i] = "ok"
<1>. DEFINE refused == {i \in DOMAIN checks : checks[i] # "ok"}
<1>1. DOMAIN checks = 1 .. Len(checks) /\ \A i \in DOMAIN checks : checks[i] \in Codes
  OBVIOUS
<1>2. CASE refused = {}
  <2>1. Verdict(checks) = "ok"
    BY <1>2 DEF Verdict
  <2>. QED
    BY <1>1, <1>2, <2>1 DEF Codes
<1>3. CASE refused # {}
  <2>. DEFINE first == CHOOSE i \in refused : \A j \in refused : i <= j
  <2>1. refused \subseteq 1 .. 6
    BY <1>1
  <2>2. \E i \in refused : \A j \in refused : i <= j
    <3>. HIDE DEF refused
    <3>. QED
      BY <1>3, <2>1, LeastRefusal
  <2>3. first \in refused
    BY <2>2
  <2>4. Verdict(checks) = checks[first]
    BY <1>3 DEF Verdict
  <2>. HIDE DEF first
  <2>. QED
    BY <1>1, <2>3, <2>4
<1>. QED
  BY <1>2, <1>3

LEMMA ActorIs ==
    ASSUME ReadsTypeOK, NEW o \in Organizations
    PROVE  /\ actor.type \in {"user", "service_client"} /\ actor.global_role \in {"admin", "none"}
           /\ isUnrestrictedActor(actor) <=> clientKind # "user"
           /\ actor.global_role = "admin" => clientKind # "user"
           /\ clientKind = "user" => findMembership(actor, o) = rolesSeen[o]
           /\ findMembership(actor, o) \in ReadRoles
BY DEF ReadsTypeOK, actor, isUnrestrictedActor, findMembership, ReadRoles

LEMMA RankIs ==
    ASSUME NEW role \in ReadRoles
    PROVE  /\ roleAtLeast(role, "manager") <=> role = "manager"
           /\ roleAtLeast(role, "member") <=> role # "none"
BY DEF ReadRoles, roleAtLeast, roleRanks

LEMMA ManagersOnly ==
    ASSUME ReadsTypeOK, NEW o \in Organizations
    PROVE  /\ requireOrganizationManager(actor, o) \in Codes
           /\ requireOrganizationManagerOrAdmin(actor, o) \in Codes
           /\ requireOrganizationManager(actor, o) = "ok" => clientKind # "user" \/ rolesSeen[o] = "manager"
           /\ requireOrganizationManagerOrAdmin(actor, o) = "ok" => clientKind # "user" \/ rolesSeen[o] = "manager"
<1>1. requireAdmin(actor) \in Codes /\ (requireAdmin(actor) = "ok" => clientKind # "user")
  BY ActorIs DEF requireAdmin, requireSessionUser, Codes, ReadRefusals
<1>2. /\ requireOrganizationManager(actor, o) \in Codes
      /\ requireOrganizationManager(actor, o) = "ok" => clientKind # "user" \/ rolesSeen[o] = "manager"
  BY ActorIs, RankIs DEF requireOrganizationManager, WithoutMembership, Codes, ReadRefusals
<1>3. /\ requireOrganizationManagerOrAdmin(actor, o) \in Codes
      /\ requireOrganizationManagerOrAdmin(actor, o) = "ok" => clientKind # "user" \/ rolesSeen[o] = "manager"
  BY <1>1, ActorIs, RankIs DEF requireOrganizationManagerOrAdmin, Codes, ReadRefusals
<1>. QED
  BY <1>2, <1>3

LEMMA MembersOnly ==
    ASSUME ReadsTypeOK, NEW o \in Organizations
    PROVE  /\ requireOrganizationMember(actor, o) \in Codes
           /\ requireOrganizationMemberOrAdmin(actor, o) \in Codes
           /\ requireOrganizationMember(actor, o) = "ok" => clientKind # "user" \/ rolesSeen[o] # "none"
           /\ requireOrganizationMemberOrAdmin(actor, o) = "ok" => clientKind # "user" \/ rolesSeen[o] # "none"
<1>1. requireAdmin(actor) \in Codes /\ (requireAdmin(actor) = "ok" => clientKind # "user")
  BY ActorIs DEF requireAdmin, requireSessionUser, Codes, ReadRefusals
<1>2. /\ requireOrganizationMember(actor, o) \in Codes
      /\ requireOrganizationMember(actor, o) = "ok" => clientKind # "user" \/ rolesSeen[o] # "none"
  BY ActorIs DEF requireOrganizationMember, WithoutMembership, Codes, ReadRefusals
<1>3. /\ requireOrganizationMemberOrAdmin(actor, o) \in Codes
      /\ requireOrganizationMemberOrAdmin(actor, o) = "ok" => clientKind # "user" \/ rolesSeen[o] # "none"
  BY <1>1, ActorIs, RankIs DEF requireOrganizationMemberOrAdmin, Codes, ReadRefusals
<1>. QED
  BY <1>2, <1>3

LEMMA AdministratorsOnly ==
    ASSUME ReadsTypeOK
    PROVE  /\ requireAdmin(actor) \in Codes /\ requireSessionUser(actor) \in Codes /\ UserOnly \in Codes
           /\ requireAdmin(actor) = "ok" => clientKind # "user"
BY DEF ReadsTypeOK, actor, requireAdmin, requireSessionUser, UserOnly, Codes, ReadRefusals

LEMMA RecordingIsServed ==
    ASSUME ReadsTypeOK, NEW o \in Organizations, NEW r
    PROVE  /\ requireRecordingAccess(actor, o, r \in Mine) \in Codes
           /\ requireRecordingAccess(actor, o, r \in Mine) = "ok" =>
                  clientKind # "user" \/ rolesSeen[o] = "manager" \/ r \in Mine
BY ActorIs, RankIs DEF requireRecordingAccess, WithoutMembership, Codes, ReadRefusals

LEMMA RowsInOrganizations ==
    /\ \A r \in Rows : OrgOf[r] \in Organizations
    /\ Live \subseteq Kept /\ Kept \subseteq Rows
BY ReadConstantsOK DEF Live, Kept

(* What the guards let through is within the roles held.                   *)
LEMMA ServedIsWithinRole ==
    ASSUME ReadsInv, NEW r \in Rows, NEW kind, Served(kind, r)
    PROVE  \/ clientKind # "user"
           \/ kind \in OwnKinds /\ r \in Mine
           \/ kind \in MemberKinds /\ \E m \in heldIn[OrgOf[r]] : m # "none"
           \/ \E m \in heldIn[OrgOf[r]] : RoleOf[m] = "manager"
<1>1. OrgOf[r] \in Organizations
  BY RowsInOrganizations
<1>2. rolesSeen[OrgOf[r]] # "none" => \E m \in heldIn[OrgOf[r]] : RoleOf[m] = rolesSeen[OrgOf[r]]
  BY <1>1 DEF ReadsInv, RolesWereHeld
<1>3. RoleOf["none"] = "none"
  BY DEF RoleOf, Memberships
<1>. QED
  BY <1>2, <1>3 DEF Served

------------------------------------------------------------------------------
(* The one answer of an endpoint without pages.                            *)
LEMMA OnceKeepsInv ==
    ASSUME ReadsInv, NEW loaded, NEW kind \in Results \cup OwnKinds \cup MemberKinds \cup ManagerKinds,
           kind \notin Paged, NEW checks \in Seq(Codes), Len(checks) <= 6, NEW rows \in SUBSET Rows,
           (\A i \in 1 .. Len(checks) : checks[i] = "ok") =>
               \A r \in rows : Served(kind, r) /\ (kind \in Results => rowState[r] = "completed"),
           AnswerOnce(loaded, kind, checks, rows)
    PROVE  ReadsInv'
<1>1. /\ answer' = Verdict(checks) /\ page' = (IF Verdict(checks) = "ok" THEN rows ELSE {})
      /\ readKind' = kind /\ readStep' = "over"
      /\ UNCHANGED <<rowState, rowStamp, clientIn, clientKind, rolesSeen, heldIn, scope, cursor, shown,
                   twice, standing>>
  BY DEF AnswerOnce, Says, rowVars, clientVars, pageVars
<1>2. /\ Verdict(checks) \in Codes
      /\ \A r \in page' : Served(kind, r) /\ (kind \in Results => rowState[r] = "completed")
  BY <1>1, VerdictIs
<1>3. ReadsTypeOK'
  BY <1>1, <1>2 DEF ReadsInv, ReadsTypeOK, Codes, ReadRefusals
<1>4. AnswersWithinRole'
  <2>1. \A r \in page' : r \in Rows
    BY <1>1
  <2>2. ASSUME NEW r \in page'
        PROVE  \/ clientKind # "user"
               \/ kind \in OwnKinds /\ r \in Mine
               \/ kind \in MemberKinds /\ \E m \in heldIn[OrgOf[r]] : m # "none"
               \/ \E m \in heldIn[OrgOf[r]] : RoleOf[m] = "manager"
    BY <1>2, <2>1, <2>2, ServedIsWithinRole
  <2>. QED
    BY <1>1, <2>2 DEF AnswersWithinRole
<1>5. ResultsAreComplete'
  BY <1>1, <1>2 DEF ResultsAreComplete
<1>6. PagesMissNothing'
  BY <1>1 DEF ReadsInv, ReadsHold, PagesMissNothing
<1>7. RolesWereHeld'
  BY <1>1 DEF ReadsInv, RolesWereHeld
<1>. QED
  BY <1>1, <1>3, <1>4, <1>5, <1>6, <1>7 DEF ReadsInv, ReadsHold

(* A list that was read between two pages goes on where it was.            *)
LEMMA PageRows ==
    ASSUME ReadsInv, readStep # "over", NEW o \in Organizations, NEW kind \in Paged,
           readKind \in {"none", kind}, scope \in {{}, {o}},
           NEW there, there = {r \in Listed(kind, {o}) : AfterCursor(r)},
           NEW base, base = (IF cursor = NoCursor THEN Listed(kind, {o}) ELSE standing)
    PROVE  /\ there \subseteq Kept /\ base \subseteq Listed(kind, {o})
           /\ \A r \in base : r \in there \/ (r \in shown /\ ~AfterCursor(r))
           /\ \A r \in shown : ~AfterCursor(r)
           /\ shown \subseteq Kept
<1>1. BetweenPages
  BY DEF ReadsInv
<1>2. CASE cursor = NoCursor
  <2>1. shown = {} /\ base = Listed(kind, {o}) /\ there = base
    BY <1>1, <1>2 DEF BetweenPages, AfterCursor
  <2>. QED
    BY <2>1 DEF Listed
<1>3. CASE cursor # NoCursor
  <2>1. /\ readKind \in Paged /\ standing \subseteq Listed(readKind, scope) /\ base = standing
        /\ shown \subseteq Kept /\ \A r \in shown : ~AfterCursor(r)
        /\ \A r \in standing : AfterCursor(r) \/ r \in shown
    BY <1>1, <1>3 DEF BetweenPages
  <2>2. readKind = kind
    BY <2>1 DEF Paged
  <2>3. standing \subseteq Listed(kind, {o})
    BY <2>1, <2>2 DEF Listed
  <2>. QED
    BY <2>1, <2>3 DEF Listed
<1>. QED
  BY <1>2, <1>3

(* The rows of a page come first in the order of the list.                 *)
LEMMA PageIsFirst ==
    ASSUME ReadsTypeOK, NEW there \in SUBSET Rows, NEW last \in First(PageSize, there),
           NEW r \in there, ~Later(last, r)
    PROVE  r \in First(PageSize, there)
<1>. DEFINE ahead(q) == {s \in there : Later(s, q)}
<1>1. /\ rowStamp \in [Rows -> Nat] /\ Rows \subseteq Nat /\ IsFiniteSet(Rows)
      /\ PageSize \in Nat
  BY ReadConstantsOK DEF ReadsTypeOK
<1>2. last \in there /\ Cardinality(ahead(last)) < PageSize
  BY DEF First
<1>3. \A q \in there : q \in Nat /\ rowStamp[q] \in Nat
  BY <1>1
<1>4. ahead(r) \subseteq ahead(last)
  BY <1>2, <1>3 DEF Later
<1>5. IsFiniteSet(there)
  BY <1>1, FS_Subset
<1>6. IsFiniteSet(ahead(last)) /\ IsFiniteSet(ahead(r))
  BY <1>5, FS_Subset
<1>7. /\ Cardinality(ahead(r)) <= Cardinality(ahead(last))
      /\ Cardinality(ahead(r)) \in Nat /\ Cardinality(ahead(last)) \in Nat
  BY <1>4, <1>6, FS_Subset, FS_CardinalityType
<1>8. Cardinality(ahead(r)) < PageSize
  BY <1>1, <1>2, <1>7
<1>. QED
  BY <1>8 DEF First

(* The cursor of a row: what comes after it, and what was before the last  *)
(* cursor is before this one.                                              *)
LEMMA CursorMoves ==
    ASSUME ReadsTypeOK, NEW last \in Rows, AfterCursor(last), cursor' = CursorOf(last), UNCHANGED rowStamp
    PROVE  /\ cursor' \in Nat \X Rows /\ cursor' # NoCursor
           /\ \A r \in Rows : AfterCursor(r)' <=> Later(last, r)
           /\ \A r \in Rows : Later(last, r) => AfterCursor(r)
<1>1. /\ rowStamp \in [Rows -> Nat] /\ Rows \subseteq Nat
      /\ cursor \in {NoCursor} \cup (Nat \X Rows)
      /\ NoCursor \notin Nat \X Rows
  BY ReadConstantsOK DEF ReadsTypeOK
<1>2. \A q \in Rows : q \in Nat /\ rowStamp[q] \in Nat
  BY <1>1
<1>3. /\ cursor' = <<rowStamp[last], last>> /\ cursor' \in Nat \X Rows
      /\ cursor' # NoCursor /\ cursor'[1] = rowStamp[last] /\ cursor'[2] = last
  BY <1>1, <1>2 DEF CursorOf
<1>4. \A r \in Rows : AfterCursor(r)' <=> Later(last, r)
  BY <1>2, <1>3 DEF AfterCursor, Later
<1>5. ASSUME NEW r \in Rows, Later(last, r) PROVE AfterCursor(r)
  <2>1. CASE cursor = NoCursor
    BY <2>1 DEF AfterCursor
  <2>2. CASE cursor # NoCursor
    <3>1. cursor[1] \in Nat /\ cursor[2] \in Nat
      <4>1. cursor \in Nat \X Rows
        BY <1>1, <2>2
      <4>2. cursor[1] \in Nat /\ cursor[2] \in Rows
        BY <4>1
      <4>. QED
        BY <1>2, <4>2
    <3>2. rowStamp[last] < cursor[1] \/ (rowStamp[last] = cursor[1] /\ last < cursor[2])
      BY <2>2 DEF AfterCursor
    <3>3. rowStamp[last] > rowStamp[r] \/ (rowStamp[last] = rowStamp[r] /\ last > r)
      BY <1>5 DEF Later
    <3>4. rowStamp[r] < cursor[1] \/ (rowStamp[r] = cursor[1] /\ r < cursor[2])
      BY <1>2, <3>1, <3>2, <3>3
    <3>. QED
      BY <3>4 DEF AfterCursor
  <2>. QED
    BY <2>1, <2>2
<1>. QED
  BY <1>3, <1>4, <1>5

LEMMA ExtendedBy ==
    ASSUME NEW S, NEW s \in Seq(S), NEW t \in Seq(S), Len(s) <= 4, Len(t) = 2
    PROVE  /\ s \o t \in Seq(S) /\ Len(s \o t) <= 6
           /\ \A i \in 1 .. Len(s) : i \in 1 .. Len(s \o t) /\ (s \o t)[i] = s[i]
<1>1. /\ s \o t \in Seq(S)
      /\ Len(s \o t) = Len(s) + Len(t)
      /\ \A i \in 1 .. Len(s) + Len(t) : (s \o t)[i] = IF i <= Len(s) THEN s[i] ELSE t[i - Len(s)]
  BY ConcatProperties
<1>2. Len(s) \in Nat
  OBVIOUS
<1>. QED
  BY <1>1, <1>2

(* One page.                                                               *)
LEMMA PageKeepsInv ==
    ASSUME ReadsInv, NEW loaded, loaded # "over", NEW kind \in Paged, NEW o \in Organizations,
           NEW checks \in Seq(Codes), Len(checks) <= 4, NEW millis \in BOOLEAN,
           (\A i \in 1 .. Len(checks) : checks[i] = "ok") => \A r \in Listed(kind, {o}) : Served(kind, r),
           AnswerPage(loaded, kind, o, checks, Listed(kind, {o}), millis)
    PROVE  ReadsInv'
<1>. DEFINE all == Listed(kind, {o})
            there == {r \in all : AfterCursor(r)}
            items == First(PageSize, there)
            more == there # items
            base == IF cursor = NoCursor THEN all ELSE standing
            full(encoded) == checks \o <<decodePaginationCursor(encoded),
                                         IF more THEN encodePaginationCursor(millis) ELSE "ok">>
            said(encoded) == Verdict(full(encoded))
<1>1. ReadsTypeOK /\ readStep # "over" /\ readKind \in {"none", kind} /\ scope \in {{}, {o}} /\ twice = {}
  BY DEF AnswerPage, ReadsInv, ReadsHold, PagesMissNothing
<1>2. PICK encoded \in {"given", "garbled"} :
          IF said(encoded) # "ok"
          THEN Says(said(encoded), kind, {}) /\ readStep' = "over" /\ UNCHANGED pageVars
          ELSE /\ Says("ok", kind, items)
               /\ scope' = {o}
               /\ shown' = shown \cup items
               /\ twice' = twice \cup (shown \cap items)
               /\ standing' = base
               /\ IF more THEN \E last \in items : /\ \A r \in items : ~Later(last, r)
                                                   /\ cursor' = CursorOf(last)
                          ELSE UNCHANGED cursor
               /\ readStep' = IF more THEN "idle" ELSE "over"
  BY DEF AnswerPage
<1>3. /\ said(encoded) \in Codes
      /\ said(encoded) = "ok" => \A i \in 1 .. Len(checks) : checks[i] = "ok"
  <2>. DEFINE tail == <<decodePaginationCursor(encoded), IF more THEN encodePaginationCursor(millis) ELSE "ok">>
  <2>1. decodePaginationCursor(encoded) \in Codes /\ (IF more THEN encodePaginationCursor(millis) ELSE "ok") \in Codes
    BY DEF decodePaginationCursor, encodePaginationCursor, Codes, ReadRefusals
  <2>2. tail \in Seq(Codes) /\ Len(tail) = 2
    <3>. DEFINE d == decodePaginationCursor(encoded)
                e == IF more THEN encodePaginationCursor(millis) ELSE "ok"
    <3>. HIDE DEF d, e
    <3>1. d \in Codes /\ e \in Codes
      BY <2>1 DEF d, e
    <3>2. <<d, e>> \in Seq(Codes) /\ Len(<<d, e>>) = 2
      BY <3>1
    <3>. QED
      BY <3>2 DEF d, e
  <2>3. full(encoded) = checks \o tail
    OBVIOUS
  <2>. HIDE DEF tail, full
  <2>4. /\ full(encoded) \in Seq(Codes) /\ Len(full(encoded)) <= 6
        /\ \A i \in 1 .. Len(checks) : i \in 1 .. Len(full(encoded)) /\ full(encoded)[i] = checks[i]
    BY <2>2, <2>3, ExtendedBy
  <2>. QED
    BY <2>4, VerdictIs
<1>4. /\ there \subseteq Kept /\ base \subseteq all
      /\ \A r \in base : r \in there \/ (r \in shown /\ ~AfterCursor(r))
      /\ \A r \in shown : ~AfterCursor(r)
      /\ shown \subseteq Kept
  <2>. HIDE DEF there, base
  <2>. QED
    BY <1>1, PageRows DEF there, base
<1>5. items \subseteq there /\ shown \cap items = {} /\ items \subseteq Kept /\ items \subseteq Rows
      /\ base \subseteq Rows /\ there \subseteq Rows
  BY <1>4, RowsInOrganizations DEF First, Listed
<1>6. \A r \in items : r \in all /\ AfterCursor(r)
  BY <1>5
<1>7. UNCHANGED <<rowState, rowStamp, clientIn, clientKind, rolesSeen, heldIn>> /\ readKind' = kind
  BY <1>2 DEF Says, rowVars, clientVars
<1>8. CASE said(encoded) # "ok"
  <2>1. /\ answer' = said(encoded) /\ page' = {} /\ readStep' = "over"
        /\ UNCHANGED <<scope, cursor, shown, twice, standing>>
    BY <1>2, <1>8 DEF Says, pageVars
  <2>. HIDE DEF said
  <2>2. ReadsTypeOK'
    BY <1>1, <1>3, <1>7, <2>1 DEF ReadsTypeOK, Codes, ReadRefusals
  <2>. QED
    BY <1>1, <1>7, <1>8, <2>1, <2>2 DEF ReadsInv, RolesWereHeld, ReadsHold, AnswersWithinRole, PagesMissNothing, ResultsAreComplete
<1>9. CASE said(encoded) = "ok"
  <2>1. /\ answer' = "ok" /\ page' = items /\ scope' = {o} /\ shown' = shown \cup items
        /\ twice' = {} /\ standing' = base
        /\ IF more THEN \E last \in items : /\ \A r \in items : ~Later(last, r)
                                            /\ cursor' = CursorOf(last)
                   ELSE UNCHANGED cursor
        /\ readStep' = IF more THEN "idle" ELSE "over"
    BY <1>1, <1>2, <1>5, <1>9 DEF Says
  <2>2. \A r \in items : Served(kind, r)
    BY <1>3, <1>6, <1>9
  <2>3. kind \notin Results /\ kind # "none"
    BY DEF Paged, Results
  <2>. HIDE DEF said, full
  <2>4. ReadsTypeOK' /\ (readStep' # "over" => BetweenPages')
    <3>1. CASE more
      <4>1. PICK last \in items : /\ \A r \in items : ~Later(last, r)
                                  /\ cursor' = CursorOf(last)
        BY <2>1, <3>1
      <4>2. /\ cursor' \in Nat \X Rows /\ cursor' # NoCursor
            /\ \A r \in Rows : AfterCursor(r)' <=> Later(last, r)
            /\ \A r \in Rows : Later(last, r) => AfterCursor(r)
        BY <1>1, <1>5, <1>6, <1>7, <4>1, CursorMoves
      <4>3. \A r \in there : Later(last, r) \/ r \in items
        <5>. HIDE DEF there
        <5>. QED
          BY <1>1, <1>5, PageIsFirst DEF items
      <4>4. \A r \in shown' : ~AfterCursor(r)'
        BY <1>4, <1>5, <2>1, <4>1, <4>2, RowsInOrganizations
      <4>5. \A r \in standing' : AfterCursor(r)' \/ r \in shown'
        BY <1>4, <1>5, <2>1, <4>2, <4>3
      <4>6. Listed(kind, {o})' = all /\ Kept' = Kept
        BY <1>7 DEF Listed, Kept, Live
      <4>. HIDE DEF all, there, items, more, base
      <4>7. BetweenPages'
        BY <1>4, <1>5, <1>7, <2>1, <4>2, <4>4, <4>5, <4>6 DEF BetweenPages
      <4>8. ReadsTypeOK'
        BY <1>1, <1>5, <1>7, <2>1, <3>1, <4>2 DEF ReadsTypeOK
      <4>. QED
        BY <4>7, <4>8
    <3>2. CASE ~more
      <4>. HIDE DEF all, there, items, more, base
      <4>1. UNCHANGED cursor /\ readStep' = "over"
        BY <2>1, <3>2
      <4>. QED
        BY <1>1, <1>5, <1>7, <2>1, <4>1 DEF ReadsTypeOK
    <3>. QED
      BY <3>1, <3>2
  <2>5. readStep' = "over" => standing' \subseteq shown'
    BY <1>4, <2>1
  <2>. HIDE DEF all, there, items, more, base
  <2>6. AnswersWithinRole'
    <3>1. ASSUME NEW r \in page'
          PROVE  \/ clientKind # "user"
                 \/ kind \in OwnKinds /\ r \in Mine
                 \/ kind \in MemberKinds /\ \E m \in heldIn[OrgOf[r]] : m # "none"
                 \/ \E m \in heldIn[OrgOf[r]] : RoleOf[m] = "manager"
      <4>1. r \in Rows /\ Served(kind, r)
        BY <2>1, <2>2, <2>4, <3>1 DEF ReadsTypeOK
      <4>. QED
        BY <4>1, ServedIsWithinRole
    <3>. QED
      BY <1>7, <3>1 DEF AnswersWithinRole
  <2>8. RolesWereHeld'
    BY <1>7 DEF ReadsInv, RolesWereHeld
  <2>7. PagesMissNothing' /\ ResultsAreComplete'
    BY <1>7, <2>1, <2>3, <2>5 DEF PagesMissNothing, ResultsAreComplete
  <2>. QED
    BY <2>4, <2>6, <2>7, <2>8 DEF ReadsInv, ReadsHold
<1>. QED
  BY <1>8, <1>9
------------------------------------------------------------------------------
(* Endpoints with one to four checks.                                      *)
LEMMA OneCheck ==
    ASSUME ReadsInv, NEW loaded, NEW kind \in Results \cup OwnKinds \cup MemberKinds \cup ManagerKinds,
           kind \notin Paged, NEW a \in Codes, NEW rows \in SUBSET Rows,
           a = "ok" => \A r \in rows : Served(kind, r) /\ (kind \in Results => rowState[r] = "completed"),
           AnswerOnce(loaded, kind, <<a>>, rows)
    PROVE  ReadsInv'
<1>. DEFINE checks == <<a>>
<1>1. checks \in Seq(Codes) /\ Len(checks) = 1
  OBVIOUS
<1>2. checks[1] = a
  OBVIOUS
<1>3. AnswerOnce(loaded, kind, checks, rows)
  OBVIOUS
<1>. HIDE DEF checks
<1>4. (\A i \in 1 .. Len(checks) : checks[i] = "ok") => a = "ok"
  <2>1. 1 \in 1 .. Len(checks)
    BY <1>1
  <2>. QED
    BY <1>2, <2>1
<1>5. (\A i \in 1 .. Len(checks) : checks[i] = "ok") =>
          \A r \in rows : Served(kind, r) /\ (kind \in Results => rowState[r] = "completed")
  BY <1>4
<1>6. Len(checks) <= 6
  BY <1>1
<1>. QED
  BY <1>1, <1>3, <1>5, <1>6, OnceKeepsInv

LEMMA TwoChecks ==
    ASSUME ReadsInv, NEW loaded, NEW kind \in Results \cup OwnKinds \cup MemberKinds \cup ManagerKinds,
           kind \notin Paged, NEW a \in Codes, NEW b \in Codes, NEW rows \in SUBSET Rows,
           a = "ok" /\ b = "ok" =>
                  \A r \in rows : Served(kind, r) /\ (kind \in Results => rowState[r] = "completed"),
           AnswerOnce(loaded, kind, <<a, b>>, rows)
    PROVE  ReadsInv'
<1>. DEFINE checks == <<a, b>>
<1>1. checks \in Seq(Codes) /\ Len(checks) = 2
  OBVIOUS
<1>2. checks[1] = a /\ checks[2] = b
  OBVIOUS
<1>3. AnswerOnce(loaded, kind, checks, rows)
  OBVIOUS
<1>. HIDE DEF checks
<1>4. (\A i \in 1 .. Len(checks) : checks[i] = "ok") => a = "ok" /\ b = "ok"
  <2>1. 1 \in 1 .. Len(checks) /\ 2 \in 1 .. Len(checks)
    BY <1>1
  <2>. QED
    BY <1>2, <2>1
<1>5. (\A i \in 1 .. Len(checks) : checks[i] = "ok") =>
          \A r \in rows : Served(kind, r) /\ (kind \in Results => rowState[r] = "completed")
  BY <1>4
<1>6. Len(checks) <= 6
  BY <1>1
<1>. QED
  BY <1>1, <1>3, <1>5, <1>6, OnceKeepsInv

LEMMA ThreeChecks ==
    ASSUME ReadsInv, NEW loaded, NEW kind \in Results \cup OwnKinds \cup MemberKinds \cup ManagerKinds,
           kind \notin Paged, NEW a \in Codes, NEW b \in Codes, NEW c \in Codes, NEW rows \in SUBSET Rows,
           a = "ok" /\ b = "ok" /\ c = "ok" =>
                  \A r \in rows : Served(kind, r) /\ (kind \in Results => rowState[r] = "completed"),
           AnswerOnce(loaded, kind, <<a, b, c>>, rows)
    PROVE  ReadsInv'
<1>. DEFINE checks == <<a, b, c>>
<1>1. checks \in Seq(Codes) /\ Len(checks) = 3
  OBVIOUS
<1>2. checks[1] = a /\ checks[2] = b /\ checks[3] = c
  OBVIOUS
<1>3. AnswerOnce(loaded, kind, checks, rows)
  OBVIOUS
<1>. HIDE DEF checks
<1>4. (\A i \in 1 .. Len(checks) : checks[i] = "ok") => a = "ok" /\ b = "ok" /\ c = "ok"
  <2>1. 1 \in 1 .. Len(checks) /\ 2 \in 1 .. Len(checks) /\ 3 \in 1 .. Len(checks)
    BY <1>1
  <2>. QED
    BY <1>2, <2>1
<1>5. (\A i \in 1 .. Len(checks) : checks[i] = "ok") =>
          \A r \in rows : Served(kind, r) /\ (kind \in Results => rowState[r] = "completed")
  BY <1>4
<1>6. Len(checks) <= 6
  BY <1>1
<1>. QED
  BY <1>1, <1>3, <1>5, <1>6, OnceKeepsInv

LEMMA FourChecks ==
    ASSUME ReadsInv, NEW loaded, NEW kind \in Results \cup OwnKinds \cup MemberKinds \cup ManagerKinds,
           kind \notin Paged, NEW a \in Codes, NEW b \in Codes, NEW c \in Codes, NEW d \in Codes,
           NEW rows \in SUBSET Rows,
           a = "ok" /\ b = "ok" /\ c = "ok" /\ d = "ok" =>
                  \A r \in rows : Served(kind, r) /\ (kind \in Results => rowState[r] = "completed"),
           AnswerOnce(loaded, kind, <<a, b, c, d>>, rows)
    PROVE  ReadsInv'
<1>. DEFINE checks == <<a, b, c, d>>
<1>1. checks \in Seq(Codes) /\ Len(checks) = 4
  OBVIOUS
<1>2. checks[1] = a /\ checks[2] = b /\ checks[3] = c /\ checks[4] = d
  OBVIOUS
<1>3. AnswerOnce(loaded, kind, checks, rows)
  OBVIOUS
<1>. HIDE DEF checks
<1>4. (\A i \in 1 .. Len(checks) : checks[i] = "ok") => a = "ok" /\ b = "ok" /\ c = "ok" /\ d = "ok"
  <2>1. 1 \in 1 .. Len(checks) /\ 2 \in 1 .. Len(checks) /\ 3 \in 1 .. Len(checks) /\ 4 \in 1 .. Len(checks)
    BY <1>1
  <2>. QED
    BY <1>2, <2>1
<1>5. (\A i \in 1 .. Len(checks) : checks[i] = "ok") =>
          \A r \in rows : Served(kind, r) /\ (kind \in Results => rowState[r] = "completed")
  BY <1>4
<1>6. Len(checks) <= 6
  BY <1>1
<1>. QED
  BY <1>1, <1>3, <1>5, <1>6, OnceKeepsInv

LEMMA ChecksAre ==
    ASSUME NEW r
    PROVE  /\ \A rows : FoundIn(rows, r) \in Codes /\ (FoundIn(rows, r) = "ok" <=> r \in rows)
           /\ ReadyCheck(r) \in Codes /\ (ReadyCheck(r) = "ok" <=> rowState[r] = "completed")
           /\ {"ok", "NOT_FOUND", "INVALID"} \subseteq Codes
BY DEF FoundIn, ReadyCheck, Codes, ReadRefusals

(* The lists that come whole.                                              *)
LEMMA ListsKeepInv ==
    ASSUME ReadsInv, ReadLists
    PROVE  ReadsInv'
<1>. USE DEF Served
<1>0. /\ ReadsTypeOK
      /\ \A os : floorRows(os) \subseteq Rows /\ buildingRows(os) \subseteq Rows /\ pedestrianRows(os) \subseteq Rows
      /\ \A o : organizationUsers(o) \subseteq Rows /\ enabledBeacons(o) \subseteq Rows
      /\ Kept \subseteq Rows /\ Mine \subseteq Rows
      /\ \A os : \A r \in floorRows(os) \cup buildingRows(os) \cup pedestrianRows(os) : OrgOf[r] \in os
      /\ \A o : \A r \in organizationUsers(o) \cup enabledBeacons(o) : OrgOf[r] = o
  BY RowsInOrganizations, ReadConstantsOK
     DEF ReadsInv, floorRows, buildingRows, pedestrianRows, organizationUsers, enabledBeacons
<1>1. ASSUME listOrganizations \/ listOrganizationCreationRequests PROVE ReadsInv'
  <2>1. "list_for_administrator" \in ManagerKinds /\ "list_for_administrator" \notin Paged \cup Results
    BY DEF ManagerKinds, Paged, Results
  <2>. QED
    BY <1>0, <1>1, <2>1, OneCheck, AdministratorsOnly DEF listOrganizations, listOrganizationCreationRequests
<1>2. ASSUME listMyOrganizationCreationRequests PROVE ReadsInv'
  <2>1. /\ "listMyOrganizationCreationRequests" \in OwnKinds
        /\ "listMyOrganizationCreationRequests" \notin Paged \cup Results
    BY DEF OwnKinds, Paged, Results
  <2>. QED
    BY <1>0, <1>2, <2>1, OneCheck, AdministratorsOnly DEF listMyOrganizationCreationRequests
<1>3. ASSUME NEW o \in Organizations,
             \/ listOrganizationBuildings(o) \/ listOrganizationUsers(o) \/ listOrganizationBuildingFloors(o)
      PROVE ReadsInv'
  <2>1. "list_of_organization" \in ManagerKinds /\ "list_of_organization" \notin Paged \cup Results
    BY DEF ManagerKinds, Paged, Results
  <2>2. CASE listOrganizationBuildings(o)
    BY <1>0, <2>1, <2>2, OneCheck, ManagersOnly DEF listOrganizationBuildings
  <2>3. CASE listOrganizationUsers(o)
    BY <1>0, <2>1, <2>3, OneCheck, ManagersOnly DEF listOrganizationUsers
  <2>4. CASE listOrganizationBuildingFloors(o)
    BY <1>0, <2>1, <2>4, TwoChecks, ManagersOnly, ChecksAre DEF listOrganizationBuildingFloors
  <2>. QED
    BY <1>3, <2>2, <2>3, <2>4
<1>4. ASSUME NEW o \in Organizations, listOrganizationFloors(o) PROVE ReadsInv'
  <2>1. "listOrganizationFloors" \in MemberKinds /\ "listOrganizationFloors" \notin Paged \cup Results
    BY DEF MemberKinds, Paged, Results
  <2>. QED
    BY <1>0, <1>4, <2>1, OneCheck, MembersOnly DEF listOrganizationFloors
<1>5. ASSUME NEW o \in Organizations, getRecordingBeaconConfig(o) PROVE ReadsInv'
  <2>1. "getRecordingBeaconConfig" \in MemberKinds /\ "getRecordingBeaconConfig" \notin Paged \cup Results
    BY DEF MemberKinds, Paged, Results
  <2>. QED
    BY <1>0, <1>5, <2>1, TwoChecks, MembersOnly, ChecksAre DEF getRecordingBeaconConfig
<1>6. /\ \A o \in accessibleOrganizationIds(actor, Organizations) :
             o \in Organizations /\ (clientKind # "user" \/ rolesSeen[o] # "none")
      /\ \A o \in managerOrganizationIds(actor, Organizations) :
             o \in Organizations /\ (clientKind # "user" \/ rolesSeen[o] = "manager")
  BY <1>0, ManagersOnly, MembersOnly DEF accessibleOrganizationIds, managerOrganizationIds
<1>7. ASSUME listFloors \/ listBuildings PROVE ReadsInv'
  <2>. DEFINE os == accessibleOrganizationIds(actor, Organizations)
              checks == <<>>
  <2>1./\  {"listFloors", "listBuildings"} \subseteq MemberKinds
       /\ {"listFloors", "listBuildings"} \cap (Paged \cup Results) = {}
    BY DEF MemberKinds, Paged, Results
  <2>2. checks \in Seq(Codes) /\ Len(checks) <= 6
    OBVIOUS
  <2>3. \/ AnswerOnce("actor", "listFloors", checks, floorRows(os))
        \/ AnswerOnce("actor", "listBuildings", checks, buildingRows(os))
    BY <1>7 DEF listFloors, listBuildings
  <2>4. \A r \in floorRows(os) \cup buildingRows(os) : Served("listFloors", r) /\ Served("listBuildings", r)
    BY <1>0, <1>6, <2>1
  <2>. HIDE DEF os, checks, Served
  <2>5. CASE AnswerOnce("actor", "listFloors", checks, floorRows(os))
    BY <1>0, <2>1, <2>2, <2>4, <2>5, OnceKeepsInv
  <2>6. CASE AnswerOnce("actor", "listBuildings", checks, buildingRows(os))
    BY <1>0, <2>1, <2>2, <2>4, <2>6, OnceKeepsInv
  <2>. QED
    BY <2>3, <2>5, <2>6
<1>8. ASSUME listPedestrians PROVE ReadsInv'
  <2>1. "listPedestrians" \in ManagerKinds /\ "listPedestrians" \notin Paged \cup Results
    BY DEF ManagerKinds, Paged, Results
  <2>2. requireDashboardReadAccess(actor, Organizations) \in Codes
    BY DEF requireDashboardReadAccess, Codes, ReadRefusals
  <2>. QED
    BY <1>0, <1>6, <1>8, <2>1, <2>2, OneCheck DEF listPedestrians
<1>. QED
  BY <1>1, <1>2, <1>3, <1>4, <1>5, <1>7, <1>8 DEF ReadLists

(* One row.                                                                *)
LEMMA RowsKeepInv ==
    ASSUME ReadsInv, ReadRows
    PROVE  ReadsInv'
<1>0. /\ ReadsTypeOK /\ myPedestrian \subseteq Rows /\ myPedestrian \subseteq Mine
      /\ \A r \in Rows : OrgOf[r] \in Organizations /\ {r} \in SUBSET Rows
  BY RowsInOrganizations DEF ReadsInv, myPedestrian
<1>1. ASSUME getMyPedestrian PROVE ReadsInv'
  <2>. DEFINE found == IF myPedestrian = {} THEN "NOT_FOUND" ELSE "ok"
  <2>1. "getMyPedestrian" \in OwnKinds /\ "getMyPedestrian" \notin Paged \cup Results
    BY DEF OwnKinds, Paged, Results
  <2>2. found \in Codes
    BY DEF Codes, ReadRefusals
  <2>3. AnswerOnce("actor", "getMyPedestrian", <<UserOnly, found>>, myPedestrian)
    BY <1>1 DEF getMyPedestrian
  <2>4. \A r \in myPedestrian : Served("getMyPedestrian", r)
    BY <1>0, <2>1 DEF Served
  <2>. HIDE DEF found
  <2>. QED
    BY <1>0, <2>1, <2>2, <2>3, <2>4, TwoChecks, AdministratorsOnly
<1>2. /\ "row_of_organization" \in ManagerKinds /\ "row_of_organization" \notin Paged \cup Results
      /\ "list_for_administrator" \in ManagerKinds /\ "list_for_administrator" \notin Paged \cup Results
      /\ "recording_of_organization" \in OwnKinds /\ "recording_of_organization" \notin Paged \cup Results
      /\ {"getFloor", "getBuilding"} \subseteq MemberKinds
      /\ {"getFloor", "getBuilding"} \cap (Paged \cup Results) = {}
      /\ {"getRecording", "getTrajectory"} \subseteq ManagerKinds
      /\ {"getRecording", "getTrajectory"} \cap (Paged \cup Results) = {}
      /\ {"getTrajectoryResult", "getTrajectoryMapData", "getAnalysisRunResult"} \subseteq Results
      /\ {"getTrajectoryResult", "getTrajectoryMapData", "getAnalysisRunResult"} \cap Paged = {}
  BY DEF ManagerKinds, OwnKinds, MemberKinds, Paged, Results
<1>3. ASSUME NEW r \in Rows, getOrganization(r) PROVE ReadsInv'
  BY <1>0, <1>2, <1>3, ThreeChecks, ManagersOnly, AdministratorsOnly, ChecksAre DEF getOrganization, Served
<1>4. ASSUME NEW r \in Rows, getOrganizationCreationRequest(r) PROVE ReadsInv'
  BY <1>0, <1>2, <1>4, TwoChecks, AdministratorsOnly, ChecksAre DEF getOrganizationCreationRequest, Served
<1>5. ASSUME NEW r \in Rows, getFloor(r) \/ getBuilding(r) PROVE ReadsInv'
  <2>. DEFINE os == accessibleOrganizationIds(actor, Organizations)
  <2>1. \A o \in os : clientKind # "user" \/ rolesSeen[o] # "none"
    BY <1>0, MembersOnly DEF accessibleOrganizationIds
  <2>2. r \in floorRows(os) \cup buildingRows(os) => OrgOf[r] \in os
    BY DEF floorRows, buildingRows
  <2>3. \/ AnswerOnce("actor", "getFloor", <<FoundIn(floorRows(os), r)>>, {r})
        \/ AnswerOnce("actor", "getBuilding", <<FoundIn(buildingRows(os), r)>>, {r})
    BY <1>5 DEF getFloor, getBuilding
  <2>4. r \in floorRows(os) \cup buildingRows(os) => Served("getFloor", r) /\ Served("getBuilding", r)
    BY <1>2, <2>1, <2>2 DEF Served
  <2>. HIDE DEF os
  <2>. QED
    BY <1>0, <1>2, <2>3, <2>4, OneCheck, ChecksAre
<1>6. ASSUME NEW r \in Rows, getRecording(r) \/ getTrajectory(r) PROVE ReadsInv'
  BY <1>0, <1>2, <1>6, TwoChecks, ManagersOnly, ChecksAre DEF getRecording, getTrajectory, Served
<1>7. ASSUME NEW r \in Rows, getRecordingRaw(r) PROVE ReadsInv'
  BY <1>0, <1>2, <1>7, ThreeChecks, ManagersOnly, ChecksAre DEF getRecordingRaw, Served
<1>8. ASSUME NEW r \in Rows, getRecordingConstraints(r) PROVE ReadsInv'
  BY <1>0, <1>2, <1>8, ThreeChecks, RecordingIsServed, ChecksAre DEF getRecordingConstraints, Served
<1>9. ASSUME NEW r \in Rows, getTrajectoryResult(r) PROVE ReadsInv'
  BY <1>0, <1>2, <1>9, ThreeChecks, ManagersOnly, ChecksAre DEF getTrajectoryResult, Served
<1>10. ASSUME NEW r \in Rows, getTrajectoryMapData(r) PROVE ReadsInv'
  BY <1>0, <1>2, <1>10, FourChecks, ManagersOnly, ChecksAre DEF getTrajectoryMapData, Served
<1>11. ASSUME NEW r \in Rows, NEW o \in Organizations,
              \/ getOrganizationUser(o, r) \/ getOrganizationBuildingDetail(o, r)
              \/ getAnalysisRun(o, r) \/ getPositioningAnalysisRun(o, r)
       PROVE  ReadsInv'
  <2>1. PICK rows \in {organizationUsers(o), buildingRows({o}), analysisRuns(o)} :
            \/ AnswerOnce("session", "row_of_organization",
                          <<requireOrganizationManagerOrAdmin(actor, o), FoundIn(rows, r)>>, {r})
            \/ AnswerOnce("actor", "row_of_organization",
                          <<requireOrganizationManager(actor, o), FoundIn(rows, r)>>, {r})
    BY <1>11 DEF getOrganizationUser, getOrganizationBuildingDetail, getAnalysisRun, getPositioningAnalysisRun
  <2>2. r \in rows => OrgOf[r] = o
    BY <2>1 DEF organizationUsers, buildingRows, analysisRuns
  <2>. QED
    BY <1>0, <1>2, <2>1, <2>2, TwoChecks, ManagersOnly, ChecksAre DEF Served
<1>12. ASSUME NEW r \in Rows, NEW o \in Organizations, getScopedRecording(o, r) PROVE ReadsInv'
  <2>1. r \in activeRecordings({o}) => OrgOf[r] = o
    BY DEF activeRecordings
  <2>. QED
    BY <1>0, <1>2, <1>12, <2>1, TwoChecks, RecordingIsServed, ChecksAre DEF getScopedRecording, Served
<1>13. ASSUME NEW r \in Rows, NEW o \in Organizations, getAnalysisRunResult(o, r) PROVE ReadsInv'
  <2>1. r \in analysisRuns(o) => OrgOf[r] = o
    BY DEF analysisRuns
  <2>. QED
    BY <1>0, <1>2, <1>13, <2>1, FourChecks, ManagersOnly, ChecksAre DEF getAnalysisRunResult, Served
<1>. QED
  BY <1>1, <1>3, <1>4, <1>5, <1>6, <1>7, <1>8, <1>9, <1>10, <1>11, <1>12, <1>13 DEF ReadRows

------------------------------------------------------------------------------
(* The lists that come page by page.                                       *)
LEMMA PageOfOne ==
    ASSUME ReadsInv, NEW loaded, loaded # "over", NEW kind \in Paged, NEW o \in Organizations,
           NEW a \in Codes, NEW millis \in BOOLEAN,
           a = "ok" => \A r \in Listed(kind, {o}) : Served(kind, r),
           AnswerPage(loaded, kind, o, <<a>>, Listed(kind, {o}), millis)
    PROVE  ReadsInv'
<1>. DEFINE checks == <<a>>
<1>1. checks \in Seq(Codes) /\ Len(checks) = 1 /\ checks[1] = a
  OBVIOUS
<1>2. AnswerPage(loaded, kind, o, checks, Listed(kind, {o}), millis)
  OBVIOUS
<1>. HIDE DEF checks
<1>3. (\A i \in 1 .. Len(checks) : checks[i] = "ok") => \A r \in Listed(kind, {o}) : Served(kind, r)
  <2>1. 1 \in 1 .. Len(checks)
    BY <1>1
  <2>. QED
    BY <1>1, <2>1
<1>4. Len(checks) <= 4
  BY <1>1
<1>. QED
  BY <1>1, <1>2, <1>3, <1>4, PageKeepsInv

LEMMA PageOfTwo ==
    ASSUME ReadsInv, NEW loaded, loaded # "over", NEW kind \in Paged, NEW o \in Organizations,
           NEW a \in Codes, NEW b \in Codes, NEW millis \in BOOLEAN,
           a = "ok" /\ b = "ok" => \A r \in Listed(kind, {o}) : Served(kind, r),
           AnswerPage(loaded, kind, o, <<a, b>>, Listed(kind, {o}), millis)
    PROVE  ReadsInv'
<1>. DEFINE checks == <<a, b>>
<1>1. checks \in Seq(Codes) /\ Len(checks) = 2 /\ checks[1] = a /\ checks[2] = b
  OBVIOUS
<1>2. AnswerPage(loaded, kind, o, checks, Listed(kind, {o}), millis)
  OBVIOUS
<1>. HIDE DEF checks
<1>3. (\A i \in 1 .. Len(checks) : checks[i] = "ok") => \A r \in Listed(kind, {o}) : Served(kind, r)
  <2>1. 1 \in 1 .. Len(checks) /\ 2 \in 1 .. Len(checks)
    BY <1>1
  <2>. QED
    BY <1>1, <2>1
<1>4. Len(checks) <= 4
  BY <1>1
<1>. QED
  BY <1>1, <1>2, <1>3, <1>4, PageKeepsInv

LEMMA PageOfThree ==
    ASSUME ReadsInv, NEW loaded, loaded # "over", NEW kind \in Paged, NEW o \in Organizations,
           NEW a \in Codes, NEW b \in Codes, NEW d \in Codes, NEW millis \in BOOLEAN,
           a = "ok" => \A r \in Listed(kind, {o}) : Served(kind, r),
           AnswerPage(loaded, kind, o, <<a, b, d>>, Listed(kind, {o}), millis)
    PROVE  ReadsInv'
<1>. DEFINE checks == <<a, b, d>>
<1>1. checks \in Seq(Codes) /\ Len(checks) = 3 /\ checks[1] = a
  OBVIOUS
<1>2. AnswerPage(loaded, kind, o, checks, Listed(kind, {o}), millis)
  OBVIOUS
<1>. HIDE DEF checks
<1>3. (\A i \in 1 .. Len(checks) : checks[i] = "ok") => \A r \in Listed(kind, {o}) : Served(kind, r)
  <2>1. 1 \in 1 .. Len(checks)
    BY <1>1
  <2>. QED
    BY <1>1, <2>1
<1>4. Len(checks) <= 4
  BY <1>1
<1>. QED
  BY <1>1, <1>2, <1>3, <1>4, PageKeepsInv

LEMMA PagesKeepInv ==
    ASSUME ReadsInv, NEW o \in Organizations, ReadPages(o)
    PROVE  ReadsInv'
<1>0. /\ ReadsTypeOK /\ FALSE \in BOOLEAN /\ TRUE \in BOOLEAN
      /\ \A kind : \A r \in Listed(kind, {o}) : OrgOf[r] = o
      /\ \A r \in Listed("listMyRecordings", {o}) : r \in Mine
      /\ {"listOrganizationRecordings", "listOrganizationTrajectories", "listAnalysisRuns",
          "listRecordingTrajectories", "listMyRecordings", "listOrganizationBeacons"} \subseteq Paged
      /\ "listOrganizationBeacons" \in MemberKinds /\ "listMyRecordings" \in OwnKinds
  BY DEF ReadsInv, Listed, Paged, MemberKinds, OwnKinds
<1>1. /\ activeRecordings({o}) = Listed("listOrganizationRecordings", {o})
      /\ activeTrajectories({o}) = Listed("listOrganizationTrajectories", {o})
      /\ activeTrajectories({o}) = Listed("listRecordingTrajectories", {o})
      /\ analysisRuns(o) = Listed("listAnalysisRuns", {o})
      /\ activeRecordings({o}) \cap Mine = Listed("listMyRecordings", {o})
      /\ enabledBeacons(o) = Listed("listOrganizationBeacons", {o})
  BY RowsInOrganizations DEF Listed, activeRecordings, activeTrajectories, analysisRuns, enabledBeacons
<1>2. CASE listOrganizationRecordings(o)
  <2>1. AnswerPage("session", "listOrganizationRecordings", o, <<requireOrganizationManagerOrAdmin(actor, o)>>,
                   Listed("listOrganizationRecordings", {o}), FALSE)
    BY <1>1, <1>2 DEF listOrganizationRecordings
  <2>2. /\ requireOrganizationManagerOrAdmin(actor, o) \in Codes
        /\ requireOrganizationManagerOrAdmin(actor, o) = "ok" =>
               \A r \in Listed("listOrganizationRecordings", {o}) : Served("listOrganizationRecordings", r)
    BY <1>0, ManagersOnly DEF Served
  <2>. QED
    BY <1>0, <2>1, <2>2, PageOfOne
<1>3. CASE listOrganizationTrajectories(o)
  <2>1. AnswerPage("session", "listOrganizationTrajectories", o, <<requireOrganizationManagerOrAdmin(actor, o)>>,
                   Listed("listOrganizationTrajectories", {o}), FALSE)
    BY <1>1, <1>3 DEF listOrganizationTrajectories
  <2>2. /\ requireOrganizationManagerOrAdmin(actor, o) \in Codes
        /\ requireOrganizationManagerOrAdmin(actor, o) = "ok" =>
               \A r \in Listed("listOrganizationTrajectories", {o}) : Served("listOrganizationTrajectories", r)
    BY <1>0, ManagersOnly DEF Served
  <2>. QED
    BY <1>0, <2>1, <2>2, PageOfOne
<1>4. CASE listAnalysisRuns(o)
  <2>1. AnswerPage("actor", "listAnalysisRuns", o, <<requireOrganizationManager(actor, o)>>,
                   Listed("listAnalysisRuns", {o}), FALSE)
    BY <1>1, <1>4 DEF listAnalysisRuns
  <2>2. /\ requireOrganizationManager(actor, o) \in Codes
        /\ requireOrganizationManager(actor, o) = "ok" =>
               \A r \in Listed("listAnalysisRuns", {o}) : Served("listAnalysisRuns", r)
    BY <1>0, ManagersOnly DEF Served
  <2>. QED
    BY <1>0, <2>1, <2>2, PageOfOne
<1>5. CASE listRecordingTrajectories(o)
  <2>1. PICK found \in {"ok", "NOT_FOUND"} :
            AnswerPage("actor", "listRecordingTrajectories", o, <<found, requireOrganizationManager(actor, o)>>,
                       Listed("listRecordingTrajectories", {o}), FALSE)
    BY <1>1, <1>5 DEF listRecordingTrajectories
  <2>. QED
    BY <1>0, <2>1, PageOfTwo, ManagersOnly, ChecksAre DEF Served
<1>6. CASE listMyRecordings(o)
  <2>1. PICK found \in {"ok", "NOT_FOUND"} :
            AnswerPage("actor", "listMyRecordings", o, <<UserOnly, found>>, Listed("listMyRecordings", {o}), FALSE)
    BY <1>1, <1>6 DEF listMyRecordings
  <2>. QED
    BY <1>0, <2>1, PageOfTwo, AdministratorsOnly, ChecksAre DEF Served
<1>7. CASE listOrganizationBeacons(o)
  <2>1. PICK includeDisabled \in BOOLEAN, found \in {"ok", "NOT_FOUND"} :
            AnswerPage("actor", "listOrganizationBeacons", o,
                       <<requireOrganizationMember(actor, o),
                         IF includeDisabled THEN requireOrganizationManager(actor, o) ELSE "ok", found>>,
                       Listed("listOrganizationBeacons", {o}), TRUE)
    BY <1>1, <1>7 DEF listOrganizationBeacons
  <2>. DEFINE b == IF includeDisabled THEN requireOrganizationManager(actor, o) ELSE "ok"
  <2>2. b \in Codes
    BY <1>0, ManagersOnly, ChecksAre
  <2>. HIDE DEF b
  <2>3. AnswerPage("actor", "listOrganizationBeacons", o, <<requireOrganizationMember(actor, o), b, found>>,
                   Listed("listOrganizationBeacons", {o}), TRUE)
    BY <2>1 DEF b
  <2>4. /\ requireOrganizationMember(actor, o) \in Codes
        /\ requireOrganizationMember(actor, o) = "ok" =>
               \A r \in Listed("listOrganizationBeacons", {o}) : Served("listOrganizationBeacons", r)
    BY <1>0, MembersOnly DEF Served
  <2>5. found \in Codes
    BY ChecksAre
  <2>. QED
    BY <1>0, <2>2, <2>3, <2>4, <2>5, PageOfThree
<1>. QED
  BY <1>2, <1>3, <1>4, <1>5, <1>6, <1>7 DEF ReadPages

------------------------------------------------------------------------------
(* What happens meanwhile.                                                 *)
LEMMA LoadsKeepInv ==
    ASSUME ReadsInv, LoadActor \/ LoadSession
    PROVE  ReadsInv'
<1>1. /\ readStep = "idle" /\ readStep' \in {"actor", "session"} /\ page' = {}
      /\ UNCHANGED <<rowState, rowStamp, clientIn, clientKind, readKind, answer, scope, cursor, shown,
                   twice, standing>>
  BY DEF LoadActor, LoadSession, rowVars, clientVars, pageVars
<1>2. rolesSeen' \in [Organizations -> ReadRoles]
  <2>1. \A m \in Memberships : RoleOf[m] \in ReadRoles
    BY DEF Memberships, RoleOf, ReadRoles
  <2>2. \A o \in Organizations : clientIn[o] \in Memberships
    BY DEF ReadsInv, ReadsTypeOK
  <2>3. "none" \in ReadRoles
    BY DEF ReadRoles
  <2>. QED
    BY <2>1, <2>2, <2>3 DEF LoadActor, LoadSession, RolesHeld
<1>3. heldIn' = HoldsNow /\ HoldsNow \in [Organizations -> SUBSET Memberships]
  BY DEF LoadActor, LoadSession, HoldsNow, ReadsInv, ReadsTypeOK
<1>4. ReadsTypeOK'
  BY <1>1, <1>2, <1>3 DEF ReadsInv, ReadsTypeOK
<1>5. RolesWereHeld'
  <2>1. ASSUME NEW o \in Organizations, rolesSeen'[o] # "none"
        PROVE  rolesSeen'[o] = RoleOf[clientIn[o]] /\ heldIn'[o] = {clientIn[o]}
    BY <1>3, <2>1 DEF LoadActor, LoadSession, RolesHeld, HoldsNow
  <2>2. ASSUME NEW o \in Organizations, rolesSeen'[o] # "none"
        PROVE  \E m \in heldIn'[o] : RoleOf[m] = rolesSeen'[o]
    BY <2>1, <2>2
  <2>. QED
    BY <2>2 DEF RolesWereHeld
<1>6. ReadsHold'
  BY <1>1 DEF ReadsInv, ReadsHold, AnswersWithinRole, PagesMissNothing, ResultsAreComplete
<1>7. BetweenPages'
  BY <1>1 DEF ReadsInv, BetweenPages, Listed, Kept, Live, AfterCursor
<1>. QED
  BY <1>4, <1>5, <1>6, <1>7 DEF ReadsInv

LEMMA RolesKeepInv ==
    ASSUME ReadsInv, Recognize \/ \E o \in Organizations : RoleChanges(o)
    PROVE  ReadsInv'
<1>1. /\ readStep # "over" /\ (clientKind' = clientKind \/ clientKind' \in {"admin", "service_client"})
      /\ clientIn' \in [Organizations -> Memberships]
      /\ heldIn' \in [Organizations -> SUBSET Memberships]
      /\ \A q \in Organizations : heldIn[q] \subseteq heldIn'[q]
      /\ UNCHANGED <<rowState, rowStamp, rolesSeen, readStep, readKind, answer, page, scope, cursor, shown,
                   twice, standing>>
  <2>0. clientIn \in [Organizations -> Memberships] /\ heldIn \in [Organizations -> SUBSET Memberships]
    BY DEF ReadsInv, ReadsTypeOK
  <2>1. CASE Recognize
    BY <2>0, <2>1 DEF Recognize, rowVars, pageVars
  <2>2. ASSUME NEW o \in Organizations, RoleChanges(o)
        PROVE  /\ readStep # "over" /\ clientKind' = clientKind
               /\ clientIn' \in [Organizations -> Memberships]
               /\ heldIn' \in [Organizations -> SUBSET Memberships]
               /\ \A q \in Organizations : heldIn[q] \subseteq heldIn'[q]
               /\ UNCHANGED <<rowState, rowStamp, rolesSeen, readStep, readKind, answer, page, scope, cursor,
                              shown, twice, standing>>
    <3>1. PICK m \in MembershipsIn[o] :
            /\ clientIn' = [clientIn EXCEPT ![o] = m]
            /\ heldIn' = IF readStep = "idle" THEN heldIn ELSE [heldIn EXCEPT ![o] = @ \cup {m}]
      BY <2>2 DEF RoleChanges
    <3>2. m \in Memberships
      BY <3>1, ReadConstantsOK
    <3>3. clientIn' \in [Organizations -> Memberships]
      BY <2>0, <3>1, <3>2
    <3>4. /\ heldIn' \in [Organizations -> SUBSET Memberships]
          /\ \A q \in Organizations : heldIn[q] \subseteq heldIn'[q]
      BY <2>0, <3>1, <3>2
    <3>. QED
      BY <2>2, <3>3, <3>4 DEF RoleChanges, Reading, rowVars, pageVars
  <2>. QED
    BY <2>1, <2>2
<1>2. ReadsTypeOK'
  BY <1>1 DEF ReadsInv, ReadsTypeOK
<1>3. AnswersWithinRole'
  <2>1. \A r \in page : OrgOf[r] \in Organizations
    BY RowsInOrganizations DEF ReadsInv, ReadsTypeOK
  <2>2. AnswersWithinRole
    BY DEF ReadsInv, ReadsHold
  <2>. QED
    BY <1>1, <2>1, <2>2 DEF AnswersWithinRole
<1>4. ReadsHold'
  BY <1>1, <1>3 DEF ReadsInv, ReadsHold, PagesMissNothing, ResultsAreComplete
<1>5. BetweenPages'
  BY <1>1 DEF ReadsInv, BetweenPages, Listed, Kept, Live, AfterCursor
<1>6. RolesWereHeld'
  BY <1>1 DEF ReadsInv, RolesWereHeld
<1>. QED
  BY <1>2, <1>4, <1>5, <1>6 DEF ReadsInv

(* Rows appear and go: what has been there since the first page is still   *)
(* before the cursor or after it as it was, unless it goes.                *)
LEMMA RowsComeAndGo ==
    ASSUME ReadsInv, NEW r \in Rows, RowAppears(r) \/ RowCompletes(r) \/ RowGoes(r)
    PROVE  ReadsInv'
<1>1. ReadsTypeOK /\ ReadsHold /\ BetweenPages /\ readStep # "over"
  BY DEF ReadsInv, RowAppears, RowCompletes, RowGoes, Reading
<1>2. UNCHANGED <<clientIn, clientKind, readStep, readKind, rolesSeen, heldIn, answer, page, scope, cursor,
                  shown, twice>>
  BY DEF RowAppears, RowCompletes, RowGoes, clientVars, pageVars
<1>3. /\ rowState' \in [Rows -> {"absent", "live", "completed", "gone"}]
      /\ rowStamp' \in [Rows -> Nat]
      /\ \A q \in Kept : rowStamp'[q] = rowStamp[q]
      /\ Kept \subseteq Kept' /\ standing' \subseteq standing
      /\ \A q \in standing' : q \in Live => q \in Live'
  <2>1. CASE RowAppears(r)
    <3>1. PICK stamp \in StampsOf[r] : rowStamp' = [rowStamp EXCEPT ![r] = stamp]
      BY <2>1 DEF RowAppears
    <3>2. stamp \in Nat
      BY <3>1, ReadConstantsOK
    <3>. QED
      BY <1>1, <2>1, <3>1, <3>2 DEF RowAppears, pageVars, ReadsTypeOK, Kept, Live
  <2>2. CASE RowCompletes(r)
    BY <1>1, <2>2 DEF RowCompletes, pageVars, ReadsTypeOK, Kept, Live
  <2>3. CASE RowGoes(r)
    BY <1>1, <2>3 DEF RowGoes, ReadsTypeOK, Kept, Live
  <2>. QED
    BY <2>1, <2>2, <2>3
<1>4. ReadsTypeOK'
  BY <1>1, <1>2, <1>3 DEF ReadsTypeOK
<1>5. readKind \notin Results
  BY <1>1 DEF BetweenPages, Paged, Results
<1>6. ReadsHold'
  BY <1>1, <1>2, <1>5 DEF ReadsHold, AnswersWithinRole, PagesMissNothing, ResultsAreComplete
<1>7. BetweenPages'
  <2>1. \A q \in Kept : AfterCursor(q)' <=> AfterCursor(q)
    BY <1>2, <1>3 DEF AfterCursor
  <2>2. CASE cursor = NoCursor
    BY <1>1, <1>2, <1>3, <2>2 DEF BetweenPages
  <2>3. CASE cursor # NoCursor
    <3>1. /\ readKind \in Paged /\ standing \subseteq Listed(readKind, scope) /\ shown \subseteq Kept
          /\ \A q \in shown : ~AfterCursor(q)
          /\ \A q \in standing : AfterCursor(q) \/ q \in shown
      BY <1>1, <2>3 DEF BetweenPages
    <3>2. standing \subseteq Kept
      BY <3>1 DEF Listed
    <3>3. standing' \subseteq Listed(readKind, scope)'
      BY <1>2, <1>3, <3>1, <3>2 DEF Listed
    <3>4. /\ \A q \in shown' : ~AfterCursor(q)'
          /\ \A q \in standing' : AfterCursor(q)' \/ q \in shown'
          /\ shown' \subseteq Kept'
      BY <1>2, <1>3, <2>1, <3>1, <3>2
    <3>. QED
      BY <1>2, <2>3, <3>1, <3>3, <3>4 DEF BetweenPages
  <2>. QED
    BY <2>2, <2>3
<1>8. RolesWereHeld'
  BY <1>2 DEF ReadsInv, RolesWereHeld
<1>. QED
  BY <1>4, <1>6, <1>7, <1>8 DEF ReadsInv

LEMMA InitReads == ReadsInit => ReadsInv
BY ReadConstantsOK DEF ReadsInit, ReadsInv, ReadsTypeOK, ReadsHold, AnswersWithinRole, PagesMissNothing,
       ResultsAreComplete, BetweenPages, RolesWereHeld, Memberships, ReadRoles, Results

LEMMA StepReads == ReadsInv /\ [ReadsNext]_organizationReadVars => ReadsInv'
<1>. SUFFICES ASSUME ReadsInv, [ReadsNext]_organizationReadVars PROVE ReadsInv'
  OBVIOUS
<1>1. CASE UNCHANGED organizationReadVars
  <2>1. /\ UNCHANGED <<rowState, rowStamp, clientIn, clientKind, rolesSeen, heldIn, readStep, readKind>>
        /\ UNCHANGED <<answer, page, scope, cursor, shown, twice, standing>>
    BY <1>1 DEF organizationReadVars, rowVars, clientVars, pageVars
  <2>2. ReadsTypeOK' /\ RolesWereHeld'
    BY <2>1 DEF ReadsInv, ReadsTypeOK, RolesWereHeld
  <2>3. ReadsHold'
    BY <2>1 DEF ReadsInv, ReadsHold, AnswersWithinRole, PagesMissNothing, ResultsAreComplete
  <2>4. readStep' # "over" => BetweenPages'
    BY <2>1 DEF ReadsInv, BetweenPages, Listed, Kept, Live, AfterCursor
  <2>. QED
    BY <2>2, <2>3, <2>4 DEF ReadsInv
<1>2. CASE Recognize \/ \E o \in Organizations : RoleChanges(o)
  BY <1>2, RolesKeepInv
<1>3. CASE LoadActor \/ LoadSession
  BY <1>3, LoadsKeepInv
<1>4. CASE ReadLists
  BY <1>4, ListsKeepInv
<1>5. CASE ReadRows
  BY <1>5, RowsKeepInv
<1>6. ASSUME NEW r \in Rows, RowAppears(r) \/ RowCompletes(r) \/ RowGoes(r) PROVE ReadsInv'
  BY <1>6, RowsComeAndGo
<1>7. ASSUME NEW o \in Organizations, ReadPages(o) PROVE ReadsInv'
  BY <1>7, PagesKeepInv
<1>. QED
  BY <1>1, <1>2, <1>3, <1>4, <1>5, <1>6, <1>7 DEF ReadsNext

LEMMA ReadsInvHolds == ReadsSpec => []ReadsInv
BY InitReads, StepReads, PTL DEF ReadsSpec

(* Every answer is one of the codes, and what is read are rows.            *)
THEOREM ReadsTypeCorrect == ReadsSpec => []ReadsTypeOK
<1>1. ReadsInv => ReadsTypeOK
  BY DEF ReadsInv
<1>. QED
  BY <1>1, ReadsInvHolds, PTL

(* Nothing is shown to anybody whose role does not cover it; pages repeat  *)
(* nothing and miss nothing that was there all the time, however long they *)
(* are and whatever comes and goes between them; and no result is given of *)
(* what did not complete.                                                  *)
THEOREM ReadsAreRight == ReadsSpec => []ReadsHold
<1>1. ReadsInv => ReadsHold
  BY DEF ReadsInv
<1>. QED
  BY <1>1, ReadsInvHolds, PTL

------------------------------------------------------------------------------
(***************************************************************************)
(* All components side by side.                                            *)
(***************************************************************************)

(* The components side by side: a step of the whole is a step of one of    *)
(* them, and the others stutter.                                           *)
EachSteps ==
    /\ [UploadNext]_uploadVars
    /\ [AccountsNext]_accountVars
    /\ [GoogleNext]_googleVars
    /\ [AccessNext]_accessVars
    /\ [OnboardingNext]_onboardingVars
    /\ [HandoverNext]_handoverVars
    /\ [RunCreationNext]_creationVars
    /\ [FloorsNext]_resourceVars
    /\ [ReadsNext]_organizationReadVars
    /\ [ProfilesNext]_profileVars

LEMMA StepIsOfEach == [RequestsNext]_kaedeVars => EachSteps
<1>. SUFFICES ASSUME [RequestsNext]_kaedeVars PROVE EachSteps
  OBVIOUS
<1>1. CASE UNCHANGED kaedeVars
  BY <1>1 DEF kaedeVars, EachSteps
<1>2. CASE UploadRuns
  BY <1>2 DEF UploadRuns, EachSteps
<1>3. CASE AccountsRun
  BY <1>3 DEF AccountsRun, EachSteps
<1>4. CASE GoogleRuns
  BY <1>4 DEF GoogleRuns, EachSteps
<1>5. CASE AccessRuns
  BY <1>5 DEF AccessRuns, EachSteps
<1>6. CASE OnboardingRuns
  BY <1>6 DEF OnboardingRuns, EachSteps
<1>7. CASE HandoverRuns
  BY <1>7 DEF HandoverRuns, EachSteps
<1>8. CASE CreationRuns
  BY <1>8 DEF CreationRuns, EachSteps
<1>9. CASE ResourcesRun
  BY <1>9 DEF ResourcesRun, EachSteps
<1>10. CASE ReadsRun
  BY <1>10 DEF ReadsRun, EachSteps
<1>11. CASE ProfilesRun
  BY <1>11 DEF ProfilesRun, EachSteps
<1>. QED
  BY <1>1, <1>2, <1>3, <1>4, <1>5, <1>6, <1>7, <1>8, <1>9, <1>10, <1>11 DEF RequestsNext

(* Every behaviour of the whole is one of each component, so what a        *)
(* component promises it promises beside the others.                       *)
THEOREM RequestsRunEach ==
    RequestsSpec =>
        /\ UploadSpec
        /\ AccountsSpec
        /\ GoogleSpec
        /\ AccessSpec
        /\ OnboardingSpec
        /\ HandoverSpec
        /\ RunCreationSpec
        /\ FloorsSpec
        /\ ReadsSpec
        /\ ProfilesSpec
<1>1. RequestsInit =>
        /\ UploadInit
        /\ AccountsInit
        /\ GoogleInit
        /\ AccessInit
        /\ OnboardingInit
        /\ HandoverInit
        /\ RunCreationInit
        /\ FloorsInit
        /\ ReadsInit
        /\ ProfilesInit
  BY DEF RequestsInit
<1>. QED
  BY <1>1, StepIsOfEach, PTL DEF RequestsSpec, EachSteps, UploadSpec, AccountsSpec, GoogleSpec,
                                 AccessSpec, OnboardingSpec, HandoverSpec, RunCreationSpec,
                                 FloorsSpec, ReadsSpec, ProfilesSpec

(* Every table, object and request of the components keeps its shape.      *)
THEOREM RequestsTypeCorrect == RequestsSpec => []RequestsTypeOK
<1>1. /\ UploadTypeOK /\ AccountsTypeOK /\ GoogleTypeOK /\ AccessTypeOK /\ OnboardingTypeOK
      /\ HandoverTypeOK /\ RunCreationTypeOK /\ FloorsTypeOK /\ ReadsTypeOK /\ ProfilesTypeOK
      => RequestsTypeOK
  BY DEF RequestsTypeOK
<1>. QED
  BY <1>1, RequestsRunEach, UploadTypeCorrect, AccountsTypeCorrect, GoogleTypeCorrect,
     AccessTypeCorrect, OnboardingTypeCorrect, HandoverTypeCorrect, CreationTypeCorrect,
     FloorsTypeCorrect, ReadsTypeCorrect, ProfilesTypeCorrect, PTL

(* What the components promise, they promise together.                     *)
THEOREM RequestsKeepPromises ==
    RequestsSpec =>
        /\ []ReadyIsValidated /\ []UploadAnswersHold /\ UploadEndsOnce
        /\ []AccountsHold /\ []GoogleAnswersHold /\ []HandedOverOnce
        /\ []OwnerRemains /\ []GrantsAreCurrent /\ OwnMethodsRemain
        /\ []InviteSettledOnce /\ []PetitionDecidedOnce /\ []TrailNamesAuthors
        /\ []OneRunPerKey /\ []FloorResourcesHold /\ []ReadsHold
BY RequestsRunEach, ReadyMeansValidated, UploadAnswersStayTrue, UploadEndsOnlyOnce,
   ActivatedOnceAndLockEarned, GoogleAnswersStayTrue, HandedOverExactlyOnce, AnOwnerRemains,
   GrantsStayCurrent, MethodsRemain, InviteSettlesOnce, PetitionDecidesOnce, TrailTellsAuthors,
   OneRunForEachKey, FloorsAndBeaconsInOrder, ReadsAreRight, PTL
==============================================================================
