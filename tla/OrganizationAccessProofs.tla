----------------------- MODULE OrganizationAccessProofs -----------------------
(***************************************************************************)
(* Theorems about OrganizationAccess, for any number of members, requests, *)
(* changes and founders.  Four invariants build on one another: the types, *)
(* the exclusion that the row locks give (LocksInv), what a request that   *)
(* holds locks relies on (OwnerInv, MethodInv), and what grants and        *)
(* sign-ins in progress know of the settings (GrantInv).                   *)
(***************************************************************************)
EXTENDS OrganizationAccess, FiniteSetTheorems, TLAPS

MembershipRows == [role : Roles, status : Statuses \cup {"absent"}]

RequestRows == [op : Operations, actor : Members \cup {Platform}, target : Members \cup {Platform},
                next : MembershipRows, seen : Grants]

DataTyped ==
    /\ membership \in [Members -> MembershipRows]
    /\ settings \in Settings
    /\ policyVersion \in 0..MaxVersion
    /\ credential \in [Members -> {"none", "enabled", "disabled"}]
    /\ failedSignIns \in [Members -> 0..MaxFailedSignIns + 1]
    /\ signInLocked \in [Members -> BOOLEAN]
    /\ oidcLink \in [Members -> {"none", "active", "revoked"}]
    /\ session \in [Members -> BOOLEAN]
    /\ grant \in [Members -> Grants]
    /\ changes \in [Members -> 0..MaxChanges]
    /\ ownerEnrolled \in BOOLEAN

(* A request that has begun is about a member.                             *)
RequestsTyped ==
    /\ request \in [Requests -> RequestRows]
    /\ begun \in 0..MaxBegun
    /\ \A r \in Requests :
        /\ request[r].op # "idle" => request[r].target \in Members
        /\ request[r].op = "admitted" => request[r].actor \in Members

TypeInv == DataTyped /\ RequestsTyped

(* The steps, by what they do.                                             *)
Locking(r) ==
    \/ \E t \in Members, role \in Roles, s \in Statuses : BeginAdministration(r, t, [role |-> role, status |-> s])
    \/ \E m \in Members : BeginDisable(r, m)
    \/ BeginUnlink(r)

Preparing(r) ==
    \/ Abandon(r)
    \/ \E m \in Members : Admit(r, m)
    \/ \E t \in Members, role \in Roles, a \in Members \cup {Platform} : BeginEnroll(r, a, t, role)
    \/ \E m \in Members : findOrganizationLocalAuthPolicyBySlug(r, m)
    \/ \E m \in Members, op \in {"start link", "start oidc"} : startOrganizationOidc(r, m, op)
    \/ findOrganizationOidcProviderContextById(r)
    \/ FindMembershipOrLink(r)

Configuring(r) ==
    \/ \E l, o \in BOOLEAN : patchOrganizationAuthSettings(r, l, o)
    \/ patchOrganizationOidcProvider(r)

Committing(r) ==
    \/ CommitAdministration(r) \/ upsertOrganizationMembership(r)
    \/ RefuseWrongSignIn(r) \/ upsertLocalMembershipGrant(r)
    \/ upsertOidcMembershipLink(r) \/ upsertOidcMembershipGrant(r)
    \/ \E m \in Members : putMyOrganizationLocalCredential(r, m)
    \/ disableMyOrganizationLocalCredential(r) \/ unlinkMyOrganizationOidcIdentity(r)

Ending(m) == SignInLockRunsOut(m) \/ logoutFromOrganization(m) \/ GrantRunsOut(m) \/ SessionEnds(m)

LEMMA StepKinds ==
    ASSUME AccessNext
    PROVE  \/ \E r \in Requests : Locking(r) \/ Preparing(r) \/ Configuring(r) \/ Committing(r)
           \/ \E m \in Members : Ending(m)
  BY DEF AccessNext, AdministrationStep, SignInStep, OwnMethodStep,
         Locking, Preparing, Configuring, Committing, Ending

LEMMA TypeInvMeansTypeOK == TypeInv <=> AccessTypeOK /\ RequestsTyped
  BY DEF TypeInv, DataTyped, RequestsTyped, AccessTypeOK, MembershipRows, RequestRows

------------------------------------------------------------------------------
(* Types.                                                                  *)

LEMMA NothingTyped == NoGrant \in Grants /\ NoMembership \in MembershipRows /\ Idle \in RequestRows
  BY AccessConstantsOK
  DEF NoGrant, Grants, NoSettings, Settings, NoMembership, MembershipRows, Roles, Statuses, Idle, RequestRows, Operations

LEMMA BecomesTyped ==
    ASSUME TypeInv, NEW r \in Requests, NEW op \in Operations, op # "idle",
           NEW a \in Members \cup {Platform}, op = "admitted" => a \in Members,
           NEW t \in Members, NEW next \in MembershipRows, NEW seen \in Grants,
           Becomes(r, op, a, t, next, seen)
    PROVE  RequestsTyped'
<1> DEFINE row == [op |-> op, actor |-> a, target |-> t, next |-> next, seen |-> seen]
<1>1. row \in RequestRows
  BY DEF RequestRows
<1>2. request' = [request EXCEPT ![r] = row]
  BY DEF Becomes
<1>3. begun' \in 0..MaxBegun
  BY AccessConstantsOK DEF Becomes, TypeInv, RequestsTyped
<1>4. row.op = op /\ row.target = t /\ row.actor = a
  OBVIOUS
<1> HIDE DEF row
<1> QED
  BY <1>1, <1>2, <1>3, <1>4 DEF TypeInv, RequestsTyped

LEMMA FinishTyped ==
    ASSUME TypeInv, NEW r \in Requests, Finish(r)
    PROVE  RequestsTyped'
<1>1. Idle.op = "idle"
  BY DEF Idle
<1> QED
  BY <1>1, NothingTyped DEF Finish, TypeInv, RequestsTyped

LEMMA RevokedTyped ==
    ASSUME TypeInv, NEW m \in Members, NEW condition \in BOOLEAN
    PROVE  RevokeIf(condition, m) \in Grants
<1>1. grant[m] \in Grants
  BY DEF TypeInv, DataTyped
<1> QED
  BY <1>1 DEF RevokeIf, Grants

LEMMA SeenTyped ==
    ASSUME TypeInv, NEW m \in Members
    PROVE  SeenSettings(m) \in Grants
  BY NothingTyped DEF SeenSettings, Grants, TypeInv, DataTyped

LEMMA DataKept ==
    ASSUME TypeInv, UNCHANGED <<accessData, changes, ownerEnrolled>>
    PROVE  DataTyped'
  BY DEF TypeInv, DataTyped, accessData, credentialVars

LEMMA LockingTyped ==
    ASSUME TypeInv, NEW r \in Requests, Locking(r)
    PROVE  TypeInv'
<1>1. CASE \E t \in Members, role \in Roles, s \in Statuses : BeginAdministration(r, t, [role |-> role, status |-> s])
  <2>1. PICK t \in Members, role \in Roles, s \in Statuses : BeginAdministration(r, t, [role |-> role, status |-> s])
    BY <1>1
  <2>2. request[r].actor \in Members
    BY <2>1 DEF BeginAdministration, TypeInv, RequestsTyped
  <2>3. [role |-> role, status |-> s] \in MembershipRows
    BY DEF MembershipRows
  <2>4. "administer" \in Operations /\ "administer" # "admitted" /\ "administer" # "idle"
    BY DEF Operations
  <2>5. RequestsTyped'
    BY <2>1, <2>2, <2>3, <2>4, BecomesTyped, NothingTyped DEF BeginAdministration
  <2> QED
    BY <2>1, <2>5, DataKept DEF BeginAdministration, TypeInv
<1>2. CASE \E m \in Members : BeginDisable(r, m)
  <2>1. PICK m \in Members : BeginDisable(r, m)
    BY <1>2
  <2>2. "disable" \in Operations /\ "disable" # "admitted" /\ "disable" # "idle"
    BY DEF Operations
  <2>3. RequestsTyped'
    BY <2>1, <2>2, BecomesTyped, NothingTyped, SeenTyped DEF BeginDisable
  <2> QED
    BY <2>1, <2>3, DataKept DEF BeginDisable, TypeInv
<1>3. CASE BeginUnlink(r)
  <2>1. request[r].actor \in Members
    BY <1>3 DEF BeginUnlink, TypeInv, RequestsTyped
  <2>2. "unlink" \in Operations /\ "unlink" # "admitted" /\ "unlink" # "idle"
    BY DEF Operations
  <2>3. RequestsTyped'
    BY <1>3, <2>1, <2>2, BecomesTyped, NothingTyped, SeenTyped DEF BeginUnlink
  <2> QED
    BY <1>3, <2>3, DataKept DEF BeginUnlink, TypeInv
<1> QED
  BY <1>1, <1>2, <1>3 DEF Locking

LEMMA PreparingTyped ==
    ASSUME TypeInv, NEW r \in Requests, Preparing(r)
    PROVE  TypeInv'
<1>0. /\ {"admitted", "enroll", "local", "start link", "start oidc", "link", "provider", "linking", "found"} \subseteq Operations
      /\ "idle" \notin {"admitted", "enroll", "local", "start link", "start oidc", "link", "provider", "linking", "found"}
      /\ request[r] \in RequestRows
  BY DEF Operations, TypeInv, RequestsTyped
<1>1. CASE Abandon(r)
  BY <1>1, FinishTyped, DataKept DEF Abandon, TypeInv
<1>2. CASE \E m \in Members : Admit(r, m)
  <2>1. PICK m \in Members : Admit(r, m)
    BY <1>2
  <2>2. RequestsTyped'
    BY <1>0, <2>1, BecomesTyped, NothingTyped DEF Admit
  <2> QED
    BY <2>1, <2>2, DataKept DEF Admit, TypeInv
<1>3. CASE \E t \in Members, role \in Roles, a \in Members \cup {Platform} : BeginEnroll(r, a, t, role)
  <2>1. PICK t \in Members, role \in Roles, a \in Members \cup {Platform} : BeginEnroll(r, a, t, role)
    BY <1>3
  <2>2. [role |-> role, status |-> "active"] \in MembershipRows
    BY DEF MembershipRows, Statuses
  <2>3. RequestsTyped'
    BY <1>0, <2>1, <2>2, BecomesTyped, NothingTyped DEF BeginEnroll
  <2> QED
    BY <2>1, <2>3, DataKept DEF BeginEnroll, TypeInv
<1>4. CASE \E m \in Members : findOrganizationLocalAuthPolicyBySlug(r, m)
  <2>1. PICK m \in Members : findOrganizationLocalAuthPolicyBySlug(r, m)
    BY <1>4
  <2>2. RequestsTyped'
    BY <1>0, <2>1, BecomesTyped, NothingTyped, SeenTyped DEF findOrganizationLocalAuthPolicyBySlug
  <2> QED
    BY <2>1, <2>2, DataKept DEF findOrganizationLocalAuthPolicyBySlug, TypeInv
<1>5. CASE \E m \in Members, op \in {"start link", "start oidc"} : startOrganizationOidc(r, m, op)
  <2>1. PICK m \in Members, op \in {"start link", "start oidc"} : startOrganizationOidc(r, m, op)
    BY <1>5
  <2>2. op \in Operations /\ op # "idle" /\ op # "admitted"
    BY <1>0
  <2>3. RequestsTyped'
    BY <2>1, <2>2, BecomesTyped, NothingTyped DEF startOrganizationOidc
  <2> QED
    BY <2>1, <2>3, DataKept DEF startOrganizationOidc, TypeInv
<1>6. CASE findOrganizationOidcProviderContextById(r)
  <2>1. request[r].target \in Members
    BY <1>6 DEF findOrganizationOidcProviderContextById, TypeInv, RequestsTyped
  <2>2. PICK op \in {"link", "provider"} :
            Becomes(r, op, request[r].target, request[r].target, NoMembership, SeenSettings(request[r].target))
    BY <1>6 DEF findOrganizationOidcProviderContextById
  <2>3. op \in Operations /\ op # "idle" /\ op # "admitted"
    BY <1>0
  <2>4. RequestsTyped'
    BY <2>1, <2>2, <2>3, BecomesTyped, NothingTyped, SeenTyped
  <2> QED
    BY <1>6, <2>4, DataKept DEF findOrganizationOidcProviderContextById, TypeInv
<1>7. CASE FindMembershipOrLink(r)
  <2>1. request[r].target \in Members
    BY <1>7 DEF FindMembershipOrLink, TypeInv, RequestsTyped
  <2>2. /\ request[r].seen \in Grants
        /\ [request[r].seen EXCEPT !.change = changes[request[r].target]] \in Grants
    BY <1>0, <2>1 DEF RequestRows, Grants, TypeInv, DataTyped
  <2>3. PICK op \in {"linking", "found"}, seen \in Grants :
            Becomes(r, op, request[r].target, request[r].target, NoMembership, seen)
    BY <1>7, <2>2 DEF FindMembershipOrLink
  <2>4. op \in Operations /\ op # "idle" /\ op # "admitted"
    BY <1>0
  <2>5. RequestsTyped'
    BY <2>1, <2>3, <2>4, BecomesTyped, NothingTyped
  <2> QED
    BY <1>7, <2>5, DataKept DEF FindMembershipOrLink, TypeInv
<1> QED
  BY <1>1, <1>2, <1>3, <1>4, <1>5, <1>6, <1>7 DEF Preparing
LEMMA ConfiguringTyped ==
    ASSUME TypeInv, NEW r \in Requests, Configuring(r)
    PROVE  TypeInv'
<1>1. PICK next \in Settings : ChangeSettings(r, next)
  BY DEF Configuring, patchOrganizationAuthSettings, patchOrganizationOidcProvider, TypeInv, DataTyped, Settings
<1>2. RequestsTyped'
  BY <1>1, FinishTyped DEF ChangeSettings
<1>3. settings' \in Settings /\ policyVersion' \in 0..MaxVersion
  BY <1>1, AccessConstantsOK DEF ChangeSettings, VersionAfter, TypeInv, DataTyped
<1> QED
  BY <1>1, <1>2, <1>3 DEF ChangeSettings, credentialVars, TypeInv, DataTyped

LEMMA CommittingTyped ==
    ASSUME TypeInv, NEW r \in Requests, Committing(r)
    PROVE  TypeInv'
<1>0. request[r] \in RequestRows /\ (request[r].op # "idle" => request[r].target \in Members)
  BY DEF TypeInv, RequestsTyped
<1>1. CASE CommitAdministration(r)
  <2> DEFINE t == request[r].target
             next == request[r].next
  <2>1. t \in Members /\ next \in MembershipRows
    BY <1>0, <1>1 DEF CommitAdministration, RequestRows
  <2>2. RequestsTyped'
    BY <1>1, FinishTyped DEF CommitAdministration
  <2>3. grant' \in [Members -> Grants]
    BY <1>1, <2>1, RevokedTyped DEF CommitAdministration, RevokeGrants, TypeInv, DataTyped
  <2>4. membership' \in [Members -> MembershipRows] /\ changes' \in [Members -> 0..MaxChanges]
    BY <1>1, <2>1, AccessConstantsOK DEF CommitAdministration, TypeInv, DataTyped
  <2>5. /\ credential' \in [Members -> {"none", "enabled", "disabled"}]
        /\ oidcLink' \in [Members -> {"none", "active", "revoked"}]
    BY <1>1, <2>1 DEF CommitAdministration, TypeInv, DataTyped
  <2> QED
    BY <1>1, <2>2, <2>3, <2>4, <2>5 DEF CommitAdministration, TypeInv, DataTyped
<1>2. CASE upsertOrganizationMembership(r)
  <2> DEFINE t == request[r].target
             next == request[r].next
  <2>1. t \in Members /\ next \in MembershipRows /\ next.role \in Roles
    BY <1>0, <1>2 DEF upsertOrganizationMembership, RequestRows, MembershipRows
  <2>2. RequestsTyped'
    BY <1>2, FinishTyped DEF upsertOrganizationMembership
  <2>3. [membership[t] EXCEPT !.role = next.role] \in MembershipRows
    BY <2>1 DEF MembershipRows, TypeInv, DataTyped
  <2>4. membership' \in [Members -> MembershipRows]
    BY <1>2, <2>1, <2>3 DEF upsertOrganizationMembership, TypeInv, DataTyped
  <2>5. ownerEnrolled' \in BOOLEAN
    BY <1>2 DEF upsertOrganizationMembership, TypeInv, DataTyped, RemovesActiveOwner
  <2> QED
    BY <1>2, <2>2, <2>4, <2>5 DEF upsertOrganizationMembership, credentialVars, TypeInv, DataTyped
<1>3. CASE RefuseWrongSignIn(r)
  <2>1. RequestsTyped'
    BY <1>3, FinishTyped DEF RefuseWrongSignIn
  <2>2. request[r].target \in Members
    BY <1>0, <1>3 DEF RefuseWrongSignIn, MayTryPassword
  <2>3. /\ failedSignIns' \in [Members -> 0..MaxFailedSignIns + 1]
        /\ signInLocked' \in [Members -> BOOLEAN]
    BY <1>3, <2>2, AccessConstantsOK DEF RefuseWrongSignIn, TypeInv, DataTyped
  <2> QED
    BY <1>3, <2>1, <2>3 DEF RefuseWrongSignIn, TypeInv, DataTyped
<1>4. CASE upsertLocalMembershipGrant(r)
  <2> DEFINE m == request[r].target
  <2>1. RequestsTyped'
    BY <1>4, FinishTyped DEF upsertLocalMembershipGrant
  <2>2. m \in Members
    BY <1>0, <1>4 DEF upsertLocalMembershipGrant, MayTryPassword
  <2>3. [NewGrant(r, "local") EXCEPT !.change = changes[m]] \in Grants
    <3>1. NewGrant(r, "local") \in Grants
      BY <1>0 DEF NewGrant, Grants, RequestRows
    <3>2. changes[m] \in 0..MaxChanges
      BY <2>2 DEF TypeInv, DataTyped
    <3> QED
      BY <3>1, <3>2 DEF Grants
  <2>4. /\ grant' \in [Members -> Grants]
        /\ session' \in [Members -> BOOLEAN]
        /\ failedSignIns' \in [Members -> 0..MaxFailedSignIns + 1]
    BY <1>4, <2>2, <2>3, AccessConstantsOK DEF upsertLocalMembershipGrant, TypeInv, DataTyped
  <2> QED
    BY <1>4, <2>1, <2>4 DEF upsertLocalMembershipGrant, TypeInv, DataTyped
<1>5. CASE upsertOidcMembershipLink(r)
  <2>1. RequestsTyped'
    BY <1>5, FinishTyped DEF upsertOidcMembershipLink
  <2> QED
    BY <1>5, <2>1 DEF upsertOidcMembershipLink, credentialVars, TypeInv, DataTyped
<1>6. CASE upsertOidcMembershipGrant(r)
  <2>1. RequestsTyped'
    BY <1>6, FinishTyped DEF upsertOidcMembershipGrant
  <2>2. NewGrant(r, "oidc") \in Grants
    BY <1>0 DEF NewGrant, Grants, RequestRows
  <2> QED
    BY <1>6, <2>1, <2>2 DEF upsertOidcMembershipGrant, credentialVars, TypeInv, DataTyped
<1>7. CASE \E m \in Members : putMyOrganizationLocalCredential(r, m)
  <2>1. PICK m \in Members : putMyOrganizationLocalCredential(r, m)
    BY <1>7
  <2>2. RequestsTyped'
    BY <2>1, AccessConstantsOK DEF putMyOrganizationLocalCredential, TypeInv, RequestsTyped
  <2>3. RevokeIf(credential[m] # "none" /\ grant[m].method = "local", m) \in Grants
    BY RevokedTyped
  <2>4. /\ grant' \in [Members -> Grants]
        /\ credential' \in [Members -> {"none", "enabled", "disabled"}]
        /\ failedSignIns' \in [Members -> 0..MaxFailedSignIns + 1]
        /\ signInLocked' \in [Members -> BOOLEAN]
    BY <2>1, <2>3, AccessConstantsOK DEF putMyOrganizationLocalCredential, TypeInv, DataTyped
  <2> QED
    BY <2>1, <2>2, <2>4 DEF putMyOrganizationLocalCredential, TypeInv, DataTyped
<1>8. CASE disableMyOrganizationLocalCredential(r)
  <2> DEFINE m == request[r].target
  <2>1. RequestsTyped'
    BY <1>8, FinishTyped DEF disableMyOrganizationLocalCredential
  <2>2. m \in Members
    BY <1>0, <1>8 DEF disableMyOrganizationLocalCredential
  <2>3. RevokeIf(grant[m].method = "local", m) \in Grants
    BY <2>2, RevokedTyped
  <2>4. /\ grant' \in [Members -> Grants]
        /\ credential' \in [Members -> {"none", "enabled", "disabled"}]
    BY <1>8, <2>3 DEF disableMyOrganizationLocalCredential, TypeInv, DataTyped
  <2> QED
    BY <1>8, <2>1, <2>4 DEF disableMyOrganizationLocalCredential, TypeInv, DataTyped
<1>9. CASE unlinkMyOrganizationOidcIdentity(r)
  <2> DEFINE m == request[r].target
  <2>1. RequestsTyped'
    BY <1>9, FinishTyped DEF unlinkMyOrganizationOidcIdentity
  <2>2. m \in Members
    BY <1>0, <1>9 DEF unlinkMyOrganizationOidcIdentity
  <2>3. RevokeIf(grant[m].method = "oidc", m) \in Grants
    BY <2>2, RevokedTyped
  <2>4. /\ grant' \in [Members -> Grants]
        /\ oidcLink' \in [Members -> {"none", "active", "revoked"}]
    BY <1>9, <2>3 DEF unlinkMyOrganizationOidcIdentity, TypeInv, DataTyped
  <2> QED
    BY <1>9, <2>1, <2>4 DEF unlinkMyOrganizationOidcIdentity, credentialVars, TypeInv, DataTyped
<1> QED
  BY <1>1, <1>2, <1>3, <1>4, <1>5, <1>6, <1>7, <1>8, <1>9 DEF Committing

LEMMA EndingTyped ==
    ASSUME TypeInv, NEW m \in Members, Ending(m)
    PROVE  TypeInv'
<1>1. RequestsTyped'
  BY DEF Ending, SignInLockRunsOut, logoutFromOrganization, GrantRunsOut, SessionEnds, TypeInv, RequestsTyped
<1>2. CASE SignInLockRunsOut(m)
  BY <1>1, <1>2 DEF SignInLockRunsOut, TypeInv, DataTyped
<1>3. CASE logoutFromOrganization(m)
  BY <1>1, <1>3, RevokedTyped DEF logoutFromOrganization, credentialVars, TypeInv, DataTyped
<1>4. CASE GrantRunsOut(m)
  <2>1. [grant[m] EXCEPT !.life = "expired"] \in Grants
    BY DEF Grants, TypeInv, DataTyped
  <2>2. grant' \in [Members -> Grants]
    BY <1>4, <2>1 DEF GrantRunsOut, TypeInv, DataTyped
  <2> QED
    BY <1>1, <1>4, <2>2 DEF GrantRunsOut, credentialVars, TypeInv, DataTyped
<1>5. CASE SessionEnds(m)
  BY <1>1, <1>5, NothingTyped DEF SessionEnds, credentialVars, TypeInv, DataTyped
<1> QED
  BY <1>2, <1>3, <1>4, <1>5 DEF Ending

LEMMA TypeInit == AccessInit => TypeInv
<1> SUFFICES ASSUME AccessInit PROVE TypeInv
  OBVIOUS
<1>1. RequestsTyped
  BY NothingTyped, AccessConstantsOK DEF AccessInit, RequestsTyped, Idle
<1>2. [NoGrant EXCEPT !.method = "local", !.life = "live", !.settings = settings] \in Grants
  BY NothingTyped DEF AccessInit, Grants, Settings
<1>3. grant \in [Members -> Grants]
  BY <1>2, NothingTyped DEF AccessInit
<1>4. [role |-> "owner", status |-> "active"] \in MembershipRows
  BY DEF MembershipRows, Roles, Statuses
<1>5. membership \in [Members -> MembershipRows]
  BY <1>4, NothingTyped DEF AccessInit
<1>6. /\ policyVersion \in 0..MaxVersion
      /\ failedSignIns \in [Members -> 0..MaxFailedSignIns + 1]
      /\ changes \in [Members -> 0..MaxChanges]
  BY AccessConstantsOK DEF AccessInit
<1>7. /\ settings \in Settings
      /\ credential \in [Members -> {"none", "enabled", "disabled"}]
      /\ oidcLink \in [Members -> {"none", "active", "revoked"}]
  BY DEF AccessInit, Settings
<1>8. signInLocked \in [Members -> BOOLEAN] /\ ownerEnrolled \in BOOLEAN
  BY DEF AccessInit
<1>9. session \in [Members -> BOOLEAN]
  <2>1. \A m \in Members : (m \in Founders) \in BOOLEAN
    OBVIOUS
  <2>2. [m \in Members |-> m \in Founders] \in [Members -> BOOLEAN]
    BY <2>1, Zenon
  <2> QED
    BY <2>2, Zenon DEF AccessInit
<1> QED
  BY <1>1, <1>3, <1>5, <1>6, <1>7, <1>8, <1>9 DEF TypeInv, DataTyped

LEMMA TypeStep == TypeInv /\ [AccessNext]_accessVars => TypeInv'
<1> SUFFICES ASSUME TypeInv, [AccessNext]_accessVars PROVE TypeInv'
  OBVIOUS
<1>1. CASE AccessNext
  BY <1>1, StepKinds, LockingTyped, PreparingTyped, ConfiguringTyped, CommittingTyped, EndingTyped
<1>2. CASE UNCHANGED accessVars
  BY <1>2 DEF accessVars, credentialVars, TypeInv, DataTyped, RequestsTyped
<1> QED
  BY <1>1, <1>2

(* Memberships, credentials, grants and requests keep their shape.         *)
THEOREM AccessTypeCorrect == AccessSpec => []AccessTypeOK
<1>1. AccessSpec => []TypeInv
  BY TypeInit, TypeStep, PTL DEF AccessSpec
<1>2. TypeInv => AccessTypeOK
  BY TypeInvMeansTypeOK
<1> QED
  BY <1>1, <1>2, PTL
------------------------------------------------------------------------------
(* Locks: one request administers, and one request holds a member's row.   *)

LockingOps == {"administer", "unlink", "disable"}

LocksInv ==
    /\ \A q1, q2 \in Requests : request[q1].op = "administer" /\ request[q2].op = "administer" => q1 = q2
    /\ \A q1, q2 \in Requests, m \in Members : Holds(q1, m) /\ Holds(q2, m) => q1 = q2

KeepsHolders == \A q \in Requests : request'[q].op \in LockingOps => request'[q] = request[q]

LEMMA BecomesKeepsHolders ==
    ASSUME TypeInv, NEW r \in Requests, NEW op, NEW a, NEW t, NEW next, NEW seen,
           Becomes(r, op, a, t, next, seen), op \notin LockingOps
    PROVE  KeepsHolders
<1>1. request'[r].op = op /\ \A q \in Requests \ {r} : request'[q] = request[q]
  BY DEF Becomes, TypeInv, RequestsTyped
<1> QED
  BY <1>1 DEF KeepsHolders

LEMMA FinishKeepsHolders ==
    ASSUME TypeInv, NEW r \in Requests, Finish(r)
    PROVE  KeepsHolders /\ request'[r] = Idle
  BY DEF Finish, KeepsHolders, Idle, LockingOps, TypeInv, RequestsTyped

LEMMA PreparingKeepsHolders ==
    ASSUME TypeInv, NEW r \in Requests, Preparing(r)
    PROVE  KeepsHolders
<1>1. CASE Abandon(r)
  BY <1>1, FinishKeepsHolders DEF Abandon
<1>2. CASE ~Abandon(r)
  <2>1. PICK op \in {"admitted", "enroll", "local", "start link", "start oidc", "link", "provider", "linking", "found"} :
            \E a, t, next, seen : Becomes(r, op, a, t, next, seen)
    BY <1>2 DEF Preparing, Admit, BeginEnroll, findOrganizationLocalAuthPolicyBySlug, startOrganizationOidc,
                findOrganizationOidcProviderContextById, FindMembershipOrLink
  <2>2. op \notin LockingOps
    BY DEF LockingOps
  <2> QED
    BY <2>1, <2>2, BecomesKeepsHolders
<1> QED
  BY <1>1, <1>2

LEMMA ConfiguringKeepsHolders ==
    ASSUME TypeInv, NEW r \in Requests, Configuring(r)
    PROVE  KeepsHolders
  BY FinishKeepsHolders DEF Configuring, patchOrganizationAuthSettings, patchOrganizationOidcProvider, ChangeSettings

LEMMA CommittingKeepsHolders ==
    ASSUME TypeInv, NEW r \in Requests, Committing(r)
    PROVE  KeepsHolders
<1>1. CASE \E m \in Members : putMyOrganizationLocalCredential(r, m)
  BY <1>1 DEF putMyOrganizationLocalCredential, KeepsHolders
<1>2. CASE ~\E m \in Members : putMyOrganizationLocalCredential(r, m)
  BY <1>2, FinishKeepsHolders
  DEF Committing, CommitAdministration, upsertOrganizationMembership, RefuseWrongSignIn, upsertLocalMembershipGrant,
      upsertOidcMembershipLink, upsertOidcMembershipGrant, disableMyOrganizationLocalCredential,
      unlinkMyOrganizationOidcIdentity
<1> QED
  BY <1>1, <1>2

LEMMA EndingKeepsHolders ==
    ASSUME TypeInv, NEW m \in Members, Ending(m)
    PROVE  KeepsHolders
  BY DEF Ending, SignInLockRunsOut, logoutFromOrganization, GrantRunsOut, SessionEnds, KeepsHolders

(* What a request that takes locks finds, and what it becomes.             *)
LEMMA LockingRow ==
    ASSUME TypeInv, NEW r \in Requests, Locking(r)
    PROVE  /\ \A q \in Requests \ {r} : request'[q] = request[q]
           /\ request'[r].op \in LockingOps
           /\ request'[r].actor \in Members /\ request'[r].target \in Members
           /\ RowFree(request'[r].actor) /\ RowFree(request'[r].target)
           /\ request'[r].op = "administer" => OrganizationFree
<1>1. CASE \E t \in Members, role \in Roles, s \in Statuses : BeginAdministration(r, t, [role |-> role, status |-> s])
  <2>1. PICK t \in Members, role \in Roles, s \in Statuses : BeginAdministration(r, t, [role |-> role, status |-> s])
    BY <1>1
  <2>2. request[r].actor \in Members
    BY <2>1 DEF BeginAdministration, TypeInv, RequestsTyped
  <2>3. /\ request'[r].op = "administer" /\ request'[r].actor = request[r].actor /\ request'[r].target = t
        /\ \A q \in Requests \ {r} : request'[q] = request[q]
    BY <2>1 DEF BeginAdministration, Becomes, TypeInv, RequestsTyped
  <2> QED
    BY <2>1, <2>2, <2>3 DEF BeginAdministration, LockingOps
<1>2. CASE \E m \in Members : BeginDisable(r, m)
  <2>1. PICK m \in Members : BeginDisable(r, m)
    BY <1>2
  <2>2. /\ request'[r].op = "disable" /\ request'[r].actor = m /\ request'[r].target = m
        /\ \A q \in Requests \ {r} : request'[q] = request[q]
    BY <2>1 DEF BeginDisable, Becomes, TypeInv, RequestsTyped
  <2> QED
    BY <2>1, <2>2 DEF BeginDisable, LockingOps
<1>3. CASE BeginUnlink(r)
  <2>1. request[r].actor \in Members
    BY <1>3 DEF BeginUnlink, TypeInv, RequestsTyped
  <2>2. /\ request'[r].op = "unlink" /\ request'[r].actor = request[r].actor /\ request'[r].target = request[r].actor
        /\ \A q \in Requests \ {r} : request'[q] = request[q]
    BY <1>3 DEF BeginUnlink, Becomes, TypeInv, RequestsTyped
  <2> QED
    BY <1>3, <2>1, <2>2 DEF BeginUnlink, LockingOps
<1> QED
  BY <1>1, <1>2, <1>3 DEF Locking

LEMMA KeptLocks ==
    ASSUME LocksInv, KeepsHolders
    PROVE  LocksInv'
  BY DEF LocksInv, KeepsHolders, Holds, LockingOps

LEMMA TakenLocks ==
    ASSUME TypeInv, LocksInv, NEW r \in Requests, Locking(r)
    PROVE  LocksInv'
<1>1. ASSUME NEW q1 \in Requests, NEW q2 \in Requests, request'[q1].op = "administer", request'[q2].op = "administer"
      PROVE  q1 = q2
  BY <1>1, LockingRow DEF LocksInv, OrganizationFree
<1>2. ASSUME NEW q \in Requests \ {r}, NEW m \in Members, Holds(q, m)', Holds(r, m)'
      PROVE  FALSE
  <2>1. Holds(q, m)
    BY <1>2, LockingRow DEF Holds
  <2>2. m = request'[r].actor \/ m = request'[r].target
    BY <1>2 DEF Holds
  <2> QED
    BY <2>1, <2>2, LockingRow DEF RowFree
<1>3. ASSUME NEW q1 \in Requests \ {r}, NEW q2 \in Requests \ {r}, NEW m \in Members, Holds(q1, m)', Holds(q2, m)'
      PROVE  q1 = q2
  BY <1>3, LockingRow DEF Holds, LocksInv
<1> QED
  BY <1>1, <1>2, <1>3 DEF LocksInv

LEMMA LocksInit == AccessInit => LocksInv
  BY DEF AccessInit, LocksInv, Holds, Idle

LEMMA LocksStep == TypeInv /\ LocksInv /\ [AccessNext]_accessVars => LocksInv'
<1> SUFFICES ASSUME TypeInv, LocksInv, [AccessNext]_accessVars PROVE LocksInv'
  OBVIOUS
<1>1. CASE AccessNext
  BY <1>1, StepKinds, TakenLocks, KeptLocks, PreparingKeepsHolders, ConfiguringKeepsHolders,
     CommittingKeepsHolders, EndingKeepsHolders
<1>2. CASE UNCHANGED accessVars
  BY <1>2 DEF accessVars, LocksInv, Holds
<1> QED
  BY <1>1, <1>2
------------------------------------------------------------------------------
(* An active owner remains.  The count of owners was taken under the lock  *)
(* of the organization; until the commit only an upsert can take a role    *)
(* from another owner, and it says so (ownerEnrolled).                     *)

OtherOwner(t) == \E m \in ActiveOwners : m # t

OwnerInv ==
    /\ OwnerRemains
    /\ \A r \in Requests :
        /\ request[r].op = "administer" /\ ~ownerEnrolled
        /\ RemovesActiveOwner(request[r].target, request[r].next)
        => OtherOwner(request[r].target)

LEMMA MembershipsKept ==
    ASSUME TypeInv, NEW r \in Requests,
           \/ Locking(r) \/ Preparing(r) \/ Configuring(r)
           \/ Committing(r) /\ ~CommitAdministration(r) /\ ~upsertOrganizationMembership(r)
    PROVE  UNCHANGED <<membership, ownerEnrolled>>
<1>1. CASE Locking(r)
  BY <1>1 DEF Locking, BeginAdministration, BeginDisable, BeginUnlink, accessData
<1>2. CASE Preparing(r)
  BY <1>2 DEF Preparing, Abandon, Admit, BeginEnroll, findOrganizationLocalAuthPolicyBySlug, startOrganizationOidc,
              findOrganizationOidcProviderContextById, FindMembershipOrLink, accessData
<1>3. CASE Configuring(r)
  BY <1>3 DEF Configuring, patchOrganizationAuthSettings, patchOrganizationOidcProvider, ChangeSettings
<1>4. CASE Committing(r) /\ ~CommitAdministration(r) /\ ~upsertOrganizationMembership(r)
  BY <1>4 DEF Committing, RefuseWrongSignIn, upsertLocalMembershipGrant, upsertOidcMembershipLink,
              upsertOidcMembershipGrant, putMyOrganizationLocalCredential, disableMyOrganizationLocalCredential,
              unlinkMyOrganizationOidcIdentity
<1> QED
  BY <1>1, <1>2, <1>3, <1>4

LEMMA OwnersUnchanged ==
    ASSUME OwnerInv, KeepsHolders, UNCHANGED <<membership, ownerEnrolled>>
    PROVE  OwnerInv'
  BY DEF OwnerInv, OwnerRemains, KeepsHolders, LockingOps, RemovesActiveOwner, OtherOwner, ActiveOwners, Active

LEMMA OwnersCounted ==
    ASSUME NEW t \in ActiveOwners, Cardinality(ActiveOwners) > 1
    PROVE  OtherOwner(t)
<1>1. CASE ActiveOwners = {t}
  <2>1. Cardinality({t}) = 1
    BY FS_Singleton
  <2>2. Cardinality(ActiveOwners) = 1
    BY <1>1, <2>1, Zenon
  <2> QED
    BY <2>2
<1>2. CASE ActiveOwners # {t}
  BY <1>2 DEF OtherOwner
<1> QED
  BY <1>1, <1>2

LEMMA LockingKeepsOwners ==
    ASSUME TypeInv, OwnerInv, NEW r \in Requests, Locking(r)
    PROVE  OwnerInv'
<1>1. UNCHANGED <<membership, ownerEnrolled>>
  BY MembershipsKept
<1>2. OwnerRemains'
  BY <1>1 DEF OwnerInv, OwnerRemains, ActiveOwners, Active
<1>3. ASSUME NEW q \in Requests, request'[q].op = "administer", ~ownerEnrolled,
             RemovesActiveOwner(request'[q].target, request'[q].next)
      PROVE  OtherOwner(request'[q].target)
  <2>1. CASE q # r
    BY <1>3, <2>1, LockingRow DEF OwnerInv
  <2>2. CASE q = r
    <3>1. PICK t \in Members, role \in Roles, s \in Statuses : BeginAdministration(r, t, [role |-> role, status |-> s])
      BY <1>3, <2>2 DEF Locking, BeginDisable, BeginUnlink, Becomes, TypeInv, RequestsTyped
    <3>2. request'[r].target = t /\ request'[r].next = [role |-> role, status |-> s]
      BY <3>1 DEF BeginAdministration, Becomes, TypeInv, RequestsTyped
    <3>3. t \in ActiveOwners /\ Cardinality(ActiveOwners) > 1
      BY <1>3, <2>2, <3>1, <3>2 DEF BeginAdministration, RemovesActiveOwner
    <3> QED
      BY <2>2, <3>2, <3>3, OwnersCounted
  <2> QED
    BY <2>1, <2>2
<1> QED
  BY <1>1, <1>2, <1>3 DEF OwnerInv, RemovesActiveOwner, OtherOwner, ActiveOwners, Active

LEMMA AdministrationKeepsOwners ==
    ASSUME TypeInv, LocksInv, OwnerInv, NEW r \in Requests, CommitAdministration(r)
    PROVE  OwnerInv'
<1> DEFINE t == request[r].target
           next == request[r].next
<1>1. /\ t \in Members
      /\ membership' = [membership EXCEPT ![t] = next]
      /\ ownerEnrolled' = ownerEnrolled
      /\ request[r].op = "administer"
  BY DEF CommitAdministration, TypeInv, RequestsTyped
<1>2. KeepsHolders /\ request'[r] = Idle
  BY FinishKeepsHolders DEF CommitAdministration
<1>3. \A q \in Requests : request'[q].op # "administer"
  BY <1>1, <1>2 DEF KeepsHolders, LockingOps, LocksInv, Idle
<1>4. ASSUME ~ownerEnrolled PROVE ActiveOwners' # {}
  <2>1. PICK w \in ActiveOwners : RemovesActiveOwner(t, next) => w # t
    BY <1>1, <1>4 DEF OwnerInv, OwnerRemains, OtherOwner
  <2>2. CASE w # t
    BY <1>1, <2>1, <2>2 DEF ActiveOwners, Active, TypeInv, DataTyped
  <2>3. CASE w = t
    <3>1. next = [role |-> "owner", status |-> "active"]
      BY <2>1, <2>3 DEF RemovesActiveOwner
    <3> QED
      BY <1>1, <3>1 DEF ActiveOwners, Active, TypeInv, DataTyped
  <2> QED
    BY <2>2, <2>3
<1> QED
  BY <1>1, <1>3, <1>4 DEF OwnerInv, OwnerRemains

LEMMA EnrollmentKeepsOwners ==
    ASSUME TypeInv, OwnerInv, NEW r \in Requests, upsertOrganizationMembership(r)
    PROVE  OwnerInv'
<1> DEFINE t == request[r].target
<1>1. /\ t \in Members /\ RowFree(t)
      /\ \A m \in Members \ {t} : membership'[m] = membership[m]
      /\ ownerEnrolled' = (ownerEnrolled \/ RemovesActiveOwner(t, membership'[t]))
  BY DEF upsertOrganizationMembership, TypeInv, RequestsTyped, DataTyped
<1>2. KeepsHolders
  BY FinishKeepsHolders DEF upsertOrganizationMembership
<1>3. ASSUME ~ownerEnrolled', NEW m \in ActiveOwners PROVE m \in ActiveOwners'
  <2>1. CASE m # t
    BY <1>1, <2>1 DEF ActiveOwners, Active
  <2>2. CASE m = t
    <3>1. membership'[t] = [role |-> "owner", status |-> "active"]
      BY <1>1, <1>3, <2>2 DEF RemovesActiveOwner
    <3> QED
      BY <1>1, <2>2, <3>1 DEF ActiveOwners, Active
  <2> QED
    BY <2>1, <2>2
<1>4. ASSUME NEW q \in Requests, request'[q].op = "administer", ~ownerEnrolled',
             RemovesActiveOwner(request[q].target, request[q].next)'
      PROVE  OtherOwner(request[q].target)'
  <2>1. request'[q] = request[q] /\ request[q].op = "administer"
    BY <1>2, <1>4 DEF KeepsHolders, LockingOps
  <2>2. request[q].target # t /\ request[q].target \in Members
    BY <1>1, <2>1 DEF RowFree, Holds, TypeInv, RequestsTyped
  <2>3. request[q].target \in ActiveOwners /\ RemovesActiveOwner(request[q].target, request[q].next)
    BY <1>1, <1>4, <2>1, <2>2 DEF RemovesActiveOwner, ActiveOwners, Active
  <2>4. PICK w \in ActiveOwners : w # request[q].target
    BY <1>1, <1>4, <2>1, <2>3 DEF OwnerInv, OtherOwner
  <2>5. w \in ActiveOwners'
    BY <1>3, <1>4
  <2> QED
    BY <2>1, <2>4, <2>5 DEF OtherOwner
<1>5. OwnerRemains'
  BY <1>1, <1>3 DEF OwnerInv, OwnerRemains
<1> QED
  BY <1>4, <1>5 DEF OwnerInv

LEMMA EndingKeepsOwners ==
    ASSUME TypeInv, OwnerInv, NEW m \in Members, Ending(m)
    PROVE  OwnerInv'
<1>1. UNCHANGED <<membership, ownerEnrolled>>
  BY DEF Ending, SignInLockRunsOut, logoutFromOrganization, GrantRunsOut, SessionEnds
<1> QED
  BY <1>1, EndingKeepsHolders, OwnersUnchanged

LEMMA OwnerInit == AccessInit => OwnerInv
  BY AccessConstantsOK DEF AccessInit, OwnerInv, OwnerRemains, ActiveOwners, Active, Idle

LEMMA OwnerStep == TypeInv /\ LocksInv /\ OwnerInv /\ [AccessNext]_accessVars => OwnerInv'
<1> SUFFICES ASSUME TypeInv, LocksInv, OwnerInv, [AccessNext]_accessVars PROVE OwnerInv'
  OBVIOUS
<1>1. ASSUME NEW r \in Requests, Preparing(r) \/ Configuring(r) \/ Committing(r)
      PROVE  OwnerInv'
  <2>1. KeepsHolders
    BY <1>1, PreparingKeepsHolders, ConfiguringKeepsHolders, CommittingKeepsHolders
  <2> QED
    BY <1>1, <2>1, MembershipsKept, OwnersUnchanged, AdministrationKeepsOwners, EnrollmentKeepsOwners
<1>2. CASE AccessNext
  BY <1>1, <1>2, StepKinds, LockingKeepsOwners, EndingKeepsOwners
<1>3. CASE UNCHANGED accessVars
  BY <1>3 DEF accessVars, OwnerInv, OwnerRemains, RemovesActiveOwner, OtherOwner, ActiveOwners, Active
<1> QED
  BY <1>2, <1>3

(* The last active owner cannot be removed by administration, however many *)
(* requests overlap.                                                       *)
THEOREM AnOwnerRemains == AccessSpec => []OwnerRemains
<1>1. AccessSpec => []TypeInv
  BY TypeInit, TypeStep, PTL DEF AccessSpec
<1>2. AccessSpec => []LocksInv
  BY <1>1, LocksInit, LocksStep, PTL DEF AccessSpec
<1>3. AccessSpec => []OwnerInv
  BY <1>1, <1>2, OwnerInit, OwnerStep, PTL DEF AccessSpec
<1>4. OwnerInv => OwnerRemains
  BY DEF OwnerInv
<1> QED
  BY <1>3, <1>4, PTL
------------------------------------------------------------------------------
(* Grants.  A grant that carries the current policy version was given on   *)
(* the current settings, and a sign-in in progress knows the settings of   *)
(* the version it has read: a version never comes back.                    *)

SignsIn == {"local", "provider", "found"}

KnowsSettings(g) ==
    /\ g.version <= policyVersion
    /\ g.version = policyVersion => g.settings = settings

GrantOK(m) ==
    /\ grant[m].version <= policyVersion
    /\ grant[m].life = "live" => KnowsSettings(grant[m])
    /\ grant[m].life = "live" /\ grant[m].method = "local" => grant[m].change = changes[m]

GrantInv ==
    /\ \A m \in Members : GrantOK(m)
    /\ \A r \in Requests : request[r].op \in SignsIn => KnowsSettings(request[r].seen)

(* A grant that is kept, or no longer live.                                *)
Weaker(g, h) == h = g \/ (h.life # "live" /\ (h.version = g.version \/ h.version = 0))

KeepsSeen == \A r \in Requests : request'[r].op \in SignsIn => request'[r] = request[r]

LEMMA RevokedIsWeaker ==
    ASSUME TypeInv, NEW m \in Members, NEW condition \in BOOLEAN
    PROVE  /\ Weaker(grant[m], RevokeIf(condition, m))
           /\ RevokeIf(TRUE, m).life # "live"
  BY DEF RevokeIf, Weaker, TypeInv, DataTyped, Grants

LEMMA WeakerGrants ==
    ASSUME TypeInv, TypeInv', GrantInv, KeepsSeen, UNCHANGED <<settings, policyVersion, changes>>,
           \A m \in Members : Weaker(grant[m], grant'[m])
    PROVE  GrantInv'
<1>1. \A m \in Members : /\ grant[m].version \in Nat /\ policyVersion \in Nat
  BY AccessConstantsOK DEF TypeInv, DataTyped, Grants
<1>2. ASSUME NEW m \in Members PROVE GrantOK(m)'
  BY <1>1, <1>2 DEF GrantInv, GrantOK, KnowsSettings, Weaker
<1> QED
  BY <1>2 DEF GrantInv, KeepsSeen, KnowsSettings

LEMMA FinishKeepsSeen ==
    ASSUME TypeInv, NEW r \in Requests, Finish(r)
    PROVE  KeepsSeen
  BY DEF Finish, KeepsSeen, Idle, SignsIn, TypeInv, RequestsTyped

LEMMA WeakerOne ==
    ASSUME TypeInv, NEW m \in Members, NEW g, Weaker(grant[m], g), grant' = [grant EXCEPT ![m] = g]
    PROVE  \A x \in Members : Weaker(grant[x], grant'[x])
  BY DEF Weaker, TypeInv, DataTyped

LEMMA BegunGrants ==
    ASSUME TypeInv, GrantInv, NEW r \in Requests, Locking(r) \/ Preparing(r)
    PROVE  GrantInv'
<1>1. /\ UNCHANGED <<settings, policyVersion, changes, grant>>
      /\ \A q \in Requests \ {r} : request'[q] = request[q]
  BY DEF Locking, BeginAdministration, BeginDisable, BeginUnlink, Preparing, Abandon, Admit, BeginEnroll,
         findOrganizationLocalAuthPolicyBySlug, startOrganizationOidc, findOrganizationOidcProviderContextById,
         FindMembershipOrLink, accessData, Becomes, Finish, TypeInv, RequestsTyped
<1>2. ASSUME request'[r].op \in SignsIn PROVE KnowsSettings(request'[r].seen)
  <2>0. policyVersion \in Nat
    BY AccessConstantsOK DEF TypeInv, DataTyped
  <2>1. \A m \in Members : KnowsSettings(SeenSettings(m))
    BY <2>0, NothingTyped DEF KnowsSettings, SeenSettings, NoGrant
  <2>2. CASE \E m \in Members : findOrganizationLocalAuthPolicyBySlug(r, m)
    <3>1. PICK m \in Members : request'[r].seen = SeenSettings(m)
      BY <2>2 DEF findOrganizationLocalAuthPolicyBySlug, Becomes, TypeInv, RequestsTyped
    <3> QED
      BY <2>1, <3>1
  <2>3. CASE findOrganizationOidcProviderContextById(r)
    <3>1. request[r].target \in Members /\ request'[r].seen = SeenSettings(request[r].target)
      BY <2>3 DEF findOrganizationOidcProviderContextById, Becomes, TypeInv, RequestsTyped
    <3> QED
      BY <2>1, <3>1
  <2>4. CASE FindMembershipOrLink(r)
    <3>1. request[r].op = "provider" /\ request[r].seen \in Grants
      BY <1>2, <2>4 DEF FindMembershipOrLink, Becomes, SignsIn, TypeInv, RequestsTyped, RequestRows
    <3>2. request'[r].seen = [request[r].seen EXCEPT !.change = changes[request[r].target]]
      BY <2>4, <3>1 DEF FindMembershipOrLink, Becomes, TypeInv, RequestsTyped
    <3>3. KnowsSettings(request[r].seen)
      BY <3>1 DEF GrantInv, SignsIn
    <3> QED
      BY <3>1, <3>2, <3>3 DEF KnowsSettings, Grants
  <2>5. CASE \/ Locking(r) \/ Abandon(r) \/ \E m \in Members : Admit(r, m)
             \/ \E t \in Members, role \in Roles, a \in Members \cup {Platform} : BeginEnroll(r, a, t, role)
             \/ \E m \in Members, op \in {"start link", "start oidc"} : startOrganizationOidc(r, m, op)
    <3>1. CASE Locking(r)
      BY <1>2, <3>1, LockingRow DEF LockingOps, SignsIn
    <3>2. CASE Abandon(r)
      BY <1>2, <3>2, FinishKeepsHolders DEF Abandon, Idle, SignsIn
    <3>3. CASE \E m \in Members : Admit(r, m)
      BY <1>2, <3>3 DEF Admit, Becomes, SignsIn, TypeInv, RequestsTyped
    <3>4. CASE \E t \in Members, role \in Roles, a \in Members \cup {Platform} : BeginEnroll(r, a, t, role)
      <4>1. request'[r].op = "enroll"
        BY <3>4 DEF BeginEnroll, Becomes, TypeInv, RequestsTyped
      <4> QED
        BY <1>2, <4>1 DEF SignsIn
    <3>5. CASE \E m \in Members, op \in {"start link", "start oidc"} : startOrganizationOidc(r, m, op)
      <4>1. PICK m \in Members, op \in {"start link", "start oidc"} : startOrganizationOidc(r, m, op)
        BY <3>5
      <4>2. request'[r].op = op
        BY <4>1 DEF startOrganizationOidc, Becomes, TypeInv, RequestsTyped
      <4> QED
        BY <1>2, <4>2 DEF SignsIn
    <3> QED
      BY <2>5, <3>1, <3>2, <3>3, <3>4, <3>5
  <2> QED
    BY <2>2, <2>3, <2>4, <2>5 DEF Preparing
<1> QED
  BY <1>1, <1>2 DEF GrantInv, GrantOK, KnowsSettings

LEMMA ConfiguredGrants ==
    ASSUME TypeInv, GrantInv, NEW r \in Requests, Configuring(r)
    PROVE  GrantInv'
<1>1. PICK next : ChangeSettings(r, next)
  BY DEF Configuring, patchOrganizationAuthSettings, patchOrganizationOidcProvider
<1>2. /\ policyVersion' = policyVersion + 1 /\ policyVersion \in Nat
      /\ UNCHANGED <<grant, changes>>
  BY <1>1, AccessConstantsOK DEF ChangeSettings, VersionAfter, TypeInv, DataTyped
<1>3. KeepsSeen
  BY <1>1, FinishKeepsSeen DEF ChangeSettings
<1>4. /\ \A m \in Members : grant[m].version \in Nat
      /\ \A q \in Requests : request[q].seen.version \in Nat
  BY DEF TypeInv, DataTyped, RequestsTyped, RequestRows, Grants
<1>5. ASSUME NEW m \in Members PROVE GrantOK(m)'
  BY <1>2, <1>4 DEF GrantInv, GrantOK, KnowsSettings
<1>6. ASSUME NEW q \in Requests, request'[q].op \in SignsIn PROVE KnowsSettings(request[q].seen)'
  BY <1>2, <1>3, <1>4, <1>6 DEF GrantInv, KeepsSeen, KnowsSettings
<1> QED
  BY <1>5, <1>6 DEF GrantInv

LEMMA CommittedGrants ==
    ASSUME TypeInv, TypeInv', GrantInv, NEW r \in Requests, Committing(r)
    PROVE  GrantInv'
<1>0. /\ request[r] \in RequestRows
      /\ request[r].op # "idle" => request[r].target \in Members
      /\ policyVersion \in Nat
  BY AccessConstantsOK DEF TypeInv, RequestsTyped, DataTyped
<1>1. CASE CommitAdministration(r)
  <2> DEFINE t == request[r].target
  <2>1. /\ t \in Members
        /\ grant' = [grant EXCEPT ![t] = RevokeIf(TRUE, t)]
        /\ changes' = [changes EXCEPT ![t] = changes[t] + 1]
        /\ UNCHANGED <<settings, policyVersion>>
    BY <1>0, <1>1 DEF CommitAdministration, RevokeGrants
  <2>2. KeepsSeen
    BY <1>1, FinishKeepsSeen DEF CommitAdministration
  <2>3. PICK g : grant' = [grant EXCEPT ![t] = g] /\ Weaker(grant[t], g) /\ g.life # "live"
    <3>1. TRUE \in BOOLEAN
      OBVIOUS
    <3>2. Weaker(grant[t], RevokeIf(TRUE, t)) /\ RevokeIf(TRUE, t).life # "live"
      BY <2>1, <3>1, RevokedIsWeaker, Zenon
    <3> QED
      BY <2>1, <3>2, Zenon
  <2>4. ASSUME NEW m \in Members PROVE GrantOK(m)'
    <3>1. CASE m = t
      <4>1. grant'[t] = g
        BY <2>1, <2>3 DEF TypeInv, DataTyped
      <4>2. g.version <= policyVersion
        BY <1>0, <2>1, <2>3 DEF GrantInv, GrantOK, Weaker
      <4> QED
        BY <2>1, <2>3, <3>1, <4>1, <4>2 DEF GrantOK
    <3>2. CASE m # t
      BY <2>1, <3>2 DEF GrantInv, GrantOK, KnowsSettings, TypeInv, DataTyped
    <3> QED
      BY <3>1, <3>2
  <2> QED
    BY <2>1, <2>2, <2>4 DEF GrantInv, KeepsSeen, KnowsSettings
<1>2. CASE upsertOrganizationMembership(r) \/ RefuseWrongSignIn(r) \/ upsertOidcMembershipLink(r)
  <2>1. UNCHANGED <<settings, policyVersion, changes, grant>>
    BY <1>2 DEF upsertOrganizationMembership, RefuseWrongSignIn, upsertOidcMembershipLink
  <2>2. KeepsSeen
    BY <1>2, FinishKeepsSeen DEF upsertOrganizationMembership, RefuseWrongSignIn, upsertOidcMembershipLink
  <2> QED
    BY <2>1, <2>2, WeakerGrants DEF Weaker
<1>3. CASE upsertLocalMembershipGrant(r)
  <2> DEFINE m == request[r].target
             g == [NewGrant(r, "local") EXCEPT !.change = changes[m]]
  <2>1. /\ m \in Members /\ request[r].op = "local"
        /\ grant' = [grant EXCEPT ![m] = g]
        /\ UNCHANGED <<settings, policyVersion, changes>>
    BY <1>0, <1>3 DEF upsertLocalMembershipGrant, MayTryPassword
  <2>2. /\ g.version = request[r].seen.version /\ g.settings = request[r].seen.settings
        /\ g.change = changes[m]
    BY <1>0 DEF NewGrant, RequestRows, Grants
  <2>3. KnowsSettings(request[r].seen)
    BY <2>1 DEF GrantInv, SignsIn
  <2>4. KeepsSeen
    BY <1>3, FinishKeepsSeen DEF upsertLocalMembershipGrant
  <2> HIDE DEF g
  <2>5. ASSUME NEW x \in Members PROVE GrantOK(x)'
    <3>1. CASE x = m
      BY <2>1, <2>2, <2>3, <3>1 DEF GrantOK, KnowsSettings, TypeInv, DataTyped
    <3>2. CASE x # m
      BY <2>1, <3>2 DEF GrantInv, GrantOK, KnowsSettings, TypeInv, DataTyped
    <3> QED
      BY <3>1, <3>2
  <2> QED
    BY <2>1, <2>4, <2>5 DEF GrantInv, KeepsSeen, KnowsSettings
<1>4. CASE upsertOidcMembershipGrant(r)
  <2> DEFINE m == request[r].target
             g == NewGrant(r, "oidc")
  <2>1. /\ m \in Members /\ request[r].op = "found"
        /\ grant' = [grant EXCEPT ![m] = g]
        /\ UNCHANGED <<settings, policyVersion, changes>>
    BY <1>0, <1>4 DEF upsertOidcMembershipGrant
  <2>2. /\ g.version = request[r].seen.version /\ g.settings = request[r].seen.settings
        /\ g.method = "oidc"
    BY <1>0 DEF NewGrant, RequestRows, Grants
  <2>3. KnowsSettings(request[r].seen)
    BY <2>1 DEF GrantInv, SignsIn
  <2>4. KeepsSeen
    BY <1>4, FinishKeepsSeen DEF upsertOidcMembershipGrant
  <2> HIDE DEF g
  <2>5. ASSUME NEW x \in Members PROVE GrantOK(x)'
    <3>1. CASE x = m
      BY <2>1, <2>2, <2>3, <3>1 DEF GrantOK, KnowsSettings, TypeInv, DataTyped
    <3>2. CASE x # m
      BY <2>1, <3>2 DEF GrantInv, GrantOK, KnowsSettings, TypeInv, DataTyped
    <3> QED
      BY <3>1, <3>2
  <2> QED
    BY <2>1, <2>4, <2>5 DEF GrantInv, KeepsSeen, KnowsSettings
<1>5. CASE \E m \in Members : putMyOrganizationLocalCredential(r, m)
  <2>1. PICK m \in Members : putMyOrganizationLocalCredential(r, m)
    BY <1>5
  <2>2. PICK condition \in BOOLEAN : grant' = [grant EXCEPT ![m] = RevokeIf(condition, m)]
    BY <2>1 DEF putMyOrganizationLocalCredential
  <2>3. \A x \in Members : Weaker(grant[x], grant'[x])
    BY <2>2, RevokedIsWeaker, WeakerOne
  <2>4. KeepsSeen /\ UNCHANGED <<settings, policyVersion, changes>>
    BY <2>1 DEF putMyOrganizationLocalCredential, KeepsSeen
  <2> QED
    BY <2>3, <2>4, WeakerGrants
<1>6. CASE disableMyOrganizationLocalCredential(r) \/ unlinkMyOrganizationOidcIdentity(r)
  <2> DEFINE m == request[r].target
  <2>1. m \in Members /\ UNCHANGED <<settings, policyVersion, changes>>
    BY <1>0, <1>6 DEF disableMyOrganizationLocalCredential, unlinkMyOrganizationOidcIdentity
  <2>2. PICK condition \in BOOLEAN : grant' = [grant EXCEPT ![m] = RevokeIf(condition, m)]
    BY <1>6 DEF disableMyOrganizationLocalCredential, unlinkMyOrganizationOidcIdentity
  <2>3. \A x \in Members : Weaker(grant[x], grant'[x])
    BY <2>1, <2>2, RevokedIsWeaker, WeakerOne
  <2>4. KeepsSeen
    BY <1>6, FinishKeepsSeen DEF disableMyOrganizationLocalCredential, unlinkMyOrganizationOidcIdentity
  <2> QED
    BY <2>1, <2>3, <2>4, WeakerGrants
<1> QED
  BY <1>1, <1>2, <1>3, <1>4, <1>5, <1>6 DEF Committing

LEMMA EndedGrants ==
    ASSUME TypeInv, TypeInv', GrantInv, NEW m \in Members, Ending(m)
    PROVE  GrantInv'
<1>1. KeepsSeen /\ UNCHANGED <<settings, policyVersion, changes>>
  BY DEF Ending, SignInLockRunsOut, logoutFromOrganization, GrantRunsOut, SessionEnds, KeepsSeen
<1>2. \A x \in Members : Weaker(grant[x], grant'[x])
  <2>1. CASE SignInLockRunsOut(m)
    BY <2>1 DEF SignInLockRunsOut, Weaker
  <2>2. CASE logoutFromOrganization(m)
    BY <2>2, RevokedIsWeaker, WeakerOne DEF logoutFromOrganization
  <2>3. CASE GrantRunsOut(m)
    <3>1. grant' = [grant EXCEPT ![m] = [grant[m] EXCEPT !.life = "expired"]]
      BY <2>3 DEF GrantRunsOut
    <3>2. Weaker(grant[m], [grant[m] EXCEPT !.life = "expired"])
      BY DEF Weaker, TypeInv, DataTyped, Grants
    <3> QED
      BY <3>1, <3>2, WeakerOne
  <2>4. CASE SessionEnds(m)
    <3>1. Weaker(grant[m], NoGrant)
      BY DEF Weaker, NoGrant
    <3> QED
      BY <2>4, <3>1, WeakerOne DEF SessionEnds
  <2> QED
    BY <2>1, <2>2, <2>3, <2>4 DEF Ending
<1> QED
  BY <1>1, <1>2, WeakerGrants

LEMMA GrantInit == AccessInit => GrantInv
<1> SUFFICES ASSUME AccessInit PROVE GrantInv
  OBVIOUS
<1>1. ASSUME NEW m \in Members PROVE GrantOK(m)
  BY DEF AccessInit, GrantOK, KnowsSettings, NoGrant
<1> QED
  BY <1>1 DEF AccessInit, GrantInv, Idle, SignsIn

LEMMA GrantStep == TypeInv /\ GrantInv /\ [AccessNext]_accessVars => GrantInv'
<1> SUFFICES ASSUME TypeInv, GrantInv, [AccessNext]_accessVars PROVE GrantInv'
  OBVIOUS
<1>1. TypeInv'
  BY TypeStep
<1>2. CASE AccessNext
  BY <1>1, <1>2, StepKinds, BegunGrants, ConfiguredGrants, CommittedGrants, EndedGrants
<1>3. CASE UNCHANGED accessVars
  BY <1>3 DEF accessVars, GrantInv, GrantOK, KnowsSettings
<1> QED
  BY <1>2, <1>3

(* A grant that still opens the organization was given on its current      *)
(* settings, and a password grant after the last change of its membership. *)
THEOREM GrantsStayCurrent == AccessSpec => []GrantsAreCurrent
<1>1. AccessSpec => []TypeInv
  BY TypeInit, TypeStep, PTL DEF AccessSpec
<1>2. AccessSpec => []GrantInv
  BY <1>1, GrantInit, GrantStep, PTL DEF AccessSpec
<1>3. GrantInv => GrantsAreCurrent
  BY DEF GrantInv, GrantOK, KnowsSettings, GrantsAreCurrent, Effective, LiveGrant
<1> QED
  BY <1>2, <1>3, PTL
------------------------------------------------------------------------------
(* A member's own methods.  What a request that gives up one method has    *)
(* seen of the other stays true, for it holds the member's row.            *)

AccessGivesUp(r) == request[r].op \in {"disable", "unlink"}

MethodOK(r) ==
    LET m == request[r].target
        seen == request[r].seen.settings IN
    /\ request[r].op = "disable" => seen.oidc /\ seen.provider /\ oidcLink[m] = "active"
    /\ request[r].op = "unlink" =>
        /\ oidcLink[m] = "active"
        /\ seen.oidc /\ seen.provider => seen.local /\ credential[m] = "enabled"

MethodInv == \A r \in Requests : MethodOK(r)

LEMMA MethodsKept ==
    ASSUME MethodInv, KeepsHolders, UNCHANGED <<credential, oidcLink>>
    PROVE  MethodInv'
  BY DEF MethodInv, MethodOK, KeepsHolders, LockingOps

LEMMA OtherMethodsKept ==
    ASSUME TypeInv, MethodInv, KeepsHolders, NEW t \in Members,
           \A m \in Members \ {t} : credential'[m] = credential[m] /\ oidcLink'[m] = oidcLink[m],
           \A q \in Requests : request'[q].op \in {"disable", "unlink"} => request[q].target # t
    PROVE  MethodInv'
<1> SUFFICES ASSUME NEW q \in Requests PROVE MethodOK(q)'
  BY DEF MethodInv
<1>1. CASE request'[q].op \in {"disable", "unlink"}
  <2>1. request'[q] = request[q]
    BY <1>1 DEF KeepsHolders, LockingOps
  <2>2. request[q].target \in Members \ {t}
    BY <1>1, <2>1 DEF TypeInv, RequestsTyped
  <2> QED
    BY <2>1, <2>2 DEF MethodInv, MethodOK
<1>2. CASE request'[q].op \notin {"disable", "unlink"}
  BY <1>2 DEF MethodOK
<1> QED
  BY <1>1, <1>2

LEMMA LockingMethods ==
    ASSUME TypeInv, MethodInv, NEW r \in Requests, Locking(r)
    PROVE  MethodInv'
<1>1. UNCHANGED <<credential, oidcLink>>
  BY DEF Locking, BeginAdministration, BeginDisable, BeginUnlink, accessData, credentialVars
<1>2. ASSUME NEW q \in Requests \ {r} PROVE MethodOK(q)'
  BY <1>1, LockingRow DEF MethodInv, MethodOK
<1>3. MethodOK(r)'
  <2>1. CASE \E t \in Members, role \in Roles, s \in Statuses : BeginAdministration(r, t, [role |-> role, status |-> s])
    <3>1. request'[r].op = "administer"
      BY <2>1 DEF BeginAdministration, Becomes, TypeInv, RequestsTyped
    <3> QED
      BY <3>1 DEF MethodOK
  <2>2. CASE \E m \in Members : BeginDisable(r, m)
    <3>1. PICK m \in Members : BeginDisable(r, m)
      BY <2>2
    <3>2. request'[r].op = "disable" /\ request'[r].target = m /\ request'[r].seen.settings = settings
      BY <3>1, NothingTyped DEF BeginDisable, Becomes, SeenSettings, NoGrant, TypeInv, RequestsTyped
    <3> QED
      BY <1>1, <3>1, <3>2 DEF BeginDisable, OidcUsable, MethodOK
  <2>3. CASE BeginUnlink(r)
    <3>1. /\ request'[r].op = "unlink" /\ request'[r].target = request[r].actor
          /\ request'[r].seen.settings = settings
      BY <2>3 DEF BeginUnlink, Becomes, SeenSettings, NoGrant, TypeInv, RequestsTyped
    <3> QED
      BY <1>1, <2>3, <3>1 DEF BeginUnlink, OidcUsable, LocalUsable, MethodOK
  <2> QED
    BY <2>1, <2>2, <2>3 DEF Locking
<1> QED
  BY <1>2, <1>3 DEF MethodInv

LEMMA CommittingMethods ==
    ASSUME TypeInv, LocksInv, MethodInv, NEW r \in Requests, Committing(r)
    PROVE  MethodInv'
<1>0. KeepsHolders
  BY CommittingKeepsHolders
<1>1. CASE \/ upsertOrganizationMembership(r) \/ RefuseWrongSignIn(r)
           \/ upsertLocalMembershipGrant(r) \/ upsertOidcMembershipGrant(r)
  <2>1. UNCHANGED <<credential, oidcLink>>
    BY <1>1 DEF upsertOrganizationMembership, RefuseWrongSignIn, upsertLocalMembershipGrant,
                upsertOidcMembershipGrant, credentialVars
  <2> QED
    BY <1>0, <2>1, MethodsKept
<1>2. CASE \/ CommitAdministration(r) \/ disableMyOrganizationLocalCredential(r)
           \/ unlinkMyOrganizationOidcIdentity(r)
  <2> DEFINE t == request[r].target
  <2>1. /\ t \in Members /\ Holds(r, t) /\ request'[r] = Idle
        /\ \A m \in Members \ {t} : credential'[m] = credential[m] /\ oidcLink'[m] = oidcLink[m]
    BY <1>2, FinishKeepsHolders
    DEF CommitAdministration, disableMyOrganizationLocalCredential, unlinkMyOrganizationOidcIdentity, credentialVars,
        Holds, TypeInv, RequestsTyped, DataTyped
  <2>2. ASSUME NEW q \in Requests, request'[q].op \in {"disable", "unlink"} PROVE request[q].target # t
    <3>1. q # r /\ request'[q] = request[q]
      BY <1>0, <2>1, <2>2 DEF KeepsHolders, LockingOps, Idle
    <3> QED
      BY <2>1, <2>2, <3>1 DEF LocksInv, Holds
  <2> QED
    BY <1>0, <2>1, <2>2, OtherMethodsKept
<1>3. CASE upsertOidcMembershipLink(r) \/ \E m \in Members : putMyOrganizationLocalCredential(r, m)
  <2>1. PICK t \in Members :
            /\ RowFree(t)
            /\ \A m \in Members \ {t} : credential'[m] = credential[m] /\ oidcLink'[m] = oidcLink[m]
    BY <1>3 DEF upsertOidcMembershipLink, putMyOrganizationLocalCredential, credentialVars,
                TypeInv, RequestsTyped, DataTyped
  <2>2. ASSUME NEW q \in Requests, request'[q].op \in {"disable", "unlink"} PROVE request[q].target # t
    BY <1>0, <2>1, <2>2 DEF KeepsHolders, LockingOps, RowFree, Holds
  <2> QED
    BY <1>0, <2>1, <2>2, OtherMethodsKept
<1> QED
  BY <1>1, <1>2, <1>3 DEF Committing

LEMMA MethodInit == AccessInit => MethodInv
  BY DEF AccessInit, MethodInv, MethodOK, Idle

LEMMA MethodStep == TypeInv /\ LocksInv /\ MethodInv /\ [AccessNext]_accessVars => MethodInv'
<1> SUFFICES ASSUME TypeInv, LocksInv, MethodInv, [AccessNext]_accessVars PROVE MethodInv'
  OBVIOUS
<1>1. ASSUME NEW r \in Requests, Preparing(r) \/ Configuring(r) PROVE MethodInv'
  <2>1. CASE Preparing(r)
    <3>1. UNCHANGED <<credential, oidcLink>>
      BY <2>1 DEF Preparing, Abandon, Admit, BeginEnroll, findOrganizationLocalAuthPolicyBySlug, startOrganizationOidc,
                  findOrganizationOidcProviderContextById, FindMembershipOrLink, accessData, credentialVars
    <3> QED
      BY <2>1, <3>1, PreparingKeepsHolders, MethodsKept
  <2>2. CASE Configuring(r)
    <3>1. UNCHANGED <<credential, oidcLink>>
      BY <2>2 DEF Configuring, patchOrganizationAuthSettings, patchOrganizationOidcProvider, ChangeSettings,
                  credentialVars
    <3> QED
      BY <2>2, <3>1, ConfiguringKeepsHolders, MethodsKept
  <2> QED
    BY <1>1, <2>1, <2>2
<1>2. ASSUME NEW m \in Members, Ending(m) PROVE MethodInv'
  <2>1. UNCHANGED <<credential, oidcLink>>
    BY <1>2 DEF Ending, SignInLockRunsOut, logoutFromOrganization, GrantRunsOut, SessionEnds, credentialVars
  <2> QED
    BY <1>2, <2>1, EndingKeepsHolders, MethodsKept
<1>3. CASE AccessNext
  BY <1>1, <1>2, <1>3, StepKinds, LockingMethods, CommittingMethods
<1>4. CASE UNCHANGED accessVars
  BY <1>4 DEF accessVars, credentialVars, MethodInv, MethodOK
<1> QED
  BY <1>3, <1>4

(* A request that gives up a method ends by its own commit or by a refusal. *)
LEMMA ReleasedBy ==
    ASSUME TypeInv, AccessNext, NEW r \in Requests, AccessGivesUp(r), request'[r] = Idle
    PROVE  Abandon(r) \/ disableMyOrganizationLocalCredential(r) \/ unlinkMyOrganizationOidcIdentity(r)
<1>1. request[r] # Idle
  BY DEF AccessGivesUp, Idle
<1>2. ASSUME NEW q \in Requests, Locking(q) \/ Preparing(q) \/ Configuring(q) \/ Committing(q)
      PROVE  \A p \in Requests \ {q} : request'[p] = request[p]
  BY <1>2 DEF Locking, BeginAdministration, BeginDisable, BeginUnlink, Preparing, Abandon, Admit, BeginEnroll,
         findOrganizationLocalAuthPolicyBySlug, startOrganizationOidc, findOrganizationOidcProviderContextById,
         FindMembershipOrLink, Configuring, patchOrganizationAuthSettings, patchOrganizationOidcProvider, ChangeSettings,
         Committing, CommitAdministration, upsertOrganizationMembership, RefuseWrongSignIn, upsertLocalMembershipGrant,
         upsertOidcMembershipLink, upsertOidcMembershipGrant, putMyOrganizationLocalCredential,
         disableMyOrganizationLocalCredential, unlinkMyOrganizationOidcIdentity, Becomes, Finish, TypeInv, RequestsTyped
<1>3. ASSUME NEW m \in Members, Ending(m) PROVE FALSE
  BY <1>1, <1>3 DEF Ending, SignInLockRunsOut, logoutFromOrganization, GrantRunsOut, SessionEnds
<1>4. Locking(r) \/ Preparing(r) \/ Configuring(r) \/ Committing(r)
  BY <1>1, <1>2, <1>3, StepKinds
<1>5. ~Locking(r) /\ ~Configuring(r)
  BY <1>1 DEF AccessGivesUp, Locking, BeginAdministration, BeginDisable, BeginUnlink, Configuring,
         patchOrganizationAuthSettings, patchOrganizationOidcProvider, ChangeSettings
<1>6. Preparing(r) => Abandon(r)
  BY <1>1 DEF AccessGivesUp, Preparing, Admit, BeginEnroll, findOrganizationLocalAuthPolicyBySlug, startOrganizationOidc,
         findOrganizationOidcProviderContextById, FindMembershipOrLink
<1>7. Committing(r) => disableMyOrganizationLocalCredential(r) \/ unlinkMyOrganizationOidcIdentity(r)
  BY <1>1 DEF AccessGivesUp, Committing, CommitAdministration, upsertOrganizationMembership, RefuseWrongSignIn,
         MayTryPassword, upsertLocalMembershipGrant, upsertOidcMembershipLink, upsertOidcMembershipGrant,
         putMyOrganizationLocalCredential
<1> QED
  BY <1>4, <1>5, <1>6, <1>7

LEMMA OneMethodLeft ==
    ASSUME TypeInv, MethodInv, [AccessNext]_accessVars, NEW r \in Requests, NEW m \in Members,
           AccessGivesUp(r), request[r].target = m, request[r].seen.settings = settings, request'[r] = Idle,
           LocalUsable(m) \/ OidcUsable(m)
    PROVE  LocalUsable(m)' \/ OidcUsable(m)'
<1>1. CASE UNCHANGED accessVars
  BY <1>1 DEF accessVars, credentialVars, LocalUsable, OidcUsable
<1>2. CASE Abandon(r)
  BY <1>2 DEF Abandon, accessData, credentialVars, LocalUsable, OidcUsable
<1>3. CASE disableMyOrganizationLocalCredential(r)
  <2>1. OidcUsable(m)
    BY <1>3 DEF disableMyOrganizationLocalCredential, MethodInv, MethodOK, OidcUsable
  <2> QED
    BY <1>3, <2>1 DEF disableMyOrganizationLocalCredential, OidcUsable
<1>4. CASE unlinkMyOrganizationOidcIdentity(r)
  <2>1. LocalUsable(m)
    BY <1>4 DEF unlinkMyOrganizationOidcIdentity, MethodInv, MethodOK, OidcUsable, LocalUsable
  <2> QED
    BY <1>4, <2>1 DEF unlinkMyOrganizationOidcIdentity, credentialVars, LocalUsable
<1> QED
  BY <1>1, <1>2, <1>3, <1>4, ReleasedBy

(* Giving up the password and unlinking the identity at once never leaves  *)
(* a member without any way to sign in.                                    *)
THEOREM MethodsRemain == AccessSpec => OwnMethodsRemain
<1>1. AccessSpec => []TypeInv
  BY TypeInit, TypeStep, PTL DEF AccessSpec
<1>2. AccessSpec => []LocksInv
  BY <1>1, LocksInit, LocksStep, PTL DEF AccessSpec
<1>3. AccessSpec => []MethodInv
  BY <1>1, <1>2, MethodInit, MethodStep, PTL DEF AccessSpec
<1>4. TypeInv /\ MethodInv /\ [AccessNext]_accessVars => [KeepsOwnMethods]_accessVars
  <2> SUFFICES ASSUME TypeInv, MethodInv, [AccessNext]_accessVars PROVE KeepsOwnMethods
    OBVIOUS
  <2> QED
    BY OneMethodLeft DEF KeepsOwnMethods, AccessGivesUp
<1> QED
  BY <1>1, <1>3, <1>4, PTL DEF AccessSpec, OwnMethodsRemain
==============================================================================
