-------------------------- MODULE OrganizationAccess --------------------------
(***************************************************************************)
(* Who may act in one organization: memberships and their administration,  *)
(* the authentication settings, each member's password credential and OIDC *)
(* link, and the grants that sign-ins give to sessions.                    *)
(*                                                                         *)
(* Requests run concurrently.  A request that locks rows is two steps, the *)
(* reads under the locks and the commit; a sign-in reads the settings      *)
(* before it locks anything, and an OIDC sign-in also talks to the         *)
(* provider in between.  A member has at most one session at a time, and a *)
(* member that has left does not come back under the same membership.      *)
(***************************************************************************)
EXTENDS Naturals, FiniteSets

CONSTANTS
    Members,
    Requests,
    Platform,           \* a platform administrator
    Founders,           \* the members the organization starts with, as owners
    MaxVersion,         \* bound on changes of the settings
    MaxChanges,         \* bound on administrative changes
    MaxBegun,           \* bound on requests
    MaxFailedSignIns    \* MAX_FAILED_LOGIN_ATTEMPTS, 5 in the code

ASSUME AccessConstantsOK ==
    /\ Platform \notin Members
    /\ Founders \subseteq Members /\ Founders # {} /\ IsFiniteSet(Members)
    /\ MaxVersion \in Nat /\ MaxChanges \in Nat /\ MaxBegun \in Nat /\ MaxFailedSignIns \in Nat \ {0}

Roles == {"member", "manager", "owner"}
Statuses == {"active", "suspended", "left"}
NoMembership == [role |-> "member", status |-> "absent"]
NoSettings == [local |-> FALSE, oidc |-> FALSE, provider |-> FALSE]
NoGrant == [method |-> "none", life |-> "none", version |-> 0, change |-> 0, settings |-> NoSettings]

VARIABLES
    membership,     \* organization_memberships: role and status
    settings,       \* organization_auth_settings and whether the provider is enabled
    policyVersion,  \* organization_auth_settings.policy_version
    credential,     \* local credential: "none", "enabled", "disabled"
    failedSignIns,  \* its failed_login_attempts
    signInLocked,   \* its locked_until lies in the future
    oidcLink,       \* link to the provider's identity: "none", "active", "revoked"
    session,        \* the member has a valid session
    grant,          \* session_membership_authentications of that session
    request,        \* what a request is about to do
    begun,          \* requests begun so far
    changes,        \* administrative changes of each membership so far
    ownerEnrolled   \* a membership upsert has taken the role from an active owner

credentialVars == <<credential, failedSignIns, signInLocked>>
accessData == <<membership, settings, policyVersion, credentialVars, oidcLink, session, grant>>
accessVars == <<membership, settings, policyVersion, credentialVars, oidcLink, session, grant,
                request, begun, changes, ownerEnrolled>>

Idle == [op |-> "idle", actor |-> Platform, target |-> Platform, next |-> NoMembership, seen |-> NoGrant]
Settings == [local : BOOLEAN, oidc : BOOLEAN, provider : BOOLEAN]
Grants == [method : {"none", "local", "oidc"}, life : {"none", "live", "revoked", "expired"},
           version : 0..MaxVersion, change : 0..MaxChanges, settings : Settings]
Operations == {"idle", "admitted", "administer", "enroll", "local", "start link", "link", "start oidc",
               "provider", "found", "linking", "unlink", "disable"}

AccessTypeOK ==
    /\ membership \in [Members -> [role : Roles, status : Statuses \cup {"absent"}]]
    /\ settings \in Settings
    /\ policyVersion \in 0..MaxVersion
    /\ credential \in [Members -> {"none", "enabled", "disabled"}]
    /\ failedSignIns \in [Members -> 0..MaxFailedSignIns + 1]
    /\ signInLocked \in [Members -> BOOLEAN]
    /\ oidcLink \in [Members -> {"none", "active", "revoked"}]
    /\ session \in [Members -> BOOLEAN]
    /\ grant \in [Members -> Grants]
    /\ request \in [Requests -> [op : Operations, actor : Members \cup {Platform}, target : Members \cup {Platform},
                                 next : [role : Roles, status : Statuses \cup {"absent"}], seen : Grants]]
    /\ begun \in 0..MaxBegun
    /\ changes \in [Members -> 0..MaxChanges]
    /\ ownerEnrolled \in BOOLEAN

(* The organization has set up a provider; the founders have a password    *)
(* and a linked identity, and are signed in with the password.             *)
AccessInit ==
    /\ membership = [m \in Members |-> IF m \in Founders THEN [role |-> "owner", status |-> "active"] ELSE NoMembership]
    /\ settings = [local |-> TRUE, oidc |-> TRUE, provider |-> TRUE]
    /\ policyVersion = 0
    /\ credential = [m \in Members |-> IF m \in Founders THEN "enabled" ELSE "none"]
    /\ failedSignIns = [m \in Members |-> 0]
    /\ signInLocked = [m \in Members |-> FALSE]
    /\ oidcLink = [m \in Members |-> IF m \in Founders THEN "active" ELSE "none"]
    /\ session = [m \in Members |-> m \in Founders]
    /\ grant = [m \in Members |-> IF m \in Founders THEN [NoGrant EXCEPT !.method = "local", !.life = "live", !.settings = settings]
                                                   ELSE NoGrant]
    /\ request = [r \in Requests |-> Idle]
    /\ begun = 0
    /\ changes = [m \in Members |-> 0]
    /\ ownerEnrolled = FALSE

------------------------------------------------------------------------------
(* What a grant is worth: evaluateMembershipGrant.                         *)

Active(m) == membership[m].status = "active"
ActiveOwners == {m \in Members : Active(m) /\ membership[m].role = "owner"}

LocalUsable(m) == settings.local /\ credential[m] = "enabled"
OidcUsable(m) == settings.oidc /\ settings.provider /\ oidcLink[m] = "active"

(* Mutant: the policy version of the grant is not compared.                *)
AnyVersion(m) == grant[m].life = "live"

LiveGrant(m) == grant[m].life = "live" /\ grant[m].version = policyVersion

Effective(m) ==
    /\ session[m] /\ Active(m) /\ LiveGrant(m)
    /\ (grant[m].method = "local" /\ LocalUsable(m)) \/ (grant[m].method = "oidc" /\ OidcUsable(m))

------------------------------------------------------------------------------
(* Requests and the locks they hold.                                       *)

Becomes(r, op, a, t, next, seen) ==
    /\ request[r] = Idle => begun < MaxBegun
    /\ begun' = IF request[r] = Idle THEN begun + 1 ELSE begun
    /\ request' = [request EXCEPT ![r] = [op |-> op, actor |-> a, target |-> t, next |-> next, seen |-> seen]]

Finish(r) == request' = [request EXCEPT ![r] = Idle] /\ UNCHANGED begun

Holds(r, m) == request[r].op \in {"administer", "unlink", "disable"} /\ m \in {request[r].actor, request[r].target}

(* Mutant: rows are read without FOR UPDATE.                               *)
RowAlwaysFree(m) == TRUE

RowFree(m) == \A r \in Requests : ~Holds(r, m)

SettingsFree == \A r \in Requests : request[r].op # "unlink"

(* Mutant: the organization row is not locked.                             *)
OrganizationAlwaysFree == TRUE

(* lockOrganizationForMembershipAdministration.                            *)
OrganizationFree == \A r \in Requests : request[r].op # "administer"

(* The middleware lets a request with an effective grant through.          *)
Admit(r, m) ==
    /\ request[r] = Idle
    /\ Effective(m)
    /\ Becomes(r, "admitted", m, m, NoMembership, NoGrant)
    /\ UNCHANGED <<accessData, changes, ownerEnrolled>>

(* A refusal, an error or a crash: whatever was not committed is undone.   *)
Abandon(r) ==
    /\ request[r] # Idle
    /\ Finish(r)
    /\ UNCHANGED <<accessData, changes, ownerEnrolled>>

------------------------------------------------------------------------------
(* Membership administration.                                              *)

MayAdminister(a, t, next) ==
    \/ membership[a].role = "owner"
    \/ membership[a].role = "manager" /\ membership[t].role = "member" /\ next.role = "member"

RemovesActiveOwner(t, next) == t \in ActiveOwners /\ next # [role |-> "owner", status |-> "active"]

BeginAdministration(r, t, next) ==
    LET a == request[r].actor IN
    /\ request[r].op = "admitted"
    /\ OrganizationFree /\ RowFree(a) /\ RowFree(t)
    /\ Active(a)
    /\ membership[t].status \in {"active", "suspended"}
    /\ next # membership[t]
    /\ MayAdminister(a, t, next)
    /\ RemovesActiveOwner(t, next) => Cardinality(ActiveOwners) > 1
    /\ Becomes(r, "administer", a, t, next, NoGrant)
    /\ UNCHANGED <<accessData, changes, ownerEnrolled>>

RevokeIf(condition, m) == IF condition /\ grant[m].life \in {"live", "expired"} THEN [grant[m] EXCEPT !.life = "revoked"] ELSE grant[m]

(* Mutant: only leaving revokes the grants of a membership.                *)
RevokesOnLeaving(t, next) == [grant EXCEPT ![t] = RevokeIf(next.status = "left", t)]

(* revokeAllMembershipGrants.                                              *)
RevokeGrants(t, next) == [grant EXCEPT ![t] = RevokeIf(TRUE, t)]

(* Leaving also ends the member's ways to sign in.                         *)
CommitAdministration(r) ==
    LET t == request[r].target
        next == request[r].next
        leaves == next.status = "left" IN
    /\ request[r].op = "administer"
    /\ changes[t] < MaxChanges
    /\ membership' = [membership EXCEPT ![t] = next]
    /\ grant' = RevokeGrants(t, next)
    /\ credential' = [credential EXCEPT ![t] = IF leaves /\ @ = "enabled" THEN "disabled" ELSE @]
    /\ oidcLink' = [oidcLink EXCEPT ![t] = IF leaves /\ @ = "active" THEN "revoked" ELSE @]
    /\ changes' = [changes EXCEPT ![t] = @ + 1]
    /\ Finish(r)
    /\ UNCHANGED <<settings, policyVersion, failedSignIns, signInLocked, session, ownerEnrolled>>

(* createOrUpdateOrganizationMembershipForSession looks at the actor, then *)
(* inserts the membership or overwrites its role, whoever has it.          *)
BeginEnroll(r, a, t, role) ==
    /\ \/ a = Platform /\ request[r] = Idle
       \/ /\ a # Platform /\ request[r].op = "admitted" /\ request[r].actor = a
          /\ Active(a) /\ membership[a].role \in {"manager", "owner"}
          /\ role = "member"
    /\ Becomes(r, "enroll", a, t, [role |-> role, status |-> "active"], NoGrant)
    /\ UNCHANGED <<accessData, changes, ownerEnrolled>>

upsertOrganizationMembership(r) ==
    LET t == request[r].target
        next == request[r].next IN
    /\ request[r].op = "enroll"
    /\ RowFree(t)
    /\ membership[t].status # "left"
    /\ membership' = [membership EXCEPT ![t] =
                        IF @.status = "absent" THEN next ELSE [@ EXCEPT !.role = next.role]]
    /\ ownerEnrolled' = (ownerEnrolled \/ RemovesActiveOwner(t, membership'[t]))
    /\ Finish(r)
    /\ UNCHANGED <<settings, policyVersion, credentialVars, oidcLink, session, grant, changes>>

------------------------------------------------------------------------------
(* Settings and providers, changed by an owner whose row is locked.        *)

SettingsValid(next) ==
    /\ next.local \/ next.oidc
    /\ ~settings.oidc /\ next.oidc => settings.provider

(* Mutant: a change of the provider keeps the policy version.              *)
VersionAfterSettingsOnly(next) == policyVersion + (IF next.provider # settings.provider THEN 0 ELSE 1)

(* updateOrganizationAuthSettings, incrementOrganizationPolicyVersion.     *)
VersionAfter(next) == policyVersion + 1

ChangeSettings(r, next) ==
    /\ request[r].op = "admitted"
    /\ request[r].actor \in ActiveOwners /\ RowFree(request[r].actor) /\ SettingsFree
    /\ next # settings
    /\ policyVersion < MaxVersion
    /\ settings' = next
    /\ policyVersion' = VersionAfter(next)
    /\ Finish(r)
    /\ UNCHANGED <<membership, credentialVars, oidcLink, session, grant, changes, ownerEnrolled>>

patchOrganizationAuthSettings(r, l, o) ==
    LET next == [settings EXCEPT !.local = l, !.oidc = o] IN
    SettingsValid(next) /\ ChangeSettings(r, next)

patchOrganizationOidcProvider(r) == ChangeSettings(r, [settings EXCEPT !.provider = ~@])

------------------------------------------------------------------------------
(* Sign-in with the organization's password.                               *)

SeenSettings(m) == [NoGrant EXCEPT !.version = policyVersion, !.settings = settings]

(* The policy is read without a lock; its version goes into the grant.     *)
findOrganizationLocalAuthPolicyBySlug(r, m) ==
    /\ request[r] = Idle
    /\ settings.local
    /\ Becomes(r, "local", m, m, NoMembership, SeenSettings(m))
    /\ UNCHANGED <<accessData, changes, ownerEnrolled>>

NewGrant(r, method) ==
    [request[r].seen EXCEPT !.method = method, !.life = "live"]

(* The credential, its membership and user are locked until the commit.    *)
MayTryPassword(r) ==
    LET m == request[r].target IN
    /\ request[r].op = "local"
    /\ RowFree(m)
    /\ credential[m] = "enabled" /\ ~signInLocked[m]

RefuseWrongSignIn(r) ==
    LET m == request[r].target
        attempts == failedSignIns[m] + 1 IN
    /\ MayTryPassword(r)
    /\ attempts <= MaxFailedSignIns + 1
    /\ failedSignIns' = [failedSignIns EXCEPT ![m] = attempts]
    /\ signInLocked' = [signInLocked EXCEPT ![m] = attempts >= MaxFailedSignIns]
    /\ Finish(r)
    /\ UNCHANGED <<membership, settings, policyVersion, credential, oidcLink, session, grant, changes, ownerEnrolled>>

upsertLocalMembershipGrant(r) ==
    LET m == request[r].target IN
    /\ MayTryPassword(r)
    /\ Active(m)
    /\ grant' = [grant EXCEPT ![m] = [NewGrant(r, "local") EXCEPT !.change = changes[m]]]
    /\ session' = [session EXCEPT ![m] = TRUE]
    /\ failedSignIns' = [failedSignIns EXCEPT ![m] = 0]
    /\ Finish(r)
    /\ UNCHANGED <<membership, settings, policyVersion, credential, signInLocked, oidcLink, changes, ownerEnrolled>>

(* The counter stays when the lock runs out.                               *)
SignInLockRunsOut(m) ==
    /\ signInLocked[m]
    /\ signInLocked' = [signInLocked EXCEPT ![m] = FALSE]
    /\ UNCHANGED <<membership, settings, policyVersion, credential, failedSignIns, oidcLink, session, grant, request, begun, changes, ownerEnrolled>>

------------------------------------------------------------------------------
(* Sign-in with OIDC, and linking an identity: start, the callback's read  *)
(* of the provider before the exchange, and the transaction after it.      *)

startOrganizationOidc(r, m, op) ==
    /\ request[r] = Idle
    /\ settings.oidc /\ settings.provider
    /\ op = "start link" => session[m] /\ Active(m) /\ LiveGrant(m)
    /\ Becomes(r, op, m, m, NoMembership, NoGrant)
    /\ UNCHANGED <<accessData, changes, ownerEnrolled>>

findOrganizationOidcProviderContextById(r) ==
    LET m == request[r].target IN
    /\ request[r].op \in {"start link", "start oidc"}
    /\ settings.oidc /\ settings.provider
    /\ Becomes(r, IF request[r].op = "start link" THEN "link" ELSE "provider", m, m, NoMembership, SeenSettings(m))
    /\ UNCHANGED <<accessData, changes, ownerEnrolled>>

(* The rows read here are not locked.                                      *)
FindMembershipOrLink(r) ==
    LET m == request[r].target IN
    /\ request[r].op \in {"link", "provider"} /\ Active(m)
    /\ \/ request[r].op = "link" /\ session[m] /\ Becomes(r, "linking", m, m, NoMembership, request[r].seen)
       \/ /\ request[r].op = "provider" /\ oidcLink[m] = "active"
          /\ Becomes(r, "found", m, m, NoMembership, [request[r].seen EXCEPT !.change = changes[m]])
    /\ UNCHANGED <<accessData, changes, ownerEnrolled>>

upsertOidcMembershipLink(r) ==
    LET m == request[r].target IN
    /\ request[r].op = "linking"
    /\ RowFree(m)
    /\ oidcLink' = [oidcLink EXCEPT ![m] = "active"]
    /\ Finish(r)
    /\ UNCHANGED <<membership, settings, policyVersion, credentialVars, session, grant, changes, ownerEnrolled>>

upsertOidcMembershipGrant(r) ==
    LET m == request[r].target IN
    /\ request[r].op = "found"
    /\ RowFree(m)
    /\ grant' = [grant EXCEPT ![m] = NewGrant(r, "oidc")]
    /\ session' = [session EXCEPT ![m] = TRUE]
    /\ Finish(r)
    /\ UNCHANGED <<membership, settings, policyVersion, credentialVars, oidcLink, changes, ownerEnrolled>>

------------------------------------------------------------------------------
(* A member's own credential and link.                                     *)

(* With the current password, a recent grant, or a fresh session when      *)
(* there is no credential yet; grants from an old password are revoked.    *)
putMyOrganizationLocalCredential(r, m) ==
    /\ request[r] = Idle
    /\ session[m] /\ Active(m) /\ RowFree(m) /\ settings.local
    /\ credential' = [credential EXCEPT ![m] = "enabled"]
    /\ failedSignIns' = [failedSignIns EXCEPT ![m] = 0]
    /\ signInLocked' = [signInLocked EXCEPT ![m] = FALSE]
    /\ grant' = [grant EXCEPT ![m] = RevokeIf(credential[m] # "none" /\ grant[m].method = "local", m)]
    /\ begun < MaxBegun /\ begun' = begun + 1
    /\ UNCHANGED <<membership, settings, policyVersion, oidcLink, session, request, changes, ownerEnrolled>>

(* hasUsableOidcLink: the settings and the provider are not locked.        *)
BeginDisable(r, m) ==
    /\ request[r] = Idle
    /\ session[m] /\ Active(m) /\ RowFree(m)
    /\ credential[m] = "enabled"
    /\ OidcUsable(m)
    /\ Becomes(r, "disable", m, m, NoMembership, SeenSettings(m))
    /\ UNCHANGED <<accessData, changes, ownerEnrolled>>

disableMyOrganizationLocalCredential(r) ==
    LET m == request[r].target IN
    /\ request[r].op = "disable"
    /\ credential' = [credential EXCEPT ![m] = "disabled"]
    /\ grant' = [grant EXCEPT ![m] = RevokeIf(grant[m].method = "local", m)]
    /\ Finish(r)
    /\ UNCHANGED <<membership, settings, policyVersion, failedSignIns, signInLocked, oidcLink, session, changes, ownerEnrolled>>

BeginUnlink(r) ==
    LET m == request[r].actor IN
    /\ request[r].op = "admitted"
    /\ Active(m) /\ RowFree(m) /\ SettingsFree
    /\ oidcLink[m] = "active"
    /\ OidcUsable(m) => LocalUsable(m)
    /\ Becomes(r, "unlink", m, m, NoMembership, SeenSettings(m))
    /\ UNCHANGED <<accessData, changes, ownerEnrolled>>

unlinkMyOrganizationOidcIdentity(r) ==
    LET m == request[r].target IN
    /\ request[r].op = "unlink"
    /\ oidcLink' = [oidcLink EXCEPT ![m] = "revoked"]
    /\ grant' = [grant EXCEPT ![m] = RevokeIf(grant[m].method = "oidc", m)]
    /\ Finish(r)
    /\ UNCHANGED <<membership, settings, policyVersion, credentialVars, session, changes, ownerEnrolled>>

------------------------------------------------------------------------------
(* The end of sessions and grants.                                         *)

logoutFromOrganization(m) ==
    /\ session[m]
    /\ membership[m].status \in {"active", "suspended"}
    /\ grant[m].life \in {"live", "expired"}
    /\ grant' = [grant EXCEPT ![m] = RevokeIf(TRUE, m)]
    /\ UNCHANGED <<membership, settings, policyVersion, credentialVars, oidcLink, session, request, begun, changes, ownerEnrolled>>

(* expires_at or the reauthentication interval.                            *)
GrantRunsOut(m) ==
    /\ grant[m].life = "live"
    /\ grant' = [grant EXCEPT ![m].life = "expired"]
    /\ UNCHANGED <<membership, settings, policyVersion, credentialVars, oidcLink, session, request, begun, changes, ownerEnrolled>>

SessionEnds(m) ==
    /\ session[m]
    /\ session' = [session EXCEPT ![m] = FALSE]
    /\ grant' = [grant EXCEPT ![m] = NoGrant]
    /\ UNCHANGED <<membership, settings, policyVersion, credentialVars, oidcLink, request, begun, changes, ownerEnrolled>>

------------------------------------------------------------------------------
AdministrationStep(r) ==
    \/ \E t \in Members, role \in Roles :
        \/ \E s \in Statuses : BeginAdministration(r, t, [role |-> role, status |-> s])
        \/ \E a \in Members \cup {Platform} : BeginEnroll(r, a, t, role)
    \/ CommitAdministration(r) \/ upsertOrganizationMembership(r)
    \/ \E l, o \in BOOLEAN : patchOrganizationAuthSettings(r, l, o)
    \/ patchOrganizationOidcProvider(r)

SignInStep(r) ==
    \/ \E m \in Members :
        \/ findOrganizationLocalAuthPolicyBySlug(r, m)
        \/ \E op \in {"start link", "start oidc"} : startOrganizationOidc(r, m, op)
    \/ RefuseWrongSignIn(r) \/ upsertLocalMembershipGrant(r)
    \/ findOrganizationOidcProviderContextById(r) \/ FindMembershipOrLink(r)
    \/ upsertOidcMembershipLink(r) \/ upsertOidcMembershipGrant(r)

OwnMethodStep(r) ==
    \/ \E m \in Members : putMyOrganizationLocalCredential(r, m) \/ BeginDisable(r, m)
    \/ disableMyOrganizationLocalCredential(r) \/ BeginUnlink(r) \/ unlinkMyOrganizationOidcIdentity(r)

AccessNext ==
    \/ \E r \in Requests :
        \/ \E m \in Members : Admit(r, m)
        \/ Abandon(r) \/ AdministrationStep(r) \/ SignInStep(r) \/ OwnMethodStep(r)
    \/ \E m \in Members : SignInLockRunsOut(m) \/ logoutFromOrganization(m) \/ GrantRunsOut(m) \/ SessionEnds(m)

AccessSpec == AccessInit /\ [][AccessNext]_accessVars

------------------------------------------------------------------------------
(* The membership administration never leaves the organization without an  *)
(* active owner, however its requests overlap, two owners giving up the    *)
(* role at once among them.  Only a membership upsert can, which does not  *)
(* look at the role it overwrites.                                         *)
OwnerRemains == ~ownerEnrolled => ActiveOwners # {}

(* An effective grant rests on the settings as they were read when the     *)
(* sign-in began: settings or a provider changed since end every grant.    *)
(* And a password grant was given after the last administrative change of  *)
(* its membership, role changes and a return from suspension among them.   *)
GrantsAreCurrent ==
    \A m \in Members : Effective(m) =>
        /\ grant[m].settings = settings
        /\ grant[m].method = "local" => grant[m].change = changes[m]

KeepsOwnMethods ==
    \A r \in Requests, m \in Members :
        /\ request[r].op \in {"disable", "unlink"} /\ request[r].target = m
        /\ request[r].seen.settings = settings /\ request'[r] = Idle
        /\ LocalUsable(m) \/ OidcUsable(m)
        => LocalUsable(m)' \/ OidcUsable(m)'

(* A member who disables the password or unlinks the identity keeps a way  *)
(* to sign in, unless the settings changed while the request ran: the two  *)
(* requests of one member cannot each count on the method the other takes. *)
OwnMethodsRemain == [][KeepsOwnMethods]_accessVars
==============================================================================
