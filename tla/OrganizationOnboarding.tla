------------------------ MODULE OrganizationOnboarding ------------------------
(***************************************************************************)
(* How people come into an organization: by an invite to an organization   *)
(* that exists, accepted with a password or through OIDC, or by a request  *)
(* for a new organization that an administrator approves.                  *)
(*                                                                         *)
(* An invite, or a request, is locked while a transaction decides it.      *)
(* What else the transaction looks at is not: the memberships, the login   *)
(* addresses and the slugs are checked first and guarded by unique indexes *)
(* when the rows are inserted.                                             *)
(***************************************************************************)
EXTENDS Naturals, FiniteSets, Sequences

CONSTANTS
    People,
    Founder,    \* the owner of the inviting organization
    Invites,
    Addresses,  \* login addresses in the inviting organization
    Petitions,  \* rows of organization_creation_requests
    Slugs,
    Clients,    \* HTTP requests that run at a time
    MaxRows,    \* bound on the invites and requests made
    NoOne

ASSUME OnboardingConstantsOK ==
    /\ Founder \in People /\ NoOne \notin People \cup Slugs /\ MaxRows \in Nat
    /\ IsFiniteSet(Invites) /\ Invites \cap Petitions = {}

VARIABLES
    invite,         \* organization_invites: state, role and redeemed_membership_id's person
    inviteLapsed,   \* invites past their expires_at
    homeRole,       \* membership in the inviting organization
    loginOf,        \* enabled local credentials: address -> person
    petition,       \* organization_creation_requests: state, requester, created organization
    organizationOf, \* slug -> the current owner of the organization with it
    taken,          \* slugs in use
    client,         \* transaction or request: what it does next, for whom, with what
    told,           \* invite or request -> what was answered with success about it, in order
    entered         \* times a person became a member by an invite

inviteVars     == <<invite, inviteLapsed, homeRole, loginOf, entered>>
petitionVars   == <<petition, organizationOf, taken>>
onboardingVars == <<inviteVars, petitionVars, client, told>>

Free == [op |-> "free", who |-> NoOne, what |-> NoOne, with |-> NoOne]
InHome == {"member", "manager", "owner", "suspended"}
Outcomes == {"accepted", "revoked", "approved", "rejected"}

OnboardingTypeOK ==
    /\ invite \in [Invites -> [state : {"none", "open", "revoked", "redeemed"}, role : {"member", "manager"}, by : People \cup {NoOne}]]
    /\ inviteLapsed \subseteq Invites
    /\ homeRole \in [People -> InHome \cup {"none", "left"}]
    /\ loginOf \in [Addresses -> People \cup {NoOne}]
    /\ petition \in [Petitions -> [state : {"none", "pending", "approved", "rejected"}, by : People \cup {NoOne}, made : SUBSET Slugs]]
    /\ organizationOf \in [Slugs -> People \cup {NoOne}]
    /\ taken \subseteq Slugs
    /\ \A c \in Clients : client[c].op \in {"free", "hash", "accept_local", "accept_oidc", "petition", "approve"}
    /\ told \in [Invites \cup Petitions -> Seq(Outcomes)]
    /\ entered \in [People -> 0..Cardinality(Invites)]

OnboardingInit ==
    /\ invite = [i \in Invites |-> [state |-> "none", role |-> "member", by |-> NoOne]]
    /\ inviteLapsed = {}
    /\ homeRole = [p \in People |-> IF p = Founder THEN "owner" ELSE "none"]
    /\ loginOf = [a \in Addresses |-> NoOne]
    /\ petition = [q \in Petitions |-> [state |-> "none", by |-> NoOne, made |-> {}]]
    /\ organizationOf = [s \in Slugs |-> NoOne]
    /\ taken = {}
    /\ client = [c \in Clients |-> Free]
    /\ told = [x \in Invites \cup Petitions |-> <<>>]
    /\ entered = [p \in People |-> 0]

Turn(c, op, who, what, with) ==
    client' = [client EXCEPT ![c] = [op |-> op, who |-> who, what |-> what, with |-> with]]

Tell(what, done) == told' = [told EXCEPT ![what] = Append(@, done)]

(* A refusal, an error or a crash: what was not committed is undone.       *)
Withdraw(c) ==
    /\ client[c] # Free
    /\ client' = [client EXCEPT ![c] = Free]
    /\ UNCHANGED <<inviteVars, petitionVars, told>>

------------------------------------------------------------------------------
(* Invites.                                                                *)

(* Mutant: the invite is read without FOR UPDATE.                          *)
InviteAlwaysFree(i) == TRUE

InviteFree(i) == \A c \in Clients : ~(client[c].what = i /\ client[c].op \in {"accept_local", "accept_oidc"})

permittedRoles(role) ==
    CASE role = "owner" -> {"member", "manager"}
      [] role = "manager" -> {"member"}
      [] OTHER -> {}

RoomForRow ==
    Cardinality({i \in Invites : invite[i].state # "none"}) + Cardinality({q \in Petitions : petition[q].state # "none"}) < MaxRows

issueOrganizationInvite(p, i, role) ==
    /\ invite[i].state = "none" /\ RoomForRow
    /\ role \in permittedRoles(homeRole[p])
    /\ invite' = [invite EXCEPT ![i] = [@ EXCEPT !.state = "open", !.role = role]]
    /\ UNCHANGED <<inviteLapsed, homeRole, loginOf, entered, petitionVars, client, told>>

NotSettled(i) == invite[i].state = "open"

(* lockedInviteForActor and revokeOrganizationInvite.  An invite past its  *)
(* date may be revoked too.                                                *)
revokeInvite(c, p, i) ==
    /\ client[c] = Free
    /\ invite[i].state # "none" /\ InviteFree(i)
    /\ invite[i].role \in permittedRoles(homeRole[p])
    /\ NotSettled(i)
    /\ invite' = [invite EXCEPT ![i].state = "revoked"]
    /\ Tell(i, "revoked")
    /\ UNCHANGED <<inviteLapsed, homeRole, loginOf, entered, petitionVars, client>>

(* The new invite has the role of the old one.                             *)
reissueInvite(c, p, i, j) ==
    /\ client[c] = Free
    /\ invite[i].state # "none" /\ invite[j].state = "none" /\ RoomForRow /\ InviteFree(i)
    /\ invite[i].role \in permittedRoles(homeRole[p])
    /\ NotSettled(i)
    /\ invite' = [invite EXCEPT ![i].state = "revoked",
                                ![j] = [@ EXCEPT !.state = "open", !.role = invite[i].role]]
    /\ Tell(i, "revoked")
    /\ UNCHANGED <<inviteLapsed, homeRole, loginOf, entered, petitionVars, client>>

InviteLapses(i) ==
    /\ invite[i].state = "open" /\ i \notin inviteLapsed
    /\ inviteLapsed' = inviteLapsed \cup {i}
    /\ UNCHANGED <<invite, homeRole, loginOf, entered, petitionVars, client, told>>

validateInviteContext(i) == invite[i].state = "open" /\ i \notin inviteLapsed

(* findMembershipStateForInvite, and the index on current memberships; who *)
(* has left may come back.                                                 *)
NotMember(p) == homeRole[p] \notin InHome

(* findEnabledLocalCredentialByEmail, and the index behind it.             *)
AddressFree(a) == loginOf[a] = NoOne

(* The check before the expensive hash; nothing is locked.                 *)
PrecheckInvite(c, p, i, a) ==
    /\ client[c] = Free
    /\ validateInviteContext(i)
    /\ Turn(c, "hash", p, i, a)
    /\ UNCHANGED <<inviteVars, petitionVars, told>>

(* findInviteContextByTokenHashForUpdate and what is read under the lock.  *)
(* A new user is somebody no other request is for.                         *)
LockInviteForPassword(c) ==
    LET r == client[c] IN
    /\ r.op = "hash"
    /\ InviteFree(r.what)
    /\ validateInviteContext(r.what)
    /\ NotMember(r.who) /\ AddressFree(r.with)
    /\ Turn(c, "accept_local", r.who, r.what, r.with)
    /\ UNCHANGED <<inviteVars, petitionVars, told>>

LockInviteForOidc(c, p, i) ==
    /\ client[c] = Free
    /\ InviteFree(i)
    /\ validateInviteContext(i)
    /\ NotMember(p)
    /\ Turn(c, "accept_oidc", p, i, NoOne)
    /\ UNCHANGED <<inviteVars, petitionVars, told>>

(* The conditional update compares the expiry with the time the request    *)
(* started at, so an invite that lapsed meanwhile is still consumed.       *)
consumeOrganizationInvite(i) == invite[i].state = "open"

(* The invite is used up with the membership it made.                      *)
Redeem(i, p) ==
    IF consumeOrganizationInvite(i)
    THEN invite' = [invite EXCEPT ![i].state = "redeemed", ![i].by = p] /\ Tell(i, "accepted")
    ELSE UNCHANGED <<invite, told>>

(* Without room in an index the transaction throws (Withdraw).             *)
insertOrganizationMembershipForInvite(c) ==
    LET r == client[c] IN
    /\ NotMember(r.who)
    /\ homeRole' = [homeRole EXCEPT ![r.who] = invite[r.what].role]
    /\ entered' = [entered EXCEPT ![r.who] = @ + 1]
    /\ client' = [client EXCEPT ![c] = Free]

(* An invite that is not there to be used up any more is reported, but the *)
(* membership is committed all the same.                                   *)
acceptOrganizationInviteWithLocalCredential(c) ==
    LET r == client[c] IN
    /\ r.op = "accept_local"
    /\ insertOrganizationMembershipForInvite(c)
    /\ AddressFree(r.with)
    /\ loginOf' = [loginOf EXCEPT ![r.with] = r.who]
    /\ Redeem(r.what, r.who)
    /\ UNCHANGED <<inviteLapsed, petitionVars>>

(* Here it throws, and nothing is committed.                               *)
acceptOrganizationInviteWithOidc(c) ==
    LET r == client[c] IN
    /\ r.op = "accept_oidc"
    /\ consumeOrganizationInvite(r.what)
    /\ insertOrganizationMembershipForInvite(c)
    /\ Redeem(r.what, r.who)
    /\ UNCHANGED <<inviteLapsed, loginOf, petitionVars>>

(* Membership administration: leaving disables the credential.             *)
LeaveHome(p) ==
    /\ homeRole[p] \in InHome /\ p # Founder
    /\ \/ /\ homeRole' = [homeRole EXCEPT ![p] = "left"]
          /\ loginOf' = [a \in Addresses |-> IF loginOf[a] = p THEN NoOne ELSE loginOf[a]]
       \/ homeRole[p] # "suspended" /\ homeRole' = [homeRole EXCEPT ![p] = "suspended"] /\ UNCHANGED loginOf
    /\ UNCHANGED <<invite, inviteLapsed, entered, petitionVars, client, told>>

------------------------------------------------------------------------------
(* Requests for an organization.                                           *)

PetitionFree(q) == \A c \in Clients : ~(client[c].what = q /\ client[c].op = "approve")

(* listUserOrganizationMemberships: suspended ones count.                  *)
HasMembership(p) == homeRole[p] \in InHome \/ \E s \in Slugs : organizationOf[s] = p

createOrganizationForSession(s) ==
    /\ s \notin taken
    /\ taken' = taken \cup {s}
    /\ UNCHANGED <<inviteVars, petition, organizationOf, client, told>>

CheckPetitioner(c, p) ==
    /\ client[c] = Free
    /\ ~HasMembership(p)
    /\ Turn(c, "petition", p, NoOne, NoOne)
    /\ UNCHANGED <<inviteVars, petitionVars, told>>

(* Mutant: a person may have several pending requests.                     *)
NeverPending(p) == FALSE

(* findPendingOrganizationCreationRequestByRequester, and the index on     *)
(* pending requests behind it.                                             *)
HasPending(p) == \E q \in Petitions : petition[q].state = "pending" /\ petition[q].by = p

insertOrganizationCreationRequest(c, q) ==
    /\ client[c].op = "petition"
    /\ petition[q].state = "none" /\ RoomForRow
    /\ ~HasPending(client[c].who)
    /\ petition' = [petition EXCEPT ![q] = [@ EXCEPT !.state = "pending", !.by = client[c].who]]
    /\ client' = [client EXCEPT ![c] = Free]
    /\ UNCHANGED <<inviteVars, organizationOf, taken, told>>

StillPending(q) == petition[q].state = "pending"

(* The request is locked; memberships and slug are only read.              *)
BeginApproval(c, q, s) ==
    /\ client[c] = Free
    /\ PetitionFree(q)
    /\ StillPending(q)
    /\ ~HasMembership(petition[q].by)
    /\ s \notin taken
    /\ Turn(c, "approve", petition[q].by, q, s)
    /\ UNCHANGED <<inviteVars, petitionVars, told>>

(* organizations_slug_key: a slug taken since makes it throw (Withdraw).   *)
approveOrganizationCreationRequest(c) ==
    LET r == client[c] IN
    /\ r.op = "approve"
    /\ r.with \notin taken
    /\ taken' = taken \cup {r.with}
    /\ organizationOf' = [organizationOf EXCEPT ![r.with] = r.who]
    /\ petition' = [petition EXCEPT ![r.what].state = "approved", ![r.what].made = @ \cup {r.with}]
    /\ Tell(r.what, "approved")
    /\ client' = [client EXCEPT ![c] = Free]
    /\ UNCHANGED inviteVars

rejectOrganizationCreationRequest(c, q) ==
    /\ client[c] = Free
    /\ PetitionFree(q)
    /\ StillPending(q)
    /\ petition' = [petition EXCEPT ![q].state = "rejected"]
    /\ Tell(q, "rejected")
    /\ UNCHANGED <<inviteVars, organizationOf, taken, client>>

------------------------------------------------------------------------------
InviteStep(i) ==
    \/ InviteLapses(i)
    \/ \E p \in People :
        \/ \E role \in {"member", "manager"} : issueOrganizationInvite(p, i, role)
        \/ \E c \in Clients :
            \/ revokeInvite(c, p, i) \/ LockInviteForOidc(c, p, i)
            \/ \E j \in Invites : reissueInvite(c, p, i, j)
            \/ \E a \in Addresses : PrecheckInvite(c, p, i, a)

PetitionStep(c, q) ==
    \/ insertOrganizationCreationRequest(c, q) \/ rejectOrganizationCreationRequest(c, q)
    \/ \E s \in Slugs : BeginApproval(c, q, s)

OnboardingNext ==
    \/ \E i \in Invites : InviteStep(i)
    \/ \E p \in People : LeaveHome(p) \/ \E c \in Clients : CheckPetitioner(c, p)
    \/ \E s \in Slugs : createOrganizationForSession(s)
    \/ \E c \in Clients :
        \/ Withdraw(c) \/ LockInviteForPassword(c)
        \/ acceptOrganizationInviteWithLocalCredential(c) \/ acceptOrganizationInviteWithOidc(c)
        \/ approveOrganizationCreationRequest(c)
        \/ \E q \in Petitions : PetitionStep(c, q)

OnboardingSpec == OnboardingInit /\ [][OnboardingNext]_onboardingVars

------------------------------------------------------------------------------
(* However issuers and invitees overlap, nobody enters the organization    *)
(* without an invite of their own, used up by that: an invite answered as  *)
(* accepted, revoked or reissued is not accepted, revoked or reissued      *)
(* again, and the conditional update that fails without undoing the        *)
(* membership (in the acceptance with a password) never does fail.         *)
InviteSettledOnce ==
    /\ \A p \in People : entered[p] = Cardinality({i \in Invites : invite[i].by = p})
    /\ \A i \in Invites :
        /\ Len(told[i]) <= 1
        /\ told[i] = <<"accepted">> => invite[i].state = "redeemed"
        /\ told[i] = <<"revoked">> => invite[i].state = "revoked"

(* A request is decided once, an approval makes exactly one organization,  *)
(* and nobody comes to own two: overlapping approvals of two requests of   *)
(* one person are ruled out by the index on pending requests, although     *)
(* neither looks at the other.  Somebody invited elsewhere while the       *)
(* approval runs does end with two memberships.                            *)
PetitionDecidedOnce ==
    /\ \A q \in Petitions :
        /\ Len(told[q]) <= 1
        /\ \A n \in 1 .. Len(told[q]) : petition[q].state = told[q][n]
        /\ Cardinality(petition[q].made) = (IF petition[q].state = "approved" THEN 1 ELSE 0)
    /\ \A s, t \in Slugs : organizationOf[s] = organizationOf[t] /\ organizationOf[s] # NoOne => s = t
==============================================================================
