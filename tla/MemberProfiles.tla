---------------------------- MODULE MemberProfiles ----------------------------
(***************************************************************************)
(* The profile of one user and the overrides of one membership of theirs.  *)
(* The user edits both; managers, owners and administrators edit the       *)
(* overrides, which leaves an audit event.  An edit reads the row, lays    *)
(* the fields of the request over it and writes all of them, in one        *)
(* transaction that locks nothing in between.                              *)
(***************************************************************************)
EXTENDS FiniteSets

CONSTANTS
    ProfileEdits,      \* requests
    ProfileFields,
    ProfileValues,
    NoOverride         \* null: the membership has no value of its own

ASSUME ProfileConstantsOK == NoOverride \notin ProfileValues /\ ProfileValues # {}

VARIABLES
    globalProfile,     \* field -> value, in user_profiles
    override,          \* field -> value or NoOverride, in organization_member_profiles
    standingOf,        \* status of the membership
    edit,              \* request -> record
    trail,             \* audit events, by request
    author,            \* history: field -> the third party whose value it is, or NoAuthor
    overtaken          \* history: edit -> fields that others changed since it read them

profileVars == <<globalProfile, override, standingOf, edit, trail, author, overtaken>>

NoAuthor == "nobody"

EditKinds == {"global", "self", "forced"}
Overrides == [ProfileFields -> ProfileValues \cup {NoOverride}]

(* What a request brings: a value for some of the fields.                  *)
EditPayloads(values) == UNION {[fs -> values] : fs \in SUBSET ProfileFields}

NoEdit == [step |-> "idle"]
Refused == [step |-> "refused"]
Done == [step |-> "done"]

RunningEdits == {e \in ProfileEdits : edit[e].step = "read"}

ProfilesTypeOK ==
    /\ globalProfile \in [ProfileFields -> ProfileValues]
    /\ override \in Overrides
    /\ standingOf \in {"active", "suspended", "left"}
    /\ \A e \in ProfileEdits : edit[e].step \in {"idle", "read", "refused", "done"}
    /\ \A e \in RunningEdits :
          /\ edit[e].kind \in EditKinds
          /\ edit[e].next \in Overrides
          /\ edit[e].before \in Overrides
    /\ \A e \in DOMAIN trail : trail[e].changed \in (SUBSET ProfileFields) \ {{}}
    /\ author \in [ProfileFields -> ProfileEdits \cup {NoAuthor}]
    /\ overtaken \in [ProfileEdits -> SUBSET ProfileFields]

ProfilesInit ==
    /\ globalProfile = [f \in ProfileFields |-> CHOOSE v \in ProfileValues : TRUE]
    /\ override = [f \in ProfileFields |-> NoOverride]
    /\ standingOf = "active"
    /\ edit = [e \in ProfileEdits |-> NoEdit]
    /\ trail = [e \in {} |-> NoEdit]
    /\ author = [f \in ProfileFields |-> NoAuthor]
    /\ overtaken = [e \in ProfileEdits |-> {}]

------------------------------------------------------------------------------
(* thirdPartyActorRole: in which role somebody with this rank edits a      *)
(* member of that rank; "none" when they may not.                          *)
thirdPartyActorRole(rank, targetRank) ==
    CASE rank = "admin" -> "global_admin"
      [] rank = "owner" -> "owner"
      [] rank = "manager" /\ targetRank = "member" -> "manager"
      [] OTHER -> "none"

(* checkActiveMembership.                                                  *)
MembershipUsable == standingOf = "active"

Laid(payload, row) == [f \in ProfileFields |-> IF f \in DOMAIN payload THEN payload[f] ELSE row[f]]

StartEdit(e, kind, row, payload, role) ==
    /\ edit' = [edit EXCEPT ![e] = [step |-> "read", kind |-> kind, before |-> row,
                                    next |-> Laid(payload, row), role |-> role]]
    /\ UNCHANGED <<globalProfile, override, standingOf, trail, author, overtaken>>

RefuseEdit(e) ==
    /\ edit' = [edit EXCEPT ![e] = Refused]
    /\ UNCHANGED <<globalProfile, override, standingOf, trail, author, overtaken>>

(* requireUserActor: a client with the API token has no profile.           *)
RefuseServiceClient(e) == edit[e].step = "idle" /\ RefuseEdit(e)

ReadUserProfile(e) ==
    /\ edit[e].step = "idle"
    /\ \E payload \in EditPayloads(ProfileValues) : StartEdit(e, "global", globalProfile, payload, "none")

updateMyUserProfile(e) ==
    /\ edit[e].step = "read" /\ edit[e].kind = "global"
    /\ globalProfile' = edit[e].next
    /\ edit' = [edit EXCEPT ![e] = Done]
    /\ UNCHANGED <<override, standingOf, trail, author, overtaken>>

ReadOwnMembership(e) ==
    /\ edit[e].step = "idle"
    /\ IF MembershipUsable
       THEN \E payload \in EditPayloads(ProfileValues \cup {NoOverride}) :
                StartEdit(e, "self", override, payload, "none")
       ELSE RefuseEdit(e)

(* What the edit of the overrides really changes, in the row it writes to. *)
FieldsReplaced(e) == {f \in ProfileFields : edit[e].next[f] # override[f]}

(* The overrides a request writes; AuthorOf: whose the values are then.    *)
updateMemberProfile(e) ==
    /\ override' = edit[e].next
    /\ edit' = [edit EXCEPT ![e] = Done]
    /\ overtaken' = [d \in ProfileEdits |->
                       IF d \in RunningEdits \ {e} THEN overtaken[d] \cup FieldsReplaced(e) ELSE overtaken[d]]
    /\ UNCHANGED <<globalProfile, standingOf>>

AuthorOf(e, by) == [f \in ProfileFields |-> IF f \in FieldsReplaced(e) THEN by ELSE author[f]]

updateMyOrganizationMemberProfile(e) ==
    /\ edit[e].step = "read" /\ edit[e].kind = "self"
    /\ updateMemberProfile(e)
    /\ author' = AuthorOf(e, NoAuthor)
    /\ UNCHANGED trail

ReadMemberForEdit(e) ==
    /\ edit[e].step = "idle"
    /\ \E rank \in {"none", "member", "manager", "owner", "admin"}, targetRank \in {"member", "manager", "owner"} :
          LET role == thirdPartyActorRole(rank, targetRank)
          IN IF MembershipUsable /\ role # "none"
             THEN \E payload \in EditPayloads(ProfileValues \cup {NoOverride}) :
                      StartEdit(e, "forced", override, payload, role)
             ELSE RefuseEdit(e)

(* Mutant: only a value given counts as a change, not one taken back.      *)
GivenFields(e) ==
    {f \in ProfileFields : edit[e].before[f] # edit[e].next[f] /\ edit[e].next[f] # NoOverride}

ChangedFields(e) == {f \in ProfileFields : edit[e].before[f] # edit[e].next[f]}

(* An edit that changes nothing of what it read leaves no event.           *)
updateOrganizationMemberProfile(e) ==
    /\ edit[e].step = "read" /\ edit[e].kind = "forced"
    /\ updateMemberProfile(e)
    /\ author' = AuthorOf(e, e)
    /\ trail' = IF ChangedFields(e) = {} THEN trail
                ELSE [d \in DOMAIN trail \cup {e} |->
                        IF d = e THEN [changed |-> ChangedFields(e), before |-> edit[e].before,
                                       after |-> edit[e].next, actor_role |-> edit[e].role]
                                 ELSE trail[d]]

(* Administration of the membership, see OrganizationAccess.               *)
StandingChanges ==
    /\ \E standing2 \in {"active", "suspended", "left"} \ {standingOf} : standingOf' = standing2
    /\ standingOf # "left"
    /\ UNCHANGED <<globalProfile, override, edit, trail, author, overtaken>>

ProfilesNext ==
    \/ \E e \in ProfileEdits :
          \/ RefuseServiceClient(e) \/ ReadUserProfile(e) \/ updateMyUserProfile(e)
          \/ ReadOwnMembership(e) \/ updateMyOrganizationMemberProfile(e)
          \/ ReadMemberForEdit(e) \/ updateOrganizationMemberProfile(e)
    \/ StandingChanges

ProfilesSpec == ProfilesInit /\ [][ProfilesNext]_profileVars

------------------------------------------------------------------------------
(* Whose values a membership carries can be told from the audit trail,     *)
(* also when edits overlap: a value that a third party put there stands in *)
(* an event of theirs, among its changes, unless somebody else changed the *)
(* field between their read and their write.  The code lays the request    *)
(* over a row it read without a lock: only in such a field may an edit     *)
(* bring back what another has replaced without its event saying so.  And  *)
(* no event of theirs tells another value than the one that stands.        *)
TrailNamesAuthors ==
    /\ \A e \in DOMAIN trail : trail[e].actor_role \in {"manager", "owner", "global_admin"}
    /\ \A f \in ProfileFields : author[f] # NoAuthor =>
          LET e == author[f]
          IN /\ f \notin overtaken[e] => e \in DOMAIN trail /\ f \in trail[e].changed
             /\ e \in DOMAIN trail => trail[e].after[f] = override[f]
==============================================================================
