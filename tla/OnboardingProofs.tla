-------------------------- MODULE OnboardingProofs ---------------------------
(***************************************************************************)
(* Proofs about how people come into an organization, and about what is    *)
(* changed of their profiles, for any people, rows and requests.           *)
(***************************************************************************)
EXTENDS OrganizationOnboarding, MemberProfiles, FiniteSetTheorems, SequenceTheorems, TLAPS

------------------------------------------------------------------------------
(***************************************************************************)
(* Invites and requests for an organization.                               *)
(***************************************************************************)

InviteRecords == [state : {"none", "open", "revoked", "redeemed"}, role : {"member", "manager"},
                  by : People \cup {NoOne}]
PetitionRecords == [state : {"none", "pending", "approved", "rejected"}, by : People \cup {NoOne},
                    made : SUBSET Slugs]
ClientOps == {"free", "hash", "accept_local", "accept_oidc", "petition", "approve"}
ClientRecords == [op : ClientOps, who : People \cup {NoOne}, what : Invites \cup Petitions \cup {NoOne},
                  with : Addresses \cup Slugs \cup {NoOne}]

(* OnboardingTypeOK without the bound on the entries, which is counted.    *)
Shape ==
    /\ invite \in [Invites -> InviteRecords]
    /\ inviteLapsed \subseteq Invites
    /\ homeRole \in [People -> InHome \cup {"none", "left"}]
    /\ loginOf \in [Addresses -> People \cup {NoOne}]
    /\ petition \in [Petitions -> PetitionRecords]
    /\ organizationOf \in [Slugs -> People \cup {NoOne}]
    /\ taken \subseteq Slugs
    /\ told \in [Invites \cup Petitions -> Seq(Outcomes)]
    /\ entered \in [People -> Nat]

(* What a client is at work on is of the kind its operation is about.      *)
RecordFits(r) ==
    /\ r.op # "free" => r.who \in People
    /\ r.op \in {"hash", "accept_local", "accept_oidc"} => r.what \in Invites
    /\ r.op \in {"hash", "accept_local"} => r.with \in Addresses
    /\ r.op = "approve" => r.what \in Petitions /\ r.with \in Slugs

ClientsFit ==
    /\ client \in [Clients -> ClientRecords]
    /\ \A c \in Clients : RecordFits(client[c])

HoldsInvite(c, i) == client[c].op \in {"accept_local", "accept_oidc"} /\ client[c].what = i
HoldsPetition(c, q) == client[c].op = "approve" /\ client[c].what = q

EnteredBy(p) == {i \in Invites : invite[i].by = p}

(* What is answered about an invite, or a request, in each of its states.  *)
SettledAs == [none |-> <<>>, open |-> <<>>, revoked |-> <<"revoked">>, redeemed |-> <<"accepted">>]
DecidedAs == [none |-> <<>>, pending |-> <<>>, approved |-> <<"approved">>, rejected |-> <<"rejected">>]

(* The row lock: one transaction accepts an invite, which is open while it *)
(* does; who used an invite up is written with its state, and counted.     *)
InvitesInv ==
    /\ \A c \in Clients, i \in Invites : HoldsInvite(c, i) => invite[i].state = "open"
    /\ \A c, d \in Clients, i \in Invites : HoldsInvite(c, i) /\ HoldsInvite(d, i) => c = d
    /\ \A i \in Invites : invite[i].state # "redeemed" => invite[i].by = NoOne
    /\ \A i \in Invites : told[i] = SettledAs[invite[i].state]
    /\ \A p \in People : entered[p] = Cardinality(EnteredBy(p))

(* One transaction approves a request, which is pending while it does, for *)
(* its requester, who has one pending request and owns no organization.    *)
PetitionsInv ==
    /\ \A c \in Clients, q \in Petitions : HoldsPetition(c, q) =>
        /\ petition[q].state = "pending" /\ petition[q].by = client[c].who
        /\ \A s \in Slugs : organizationOf[s] # client[c].who
    /\ \A c, d \in Clients, q \in Petitions : HoldsPetition(c, q) /\ HoldsPetition(d, q) => c = d
    /\ \A q, r \in Petitions :
        petition[q].state = "pending" /\ petition[r].state = "pending" /\ petition[q].by = petition[r].by => q = r
    /\ \A q \in Petitions :
        /\ told[q] = DecidedAs[petition[q].state]
        /\ petition[q].state = "pending" => petition[q].by \in People
        /\ petition[q].state # "approved" => petition[q].made = {}
        /\ petition[q].state = "approved" => \E s \in Slugs : petition[q].made = {s}
    /\ \A s, t \in Slugs : organizationOf[s] = organizationOf[t] /\ organizationOf[s] # NoOne => s = t

OnboardingInv == Shape /\ ClientsFit /\ InvitesInv /\ PetitionsInv
------------------------------------------------------------------------------
LEMMA InitOnboarding == OnboardingInit => OnboardingInv
<1>. SUFFICES ASSUME OnboardingInit PROVE OnboardingInv
  OBVIOUS
<1>1. <<>> \in Seq(Outcomes)
  OBVIOUS
<1>2. Shape
  BY <1>1 DEF OnboardingInit, Shape, InviteRecords, PetitionRecords, InHome
<1>3. ClientsFit
  BY DEF OnboardingInit, ClientsFit, ClientRecords, ClientOps, RecordFits, Free
<1>4. /\ \A c \in Clients : client[c].op = "free"
      /\ \A i \in Invites : invite[i].state = "none" /\ invite[i].by = NoOne /\ told[i] = <<>>
      /\ \A q \in Petitions : petition[q].state = "none" /\ petition[q].made = {} /\ told[q] = <<>>
      /\ \A s \in Slugs : organizationOf[s] = NoOne
      /\ \A p \in People : entered[p] = 0
  BY DEF OnboardingInit, Free
<1>5. \A p \in People : Cardinality(EnteredBy(p)) = 0
  <2>1. \A p \in People : EnteredBy(p) = {}
    BY <1>4, OnboardingConstantsOK DEF EnteredBy
  <2>. QED
    BY <2>1, FS_EmptySet
<1>6. InvitesInv
  BY <1>4, <1>5 DEF InvitesInv, HoldsInvite, SettledAs
<1>7. PetitionsInv
  BY <1>4 DEF PetitionsInv, HoldsPetition, DecidedAs
<1>. QED
  BY <1>2, <1>3, <1>6, <1>7 DEF OnboardingInv

(* What a client's turn leaves.                                            *)
LEMMA TurnLeaves ==
    ASSUME ClientsFit, NEW c \in Clients, NEW r \in ClientRecords, RecordFits(r),
           client' = [client EXCEPT ![c] = r]
    PROVE  /\ ClientsFit'
           /\ client'[c] = r
           /\ \A d \in Clients \ {c} : client'[d] = client[d]
BY DEF ClientsFit

LEMMA FreeFits == Free \in ClientRecords /\ RecordFits(Free) /\ Free.op = "free"
BY DEF Free, ClientRecords, RecordFits, ClientOps

(* The invites stay as they are and at most one client takes the lock of   *)
(* an open one that is free.                                               *)
LEMMA InvitesLeft ==
    ASSUME OnboardingInv, UNCHANGED <<invite, entered>>, \A i \in Invites : told'[i] = told[i],
           NEW c, \A d \in Clients \ {c} : client'[d] = client[d],
           \A i \in Invites : c \in Clients /\ HoldsInvite(c, i)' =>
               HoldsInvite(c, i) \/ (InviteFree(i) /\ invite[i].state = "open")
    PROVE  InvitesInv'
<1>1. \A i \in Invites, d \in Clients : InviteFree(i) => ~HoldsInvite(d, i)
  BY DEF InviteFree, HoldsInvite
<1>2. \A i \in Invites, d \in Clients \ {c} : HoldsInvite(d, i)' <=> HoldsInvite(d, i)
  BY DEF HoldsInvite
<1>3. ASSUME NEW i \in Invites, NEW d \in Clients, HoldsInvite(d, i)' PROVE invite[i].state = "open"
  BY <1>2, <1>3 DEF OnboardingInv, InvitesInv
<1>4. ASSUME NEW i \in Invites, NEW d \in Clients, NEW e \in Clients, HoldsInvite(d, i)', HoldsInvite(e, i)'
      PROVE  d = e
  BY <1>1, <1>2, <1>4 DEF OnboardingInv, InvitesInv
<1>5. \A p \in People : EnteredBy(p)' = EnteredBy(p)
  BY DEF EnteredBy
<1>. QED
  BY <1>3, <1>4, <1>5 DEF OnboardingInv, InvitesInv

LEMMA PetitionsLeft ==
    ASSUME OnboardingInv, UNCHANGED <<petition, organizationOf>>, \A q \in Petitions : told'[q] = told[q],
           NEW c, \A d \in Clients \ {c} : client'[d] = client[d],
           \A q \in Petitions : c \in Clients /\ HoldsPetition(c, q)' =>
               \/ client'[c] = client[c]
               \/ /\ PetitionFree(q) /\ petition[q].state = "pending" /\ client'[c].who = petition[q].by
                  /\ \A s \in Slugs : organizationOf[s] # petition[q].by
    PROVE  PetitionsInv'
<1>1. \A q \in Petitions, d \in Clients : PetitionFree(q) => ~HoldsPetition(d, q)
  BY DEF PetitionFree, HoldsPetition
<1>2. \A q \in Petitions, d \in Clients : client'[d] = client[d] => (HoldsPetition(d, q)' <=> HoldsPetition(d, q))
  BY DEF HoldsPetition
<1>3. ASSUME NEW q \in Petitions, NEW d \in Clients, HoldsPetition(d, q)'
      PROVE  /\ petition[q].state = "pending" /\ petition[q].by = client'[d].who
             /\ \A s \in Slugs : organizationOf[s] # client'[d].who
  BY <1>2, <1>3 DEF OnboardingInv, PetitionsInv
<1>4. ASSUME NEW q \in Petitions, NEW d \in Clients, NEW e \in Clients,
             HoldsPetition(d, q)', HoldsPetition(e, q)'
      PROVE  d = e
  BY <1>1, <1>2, <1>4 DEF OnboardingInv, PetitionsInv
<1>. QED
  BY <1>3, <1>4 DEF OnboardingInv, PetitionsInv

(* A step of a client that touches neither an invite nor a request, nor    *)
(* takes a lock; what else it changes keeps its shape.                     *)
LEMMA QuietTurn ==
    ASSUME OnboardingInv, NEW c \in Clients, NEW r \in ClientRecords, RecordFits(r),
           client' = [client EXCEPT ![c] = r], r.op \in {"free", "hash", "petition"},
           UNCHANGED <<inviteVars, petitionVars, told>>
    PROVE  OnboardingInv'
<1>1. UNCHANGED <<invite, inviteLapsed, homeRole, loginOf, entered, petition, organizationOf, taken, told>>
  BY DEF inviteVars, petitionVars
<1>2. /\ ClientsFit' /\ client'[c] = r /\ \A d \in Clients \ {c} : client'[d] = client[d]
  BY TurnLeaves DEF OnboardingInv
<1>3. Shape'
  BY <1>1 DEF OnboardingInv, Shape
<1>4. InvitesInv'
  BY <1>1, <1>2, InvitesLeft DEF HoldsInvite
<1>5. PetitionsInv'
  BY <1>1, <1>2, PetitionsLeft DEF HoldsPetition
<1>. QED
  BY <1>2, <1>3, <1>4, <1>5 DEF OnboardingInv

(* A step that changes no invite, request, client or answer.               *)
LEMMA QuietRows ==
    ASSUME OnboardingInv, UNCHANGED <<invite, entered, petition, organizationOf, client, told>>,
           inviteLapsed' \subseteq Invites, homeRole' \in [People -> InHome \cup {"none", "left"}],
           loginOf' \in [Addresses -> People \cup {NoOne}], taken' \subseteq Slugs
    PROVE  OnboardingInv'
<1>1. Shape'
  BY DEF OnboardingInv, Shape
<1>2. ClientsFit'
  BY DEF OnboardingInv, ClientsFit
<1>3. InvitesInv'
  BY InvitesLeft DEF HoldsInvite
<1>4. PetitionsInv'
  BY PetitionsLeft DEF HoldsPetition
<1>. QED
  BY <1>1, <1>2, <1>3, <1>4 DEF OnboardingInv

LEMMA TellOnce ==
    ASSUME told \in [Invites \cup Petitions -> Seq(Outcomes)], NEW x \in Invites \cup Petitions,
           told[x] = <<>>, NEW done \in Outcomes, Tell(x, done)
    PROVE  /\ told' \in [Invites \cup Petitions -> Seq(Outcomes)]
           /\ told'[x] = <<done>>
           /\ \A y \in (Invites \cup Petitions) \ {x} : told'[y] = told[y]
<1>1. Append(<<>>, done) = <<done>> /\ <<done>> \in Seq(Outcomes)
  OBVIOUS
<1>. QED
  BY <1>1 DEF Tell

------------------------------------------------------------------------------
(* Steps that decide nothing.                                              *)
LEMMA QuietKeepsInv ==
    ASSUME OnboardingInv,
           \/ \E c \in Clients : Withdraw(c)
           \/ \E c \in Clients, p \in People : CheckPetitioner(c, p)
           \/ \E c \in Clients, p \in People, i \in Invites, a \in Addresses : PrecheckInvite(c, p, i, a)
           \/ \E i \in Invites : InviteLapses(i)
           \/ \E p \in People : LeaveHome(p)
           \/ \E s \in Slugs : createOrganizationForSession(s)
    PROVE  OnboardingInv'
<1>0. Shape
  BY DEF OnboardingInv
<1>1. ASSUME NEW c \in Clients, Withdraw(c) PROVE OnboardingInv'
  BY <1>1, FreeFits, QuietTurn DEF Withdraw
<1>2. ASSUME NEW c \in Clients, NEW p \in People, CheckPetitioner(c, p) PROVE OnboardingInv'
  <2>. DEFINE r == [op |-> "petition", who |-> p, what |-> NoOne, with |-> NoOne]
  <2>1. r \in ClientRecords /\ RecordFits(r) /\ r.op = "petition"
    BY DEF ClientRecords, RecordFits, ClientOps
  <2>2. client' = [client EXCEPT ![c] = r] /\ UNCHANGED <<inviteVars, petitionVars, told>>
    BY <1>2 DEF CheckPetitioner, Turn
  <2>. HIDE DEF r
  <2>. QED
    BY <2>1, <2>2, QuietTurn
<1>3. ASSUME NEW c \in Clients, NEW p \in People, NEW i \in Invites, NEW a \in Addresses, PrecheckInvite(c, p, i, a)
      PROVE  OnboardingInv'
  <2>. DEFINE r == [op |-> "hash", who |-> p, what |-> i, with |-> a]
  <2>1. r \in ClientRecords /\ RecordFits(r) /\ r.op = "hash"
    BY DEF ClientRecords, RecordFits, ClientOps
  <2>2. client' = [client EXCEPT ![c] = r] /\ UNCHANGED <<inviteVars, petitionVars, told>>
    BY <1>3 DEF PrecheckInvite, Turn
  <2>. HIDE DEF r
  <2>. QED
    BY <2>1, <2>2, QuietTurn
<1>4. ASSUME NEW i \in Invites, InviteLapses(i) PROVE OnboardingInv'
  BY <1>0, <1>4, QuietRows DEF InviteLapses, petitionVars, Shape
<1>5. ASSUME NEW p \in People, LeaveHome(p) PROVE OnboardingInv'
  BY <1>0, <1>5, QuietRows DEF LeaveHome, petitionVars, Shape, InHome
<1>6. ASSUME NEW s \in Slugs, createOrganizationForSession(s) PROVE OnboardingInv'
  BY <1>0, <1>6, QuietRows DEF createOrganizationForSession, inviteVars, Shape
<1>. QED
  BY <1>1, <1>2, <1>3, <1>4, <1>5, <1>6

(* Transactions that begin: they take the lock of an open invite or of a   *)
(* pending request.                                                        *)
LEMMA LockKeepsInv ==
    ASSUME OnboardingInv, NEW c \in Clients, NEW r \in ClientRecords, RecordFits(r),
           r.op \in {"accept_local", "accept_oidc"}, InviteFree(r.what), validateInviteContext(r.what),
           client' = [client EXCEPT ![c] = r],
           UNCHANGED <<inviteVars, petitionVars, told>>
    PROVE  OnboardingInv'
<1>1. UNCHANGED <<invite, inviteLapsed, homeRole, loginOf, entered, petition, organizationOf, taken, told>>
  BY DEF inviteVars, petitionVars
<1>2. /\ ClientsFit' /\ client'[c] = r /\ \A d \in Clients \ {c} : client'[d] = client[d]
  BY TurnLeaves DEF OnboardingInv
<1>3. Shape'
  BY <1>1 DEF OnboardingInv, Shape
<1>4. InvitesInv'
  BY <1>1, <1>2, InvitesLeft DEF HoldsInvite, validateInviteContext
<1>5. PetitionsInv'
  BY <1>1, <1>2, PetitionsLeft DEF HoldsPetition
<1>. QED
  BY <1>2, <1>3, <1>4, <1>5 DEF OnboardingInv

LEMMA AcceptanceBegins ==
    ASSUME OnboardingInv, NEW c \in Clients,
           LockInviteForPassword(c) \/ \E p \in People, i \in Invites : LockInviteForOidc(c, p, i)
    PROVE  OnboardingInv'
<1>1. CASE LockInviteForPassword(c)
  <2>. DEFINE r == [op |-> "accept_local", who |-> client[c].who, what |-> client[c].what, with |-> client[c].with]
  <2>1. RecordFits(client[c]) /\ client[c] \in ClientRecords /\ client[c].op = "hash"
    BY <1>1 DEF OnboardingInv, ClientsFit, LockInviteForPassword
  <2>2. /\ r \in ClientRecords /\ RecordFits(r) /\ r.op = "accept_local" /\ r.what = client[c].what
    BY <2>1 DEF ClientRecords, RecordFits, ClientOps
  <2>3. /\ client' = [client EXCEPT ![c] = r] /\ UNCHANGED <<inviteVars, petitionVars, told>>
        /\ InviteFree(client[c].what) /\ validateInviteContext(client[c].what)
    BY <1>1 DEF LockInviteForPassword, Turn
  <2>. HIDE DEF r
  <2>. QED
    BY <2>2, <2>3, LockKeepsInv
<1>2. ASSUME NEW p \in People, NEW i \in Invites, LockInviteForOidc(c, p, i) PROVE OnboardingInv'
  <2>. DEFINE r == [op |-> "accept_oidc", who |-> p, what |-> i, with |-> NoOne]
  <2>1. r \in ClientRecords /\ RecordFits(r) /\ r.op = "accept_oidc" /\ r.what = i
    BY DEF ClientRecords, RecordFits, ClientOps
  <2>2. /\ client' = [client EXCEPT ![c] = r] /\ UNCHANGED <<inviteVars, petitionVars, told>>
        /\ InviteFree(i) /\ validateInviteContext(i)
    BY <1>2 DEF LockInviteForOidc, Turn
  <2>. HIDE DEF r
  <2>. QED
    BY <2>1, <2>2, LockKeepsInv
<1>. QED
  BY <1>1, <1>2

LEMMA ApprovalBegins ==
    ASSUME OnboardingInv, NEW c \in Clients, NEW q \in Petitions, NEW s \in Slugs, BeginApproval(c, q, s)
    PROVE  OnboardingInv'
<1>. DEFINE r == [op |-> "approve", who |-> petition[q].by, what |-> q, with |-> s]
<1>1. /\ client' = [client EXCEPT ![c] = r]
      /\ UNCHANGED <<invite, inviteLapsed, homeRole, loginOf, entered, petition, organizationOf, taken, told>>
      /\ PetitionFree(q) /\ petition[q].state = "pending"
      /\ \A t \in Slugs : organizationOf[t] # petition[q].by
  BY DEF BeginApproval, Turn, inviteVars, petitionVars, StillPending, HasMembership
<1>2. petition[q].by \in People
  BY <1>1 DEF OnboardingInv, PetitionsInv
<1>3. r \in ClientRecords /\ RecordFits(r) /\ r.op = "approve" /\ r.what = q /\ r.who = petition[q].by
  BY <1>2 DEF ClientRecords, RecordFits, ClientOps
<1>. HIDE DEF r
<1>4. /\ ClientsFit' /\ client'[c] = r /\ \A d \in Clients \ {c} : client'[d] = client[d]
  BY <1>1, <1>3, TurnLeaves DEF OnboardingInv
<1>5. Shape'
  BY <1>1 DEF OnboardingInv, Shape
<1>6. InvitesInv'
  BY <1>1, <1>3, <1>4, InvitesLeft DEF HoldsInvite
<1>7. PetitionsInv'
  BY <1>1, <1>3, <1>4, PetitionsLeft DEF HoldsPetition
<1>. QED
  BY <1>4, <1>5, <1>6, <1>7 DEF OnboardingInv

------------------------------------------------------------------------------
(* Issuing, revoking and reissuing: no invite is redeemed by them, and one *)
(* that stops being open is locked by nobody.                              *)
LEMMA InvitesChange ==
    ASSUME OnboardingInv,
           UNCHANGED <<client, inviteLapsed, homeRole, loginOf, entered, petition, organizationOf, taken>>,
           invite' \in [Invites -> InviteRecords],
           told' \in [Invites \cup Petitions -> Seq(Outcomes)],
           \A q \in Petitions : told'[q] = told[q],
           \A i \in Invites :
               /\ invite'[i].by = invite[i].by
               /\ told'[i] = SettledAs[invite'[i].state]
               /\ invite'[i].state = "redeemed" <=> invite[i].state = "redeemed"
               /\ invite'[i].state # "open" => invite[i].state # "open" \/ InviteFree(i)
    PROVE  OnboardingInv'
<1>1. Shape'
  BY DEF OnboardingInv, Shape
<1>2. ClientsFit'
  BY DEF OnboardingInv, ClientsFit
<1>3. InvitesInv'
  <2>1. \A i \in Invites, d \in Clients : InviteFree(i) => ~HoldsInvite(d, i)
    BY DEF InviteFree, HoldsInvite
  <2>2. \A c \in Clients, i \in Invites : HoldsInvite(c, i)' <=> HoldsInvite(c, i)
    BY DEF HoldsInvite
  <2>3. \A c \in Clients, i \in Invites : HoldsInvite(c, i)' => invite'[i].state = "open"
    BY <2>1, <2>2 DEF OnboardingInv, InvitesInv
  <2>4. \A p \in People : EnteredBy(p)' = EnteredBy(p)
    BY DEF EnteredBy
  <2>. QED
    BY <2>2, <2>3, <2>4 DEF OnboardingInv, InvitesInv
<1>4. PetitionsInv'
  BY PetitionsLeft DEF HoldsPetition
<1>. QED
  BY <1>1, <1>2, <1>3, <1>4 DEF OnboardingInv

LEMMA IssueKeepsInv ==
    ASSUME OnboardingInv, NEW p \in People, NEW i \in Invites, NEW role \in {"member", "manager"},
           issueOrganizationInvite(p, i, role)
    PROVE  OnboardingInv'
<1>1. /\ invite[i].state = "none"
      /\ invite' = [invite EXCEPT ![i] = [invite[i] EXCEPT !.state = "open", !.role = role]]
      /\ UNCHANGED <<inviteLapsed, homeRole, loginOf, entered, petition, organizationOf, taken, client, told>>
  BY DEF issueOrganizationInvite, petitionVars
<1>2. /\ invite \in [Invites -> InviteRecords] /\ told \in [Invites \cup Petitions -> Seq(Outcomes)]
      /\ \A j \in Invites : told[j] = SettledAs[invite[j].state]
  BY DEF OnboardingInv, Shape, InvitesInv
<1>3. /\ [invite[i] EXCEPT !.state = "open", !.role = role] \in InviteRecords
      /\ invite'[i].state = "open" /\ invite'[i].by = invite[i].by
      /\ \A j \in Invites \ {i} : invite'[j] = invite[j]
  BY <1>1, <1>2 DEF InviteRecords
<1>4. invite' \in [Invites -> InviteRecords]
  BY <1>1, <1>2, <1>3
<1>5. told'[i] = <<>>
  BY <1>1, <1>2 DEF SettledAs
<1>6. \A j \in Invites : told'[j] = SettledAs[invite'[j].state]
  BY <1>1, <1>2, <1>3, <1>5 DEF SettledAs
<1>. QED
  BY <1>1, <1>2, <1>3, <1>4, <1>6, InvitesChange

(* An open invite is revoked while nobody accepts it; a new one may come   *)
(* in its place.                                                           *)
LEMMA RevokeKeepsInv ==
    ASSUME OnboardingInv, NEW c \in Clients, NEW p \in People, NEW i \in Invites,
           revokeInvite(c, p, i) \/ \E j \in Invites : reissueInvite(c, p, i, j)
    PROVE  OnboardingInv'
<1>0. /\ invite \in [Invites -> InviteRecords] /\ told \in [Invites \cup Petitions -> Seq(Outcomes)]
      /\ \A j \in Invites : told[j] = SettledAs[invite[j].state]
  BY DEF OnboardingInv, Shape, InvitesInv
<1>1. /\ invite[i].state = "open" /\ InviteFree(i) /\ Tell(i, "revoked")
      /\ UNCHANGED <<inviteLapsed, homeRole, loginOf, entered, petition, organizationOf, taken, client>>
  BY DEF revokeInvite, reissueInvite, NotSettled, petitionVars
<1>2. told[i] = <<>>
  BY <1>0, <1>1 DEF SettledAs
<1>3. /\ told' \in [Invites \cup Petitions -> Seq(Outcomes)]
      /\ told'[i] = <<"revoked">>
      /\ \A y \in (Invites \cup Petitions) \ {i} : told'[y] = told[y]
  BY <1>0, <1>1, <1>2, TellOnce DEF Outcomes
<1>4. \A q \in Petitions : told'[q] = told[q]
  BY <1>3, OnboardingConstantsOK
<1>5. invite' \in [Invites -> InviteRecords]
      /\ \A j \in Invites :
           /\ invite'[j].by = invite[j].by
           /\ invite'[j].state = IF j = i THEN "revoked"
                                 ELSE IF invite[j].state = "none" /\ invite'[j].state = "open" THEN "open"
                                 ELSE invite[j].state
  <2>1. CASE revokeInvite(c, p, i)
    <3>1. invite' = [invite EXCEPT ![i].state = "revoked"]
      BY <2>1 DEF revokeInvite
    <3>2. [invite[i] EXCEPT !.state = "revoked"] \in InviteRecords
      <4>1. invite[i] \in InviteRecords
        BY <1>0
      <4>. QED
        BY <4>1 DEF InviteRecords
    <3>3. /\ invite'[i] = [invite[i] EXCEPT !.state = "revoked"]
          /\ \A k \in Invites \ {i} : invite'[k] = invite[k]
      BY <1>0, <3>1
    <3>4. invite' \in [Invites -> InviteRecords]
      BY <1>0, <3>1, <3>2
    <3>5. invite'[i].state = "revoked" /\ invite'[i].by = invite[i].by
      BY <1>0, <3>3 DEF InviteRecords
    <3>. QED
      BY <3>3, <3>4, <3>5
  <2>2. ASSUME NEW j \in Invites, reissueInvite(c, p, i, j)
        PROVE  /\ invite' \in [Invites -> InviteRecords]
               /\ invite'[i].state = "revoked" /\ invite'[i].by = invite[i].by
               /\ invite[j].state = "none" /\ invite'[j].state = "open" /\ invite'[j].by = invite[j].by
               /\ \A k \in Invites \ {i, j} : invite'[k] = invite[k]
    <3>1. /\ invite[j].state = "none"
          /\ invite' = [invite EXCEPT ![i].state = "revoked",
                                      ![j] = [@ EXCEPT !.state = "open", !.role = invite[i].role]]
      BY <2>2 DEF reissueInvite
    <3>2. i # j
      BY <1>1, <3>1
    <3>3. /\ [invite[i] EXCEPT !.state = "revoked"] \in InviteRecords
          /\ [invite[j] EXCEPT !.state = "open", !.role = invite[i].role] \in InviteRecords
      <4>1. invite[i] \in InviteRecords /\ invite[j] \in InviteRecords
        BY <1>0
      <4>2. invite[i].role \in {"member", "manager"}
        BY <4>1 DEF InviteRecords
      <4>3. [invite[i] EXCEPT !.state = "revoked"] \in InviteRecords
        BY <4>1 DEF InviteRecords
      <4>4. [invite[j] EXCEPT !.state = "open", !.role = invite[i].role] \in InviteRecords
        BY <4>1, <4>2 DEF InviteRecords
      <4>. QED
        BY <4>3, <4>4
    <3>. DEFINE once == [invite EXCEPT ![i].state = "revoked"]
                 made == [invite[j] EXCEPT !.state = "open", !.role = invite[i].role]
    <3>4. /\ once \in [Invites -> InviteRecords] /\ once[j] = invite[j]
          /\ once[i] = [invite[i] EXCEPT !.state = "revoked"]
          /\ \A k \in Invites \ {i} : once[k] = invite[k]
      BY <1>0, <3>2, <3>3
    <3>5. invite' = [once EXCEPT ![j] = made]
      BY <1>0, <3>1, <3>2, <3>4
    <3>6. /\ made \in InviteRecords /\ made.state = "open" /\ made.by = invite[j].by
          /\ once[i].state = "revoked" /\ once[i].by = invite[i].by
      BY <1>0, <3>3, <3>4 DEF InviteRecords
    <3>. HIDE DEF once, made
    <3>7. /\ invite' \in [Invites -> InviteRecords]
          /\ invite'[j] = made /\ invite'[i] = once[i]
          /\ \A k \in Invites \ {i, j} : invite'[k] = invite[k]
      BY <3>2, <3>4, <3>5, <3>6
    <3>. QED
      BY <3>1, <3>6, <3>7
  <2>. QED
    BY <2>1, <2>2
<1>6. \A j \in Invites : told'[j] = SettledAs[invite'[j].state]
  <2>1. \A j \in Invites \ {i} : told'[j] = told[j] /\ told[j] = SettledAs[invite[j].state]
    BY <1>0, <1>3
  <2>2. \A j \in Invites \ {i} :
           invite'[j].state = invite[j].state \/ (invite[j].state = "none" /\ invite'[j].state = "open")
    BY <1>5
  <2>. QED
    BY <1>3, <1>5, <2>1, <2>2 DEF SettledAs
<1>7. \A j \in Invites :
        /\ invite'[j].state = "redeemed" <=> invite[j].state = "redeemed"
        /\ invite'[j].state # "open" => invite[j].state # "open" \/ InviteFree(j)
  <2>1. /\ invite'[i].state = "revoked"
        /\ \A j \in Invites \ {i} :
                 invite'[j].state = invite[j].state \/ (invite[j].state = "none" /\ invite'[j].state = "open")
    BY <1>5
  <2>. QED
    BY <1>1, <2>1
<1>. QED
  BY <1>1, <1>3, <1>4, <1>5, <1>6, <1>7, InvitesChange

------------------------------------------------------------------------------
(* The acceptance: the lock has kept the invite open, so it is used up,    *)
(* and the member who enters is the one more it is used up by.             *)
LEMMA AcceptKeepsInv ==
    ASSUME OnboardingInv, NEW c \in Clients,
           acceptOrganizationInviteWithLocalCredential(c) \/ acceptOrganizationInviteWithOidc(c)
    PROVE  OnboardingInv'
<1>1. PICK i \in Invites, p \in People : HoldsInvite(c, i) /\ client[c].what = i /\ client[c].who = p
  BY DEF OnboardingInv, ClientsFit, RecordFits, HoldsInvite, acceptOrganizationInviteWithLocalCredential,
         acceptOrganizationInviteWithOidc
<1>2. invite[i].state = "open" /\ invite[i].by = NoOne /\ told[i] = <<>>
  <2>1. invite[i].state = "open"
    BY <1>1 DEF OnboardingInv, InvitesInv
  <2>. QED
    BY <1>1, <2>1 DEF OnboardingInv, InvitesInv, SettledAs
<1>3. /\ invite' = [invite EXCEPT ![i].state = "redeemed", ![i].by = p] /\ Tell(i, "accepted")
      /\ homeRole' = [homeRole EXCEPT ![p] = invite[i].role]
      /\ entered' = [entered EXCEPT ![p] = @ + 1]
      /\ client' = [client EXCEPT ![c] = Free]
      /\ UNCHANGED <<inviteLapsed, petition, organizationOf, taken>>
  BY <1>1, <1>2 DEF acceptOrganizationInviteWithLocalCredential, acceptOrganizationInviteWithOidc,
              insertOrganizationMembershipForInvite, Redeem, consumeOrganizationInvite, petitionVars
<1>4. loginOf' \in [Addresses -> People \cup {NoOne}]
  <2>1. loginOf \in [Addresses -> People \cup {NoOne}]
    BY DEF OnboardingInv, Shape
  <2>2. CASE acceptOrganizationInviteWithLocalCredential(c)
    <3>1. loginOf' = [loginOf EXCEPT ![client[c].with] = p]
      BY <1>1, <2>2 DEF acceptOrganizationInviteWithLocalCredential
    <3>. QED
      BY <1>1, <2>1, <3>1
  <2>3. CASE acceptOrganizationInviteWithOidc(c)
    BY <2>1, <2>3 DEF acceptOrganizationInviteWithOidc
  <2>. QED
    BY <2>2, <2>3
<1>5. /\ invite \in [Invites -> InviteRecords] /\ told \in [Invites \cup Petitions -> Seq(Outcomes)]
      /\ homeRole \in [People -> InHome \cup {"none", "left"}] /\ entered \in [People -> Nat]
  BY DEF OnboardingInv, Shape
<1>6. /\ invite' \in [Invites -> InviteRecords]
      /\ invite'[i].state = "redeemed" /\ invite'[i].by = p
      /\ \A j \in Invites \ {i} : invite'[j] = invite[j]
      /\ invite[i].role \in {"member", "manager"}
  <2>. DEFINE used == [invite[i] EXCEPT !.state = "redeemed", !.by = p]
  <2>1. invite[i] \in InviteRecords
    BY <1>1, <1>5
  <2>2. /\ used \in InviteRecords /\ used.state = "redeemed" /\ used.by = p
        /\ invite[i].role \in {"member", "manager"}
    BY <1>1, <2>1 DEF InviteRecords
  <2>3. invite' = [invite EXCEPT ![i] = used]
    BY <1>1, <1>3, <1>5, <2>1
  <2>. HIDE DEF used
  <2>. QED
    BY <1>1, <1>5, <2>2, <2>3
<1>7. /\ told' \in [Invites \cup Petitions -> Seq(Outcomes)]
      /\ told'[i] = <<"accepted">>
      /\ \A y \in (Invites \cup Petitions) \ {i} : told'[y] = told[y]
  BY <1>1, <1>2, <1>3, <1>5, TellOnce DEF Outcomes
<1>8. \A q \in Petitions : told'[q] = told[q]
  BY <1>1, <1>7, OnboardingConstantsOK
<1>9. ClientsFit' /\ client'[c] = Free /\ \A d \in Clients \ {c} : client'[d] = client[d]
  BY <1>3, FreeFits, TurnLeaves DEF OnboardingInv
<1>10. homeRole' \in [People -> InHome \cup {"none", "left"}] /\ entered' \in [People -> Nat]
  <2>1. entered' \in [People -> Nat]
    BY <1>1, <1>3, <1>5
  <2>2. invite[i].role \in InHome
    BY <1>6 DEF InHome
  <2>3. homeRole' \in [People -> InHome \cup {"none", "left"}]
    BY <1>1, <1>3, <1>5, <2>2
  <2>. QED
    BY <2>1, <2>3
<1>11. Shape'
  BY <1>3, <1>4, <1>6, <1>7, <1>10 DEF OnboardingInv, Shape
<1>12. \A o \in People : entered'[o] = Cardinality(EnteredBy(o)')
  <2>1. \A o \in People : entered[o] = Cardinality(EnteredBy(o))
    BY DEF OnboardingInv, InvitesInv
  <2>2. ASSUME NEW o \in People, o # p PROVE entered'[o] = Cardinality(EnteredBy(o)')
    <3>1. p # NoOne /\ o # NoOne
      BY <1>1, <2>2, OnboardingConstantsOK
    <3>2. EnteredBy(o)' = EnteredBy(o)
      BY <1>2, <1>6, <2>2, <3>1 DEF EnteredBy
    <3>3. entered'[o] = entered[o]
      BY <1>1, <1>3, <1>5, <2>2
    <3>. QED
      BY <2>1, <3>2, <3>3
  <2>3. entered'[p] = Cardinality(EnteredBy(p)')
    <3>1. EnteredBy(p)' = EnteredBy(p) \cup {i} /\ i \notin EnteredBy(p)
      BY <1>1, <1>2, <1>6, OnboardingConstantsOK DEF EnteredBy
    <3>2. IsFiniteSet(EnteredBy(p))
      BY FS_Subset, OnboardingConstantsOK DEF EnteredBy
    <3>3. Cardinality(EnteredBy(p) \cup {i}) = Cardinality(EnteredBy(p)) + 1
      BY <3>1, <3>2, FS_AddElement
    <3>4. entered'[p] = entered[p] + 1
      BY <1>1, <1>3, <1>5
    <3>. QED
      BY <1>1, <2>1, <3>1, <3>3, <3>4
  <2>. QED
    BY <2>2, <2>3
<1>13. InvitesInv'
  <2>1. \A d \in Clients, j \in Invites : HoldsInvite(d, j)' => d # c /\ HoldsInvite(d, j)
    BY <1>9 DEF HoldsInvite, Free
  <2>2. \A d \in Clients, j \in Invites : HoldsInvite(d, j)' => j # i
    BY <1>1, <2>1 DEF OnboardingInv, InvitesInv
  <2>3. \A d \in Clients, j \in Invites : HoldsInvite(d, j)' => invite'[j].state = "open"
    BY <1>6, <2>1, <2>2 DEF OnboardingInv, InvitesInv
  <2>4. \A d, e \in Clients, j \in Invites : HoldsInvite(d, j)' /\ HoldsInvite(e, j)' => d = e
    BY <2>1 DEF OnboardingInv, InvitesInv
  <2>5. \A j \in Invites : invite'[j].state # "redeemed" => invite'[j].by = NoOne
    BY <1>6 DEF OnboardingInv, InvitesInv
  <2>6. \A j \in Invites : told'[j] = SettledAs[invite'[j].state]
    <3>1. \A j \in Invites : told[j] = SettledAs[invite[j].state]
      BY DEF OnboardingInv, InvitesInv
    <3>2. SettledAs["redeemed"] = <<"accepted">>
      BY DEF SettledAs
    <3>. QED
      BY <1>6, <1>7, <3>1, <3>2
  <2>. QED
    BY <1>12, <2>3, <2>4, <2>5, <2>6 DEF InvitesInv
<1>14. PetitionsInv'
  BY <1>3, <1>8, <1>9, PetitionsLeft DEF HoldsPetition, Free
<1>. QED
  BY <1>9, <1>11, <1>13, <1>14 DEF OnboardingInv

------------------------------------------------------------------------------
(* A request is made by somebody who has no other one pending.             *)
LEMMA PetitionKeepsInv ==
    ASSUME OnboardingInv, NEW c \in Clients, NEW q \in Petitions, insertOrganizationCreationRequest(c, q)
    PROVE  OnboardingInv'
<1>1. PICK p \in People : client[c].who = p /\ client[c].op = "petition"
  BY DEF OnboardingInv, ClientsFit, RecordFits, insertOrganizationCreationRequest
<1>. DEFINE asked == [petition[q] EXCEPT !.state = "pending", !.by = p]
<1>2. /\ petition[q].state = "none" /\ ~HasPending(p)
      /\ petition' = [petition EXCEPT ![q] = asked]
      /\ client' = [client EXCEPT ![c] = Free]
      /\ UNCHANGED <<invite, inviteLapsed, homeRole, loginOf, entered, organizationOf, taken, told>>
  BY <1>1 DEF insertOrganizationCreationRequest, inviteVars
<1>3. petition \in [Petitions -> PetitionRecords]
  BY DEF OnboardingInv, Shape
<1>4. /\ asked \in PetitionRecords /\ asked.state = "pending" /\ asked.by = p /\ asked.made = petition[q].made
  <2>1. petition[q] \in PetitionRecords
    BY <1>3
  <2>. QED
    BY <2>1 DEF PetitionRecords
<1>. HIDE DEF asked
<1>5. /\ petition' \in [Petitions -> PetitionRecords]
      /\ petition'[q].state = "pending" /\ petition'[q].by = p /\ petition'[q].made = {}
      /\ \A t \in Petitions \ {q} : petition'[t] = petition[t]
      /\ told'[q] = <<>>
  BY <1>2, <1>3, <1>4 DEF OnboardingInv, PetitionsInv, DecidedAs
<1>6. ClientsFit' /\ client'[c] = Free /\ \A d \in Clients \ {c} : client'[d] = client[d]
  BY <1>2, FreeFits, TurnLeaves DEF OnboardingInv
<1>7. Shape'
  BY <1>2, <1>5 DEF OnboardingInv, Shape
<1>8. InvitesInv'
  BY <1>2, <1>6, InvitesLeft DEF HoldsInvite, Free
<1>9. PetitionsInv'
  <2>1. \A d \in Clients, t \in Petitions : HoldsPetition(d, t)' => d # c /\ HoldsPetition(d, t)
    BY <1>6 DEF HoldsPetition, Free
  <2>2. \A d \in Clients, t \in Petitions : HoldsPetition(d, t)' => t # q
    BY <1>2, <2>1 DEF OnboardingInv, PetitionsInv
  <2>3. ASSUME NEW d \in Clients, NEW t \in Petitions, HoldsPetition(d, t)'
        PROVE  /\ petition'[t].state = "pending" /\ petition'[t].by = client'[d].who
               /\ \A s \in Slugs : organizationOf'[s] # client'[d].who
    <3>1. d # c /\ HoldsPetition(d, t) /\ t # q
      BY <2>1, <2>2, <2>3
    <3>. QED
      BY <1>2, <1>5, <1>6, <3>1 DEF OnboardingInv, PetitionsInv
  <2>4. \A d, e \in Clients, t \in Petitions : HoldsPetition(d, t)' /\ HoldsPetition(e, t)' => d = e
    BY <2>1 DEF OnboardingInv, PetitionsInv
  <2>5. ASSUME NEW t \in Petitions, NEW r \in Petitions, petition'[t].state = "pending",
               petition'[r].state = "pending", petition'[t].by = petition'[r].by
        PROVE  t = r
    BY <1>2, <1>5, <2>5 DEF OnboardingInv, PetitionsInv, HasPending
  <2>6. ASSUME NEW t \in Petitions
        PROVE  /\ told'[t] = DecidedAs[petition'[t].state]
               /\ petition'[t].state = "pending" => petition'[t].by \in People
               /\ petition'[t].state # "approved" => petition'[t].made = {}
               /\ petition'[t].state = "approved" => \E s \in Slugs : petition'[t].made = {s}
    <3>1. CASE t = q
      BY <1>5, <3>1 DEF DecidedAs
    <3>2. CASE t # q
      BY <1>2, <1>5, <3>2 DEF OnboardingInv, PetitionsInv
    <3>. QED
      BY <3>1, <3>2
  <2>7. \A s, t \in Slugs : organizationOf'[s] = organizationOf'[t] /\ organizationOf'[s] # NoOne => s = t
    BY <1>2 DEF OnboardingInv, PetitionsInv
  <2>. QED
    BY <2>3, <2>4, <2>5, <2>6, <2>7 DEF PetitionsInv
<1>. QED
  BY <1>6, <1>7, <1>8, <1>9 DEF OnboardingInv

(* A request nobody approves is rejected.                                  *)
LEMMA RejectKeepsInv ==
    ASSUME OnboardingInv, NEW c \in Clients, NEW q \in Petitions, rejectOrganizationCreationRequest(c, q)
    PROVE  OnboardingInv'
<1>. DEFINE refused == [petition[q] EXCEPT !.state = "rejected"]
<1>1. /\ petition[q].state = "pending" /\ PetitionFree(q) /\ Tell(q, "rejected")
      /\ petition' = [petition EXCEPT ![q] = refused]
      /\ UNCHANGED <<invite, inviteLapsed, homeRole, loginOf, entered, organizationOf, taken, client>>
  BY DEF rejectOrganizationCreationRequest, StillPending, inviteVars
<1>2. /\ petition \in [Petitions -> PetitionRecords] /\ told \in [Invites \cup Petitions -> Seq(Outcomes)]
      /\ told[q] = <<>> /\ petition[q].made = {}
  BY <1>1 DEF OnboardingInv, Shape, PetitionsInv, DecidedAs
<1>3. refused \in PetitionRecords /\ refused.state = "rejected" /\ refused.made = {}
  <2>1. petition[q] \in PetitionRecords
    BY <1>2
  <2>. QED
    BY <1>2, <2>1 DEF PetitionRecords
<1>. HIDE DEF refused
<1>4. /\ petition' \in [Petitions -> PetitionRecords]
      /\ petition'[q].state = "rejected" /\ petition'[q].made = {}
      /\ \A t \in Petitions \ {q} : petition'[t] = petition[t]
  BY <1>1, <1>2, <1>3
<1>5. /\ told' \in [Invites \cup Petitions -> Seq(Outcomes)]
      /\ told'[q] = <<"rejected">>
      /\ \A y \in (Invites \cup Petitions) \ {q} : told'[y] = told[y]
  BY <1>1, <1>2, TellOnce DEF Outcomes
<1>6. \A i \in Invites : told'[i] = told[i]
  BY <1>5, OnboardingConstantsOK
<1>7. ClientsFit'
  BY <1>1 DEF OnboardingInv, ClientsFit
<1>8. Shape'
  BY <1>1, <1>4, <1>5 DEF OnboardingInv, Shape
<1>9. InvitesInv'
  BY <1>1, <1>6, InvitesLeft DEF HoldsInvite
<1>10. PetitionsInv'
  <2>1. \A d \in Clients, t \in Petitions : HoldsPetition(d, t)' => HoldsPetition(d, t) /\ t # q
    BY <1>1 DEF HoldsPetition, PetitionFree
  <2>2. ASSUME NEW d \in Clients, NEW t \in Petitions, HoldsPetition(d, t)'
        PROVE  /\ petition'[t].state = "pending" /\ petition'[t].by = client'[d].who
               /\ \A s \in Slugs : organizationOf'[s] # client'[d].who
    <3>1. HoldsPetition(d, t) /\ t # q
      BY <2>1, <2>2
    <3>. QED
      BY <1>1, <1>4, <3>1 DEF OnboardingInv, PetitionsInv
  <2>3. \A d, e \in Clients, t \in Petitions : HoldsPetition(d, t)' /\ HoldsPetition(e, t)' => d = e
    BY <2>1 DEF OnboardingInv, PetitionsInv
  <2>4. \A t, r \in Petitions :
            petition'[t].state = "pending" /\ petition'[r].state = "pending" /\ petition'[t].by = petition'[r].by => t = r
    BY <1>4 DEF OnboardingInv, PetitionsInv
  <2>5. ASSUME NEW t \in Petitions
        PROVE  /\ told'[t] = DecidedAs[petition'[t].state]
               /\ petition'[t].state = "pending" => petition'[t].by \in People
               /\ petition'[t].state # "approved" => petition'[t].made = {}
               /\ petition'[t].state = "approved" => \E s \in Slugs : petition'[t].made = {s}
    <3>1. CASE t = q
      BY <1>4, <1>5, <3>1 DEF DecidedAs
    <3>2. CASE t # q
      <4>1. petition'[t] = petition[t] /\ told'[t] = told[t]
        BY <1>4, <1>5, <3>2
      <4>. QED
        BY <4>1 DEF OnboardingInv, PetitionsInv
    <3>. QED
      BY <3>1, <3>2
  <2>6. \A s, t \in Slugs : organizationOf'[s] = organizationOf'[t] /\ organizationOf'[s] # NoOne => s = t
    BY <1>1 DEF OnboardingInv, PetitionsInv
  <2>. QED
    BY <2>2, <2>3, <2>4, <2>5, <2>6 DEF PetitionsInv
<1>. QED
  BY <1>7, <1>8, <1>9, <1>10 DEF OnboardingInv

(* The approval makes one organization, for somebody who owned none; any   *)
(* other approval that runs is for somebody else.                          *)
LEMMA ApproveKeepsInv ==
    ASSUME OnboardingInv, NEW c \in Clients, approveOrganizationCreationRequest(c)
    PROVE  OnboardingInv'
<1>1. PICK q \in Petitions, s \in Slugs, p \in People :
          HoldsPetition(c, q) /\ client[c].what = q /\ client[c].with = s /\ client[c].who = p
  BY DEF OnboardingInv, ClientsFit, RecordFits, HoldsPetition, approveOrganizationCreationRequest
<1>. DEFINE granted == [petition[q] EXCEPT !.state = "approved", !.made = petition[q].made \cup {s}]
<1>2. /\ taken' = taken \cup {s}
      /\ organizationOf' = [organizationOf EXCEPT ![s] = p]
      /\ petition' = [petition EXCEPT ![q] = granted]
      /\ Tell(q, "approved")
      /\ client' = [client EXCEPT ![c] = Free]
      /\ UNCHANGED <<invite, inviteLapsed, homeRole, loginOf, entered>>
  <2>1. petition' = [petition EXCEPT ![q].state = "approved", ![q].made = @ \cup {s}]
    BY <1>1 DEF approveOrganizationCreationRequest
  <2>2. petition \in [Petitions -> PetitionRecords]
    BY DEF OnboardingInv, Shape
  <2>3. petition' = [petition EXCEPT ![q] = granted]
    BY <2>1, <2>2 DEF PetitionRecords
  <2>. QED
    BY <1>1, <2>3 DEF approveOrganizationCreationRequest, inviteVars
<1>3. /\ petition \in [Petitions -> PetitionRecords] /\ told \in [Invites \cup Petitions -> Seq(Outcomes)]
      /\ organizationOf \in [Slugs -> People \cup {NoOne}] /\ taken \subseteq Slugs
  BY DEF OnboardingInv, Shape
<1>4. /\ petition[q].state = "pending" /\ petition[q].by = p
      /\ \A t \in Slugs : organizationOf[t] # p
  BY <1>1 DEF OnboardingInv, PetitionsInv
<1>5. told[q] = <<>> /\ petition[q].made = {}
  BY <1>4 DEF OnboardingInv, PetitionsInv, DecidedAs
<1>6. granted \in PetitionRecords /\ granted.state = "approved" /\ granted.made = {s}
  <2>1. petition[q] \in PetitionRecords
    BY <1>3
  <2>. QED
    BY <1>5, <2>1 DEF PetitionRecords
<1>. HIDE DEF granted
<1>7. /\ petition' \in [Petitions -> PetitionRecords]
      /\ petition'[q].state = "approved" /\ petition'[q].made = {s}
      /\ \A t \in Petitions \ {q} : petition'[t] = petition[t]
  BY <1>2, <1>3, <1>6
<1>8. /\ told' \in [Invites \cup Petitions -> Seq(Outcomes)]
      /\ told'[q] = <<"approved">>
      /\ \A y \in (Invites \cup Petitions) \ {q} : told'[y] = told[y]
  BY <1>2, <1>3, <1>5, TellOnce DEF Outcomes
<1>9. \A i \in Invites : told'[i] = told[i]
  BY <1>8, OnboardingConstantsOK
<1>10. ClientsFit' /\ client'[c] = Free /\ \A d \in Clients \ {c} : client'[d] = client[d]
  BY <1>2, FreeFits, TurnLeaves DEF OnboardingInv
<1>11. /\ organizationOf' \in [Slugs -> People \cup {NoOne}] /\ taken' \subseteq Slugs
       /\ organizationOf'[s] = p /\ \A t \in Slugs \ {s} : organizationOf'[t] = organizationOf[t]
  BY <1>2, <1>3
<1>12. Shape'
  BY <1>2, <1>7, <1>8, <1>11 DEF OnboardingInv, Shape
<1>13. InvitesInv'
  BY <1>2, <1>9, <1>10, InvitesLeft DEF HoldsInvite, Free
<1>14. PetitionsInv'
  <2>1. \A d \in Clients, t \in Petitions : HoldsPetition(d, t)' => d # c /\ HoldsPetition(d, t)
    BY <1>10 DEF HoldsPetition, Free
  <2>2. \A d \in Clients, t \in Petitions : HoldsPetition(d, t)' => t # q
    BY <1>1, <2>1 DEF OnboardingInv, PetitionsInv
  <2>3. ASSUME NEW d \in Clients, NEW t \in Petitions, HoldsPetition(d, t)'
        PROVE  /\ petition'[t].state = "pending" /\ petition'[t].by = client'[d].who
               /\ \A u \in Slugs : organizationOf'[u] # client'[d].who
    <3>1. d # c /\ HoldsPetition(d, t) /\ t # q
      BY <2>1, <2>2, <2>3
    <3>2. /\ petition[t].state = "pending" /\ petition[t].by = client[d].who
          /\ \A u \in Slugs : organizationOf[u] # client[d].who
      BY <3>1 DEF OnboardingInv, PetitionsInv
    <3>3. client[d].who # p
      BY <1>4, <3>1, <3>2 DEF OnboardingInv, PetitionsInv
    <3>. QED
      BY <1>7, <1>10, <1>11, <3>1, <3>2, <3>3
  <2>4. \A d, e \in Clients, t \in Petitions : HoldsPetition(d, t)' /\ HoldsPetition(e, t)' => d = e
    BY <2>1 DEF OnboardingInv, PetitionsInv
  <2>5. \A t, r \in Petitions :
            petition'[t].state = "pending" /\ petition'[r].state = "pending" /\ petition'[t].by = petition'[r].by => t = r
    BY <1>7 DEF OnboardingInv, PetitionsInv
  <2>6. ASSUME NEW t \in Petitions
        PROVE  /\ told'[t] = DecidedAs[petition'[t].state]
               /\ petition'[t].state = "pending" => petition'[t].by \in People
               /\ petition'[t].state # "approved" => petition'[t].made = {}
               /\ petition'[t].state = "approved" => \E u \in Slugs : petition'[t].made = {u}
    <3>1. CASE t = q
      BY <1>7, <1>8, <3>1 DEF DecidedAs
    <3>2. CASE t # q
      BY <1>7, <1>8, <3>2 DEF OnboardingInv, PetitionsInv
    <3>. QED
      BY <3>1, <3>2
  <2>7. \A u, t \in Slugs : organizationOf'[u] = organizationOf'[t] /\ organizationOf'[u] # NoOne => u = t
    BY <1>4, <1>11 DEF OnboardingInv, PetitionsInv
  <2>. QED
    BY <2>3, <2>4, <2>5, <2>6, <2>7 DEF PetitionsInv
<1>. QED
  BY <1>10, <1>12, <1>13, <1>14 DEF OnboardingInv

------------------------------------------------------------------------------
LEMMA StepOnboarding == OnboardingInv /\ [OnboardingNext]_onboardingVars => OnboardingInv'
<1>. SUFFICES ASSUME OnboardingInv, [OnboardingNext]_onboardingVars PROVE OnboardingInv'
  OBVIOUS
<1>1. CASE UNCHANGED onboardingVars
  <2>1. UNCHANGED <<invite, inviteLapsed, homeRole, loginOf, entered, petition, organizationOf, taken, client, told>>
    BY <1>1 DEF onboardingVars, inviteVars, petitionVars
  <2>2. Shape
    BY DEF OnboardingInv
  <2>. QED
    BY <2>1, <2>2, QuietRows DEF Shape
<1>2. ASSUME NEW i \in Invites, InviteStep(i) PROVE OnboardingInv'
  BY <1>2, QuietKeepsInv, IssueKeepsInv, RevokeKeepsInv, AcceptanceBegins DEF InviteStep
<1>3. ASSUME NEW p \in People, LeaveHome(p) \/ \E c \in Clients : CheckPetitioner(c, p) PROVE OnboardingInv'
  BY <1>3, QuietKeepsInv
<1>4. ASSUME NEW s \in Slugs, createOrganizationForSession(s) PROVE OnboardingInv'
  BY <1>4, QuietKeepsInv
<1>5. ASSUME NEW c \in Clients,
             \/ Withdraw(c) \/ LockInviteForPassword(c)
             \/ acceptOrganizationInviteWithLocalCredential(c) \/ acceptOrganizationInviteWithOidc(c)
             \/ approveOrganizationCreationRequest(c)
      PROVE  OnboardingInv'
  BY <1>5, QuietKeepsInv, AcceptanceBegins, AcceptKeepsInv, ApproveKeepsInv
<1>6. ASSUME NEW c \in Clients, NEW q \in Petitions, PetitionStep(c, q) PROVE OnboardingInv'
  BY <1>6, PetitionKeepsInv, RejectKeepsInv, ApprovalBegins DEF PetitionStep
<1>. QED
  BY <1>1, <1>2, <1>3, <1>4, <1>5, <1>6 DEF OnboardingNext

LEMMA OnboardingInvHolds == OnboardingSpec => []OnboardingInv
BY InitOnboarding, StepOnboarding, PTL DEF OnboardingSpec

(* Every row and every client stays what it is, and nobody enters the      *)
(* inviting organization more often than there are invites.                *)
THEOREM OnboardingTypeCorrect == OnboardingSpec => []OnboardingTypeOK
<1>1. OnboardingInv => OnboardingTypeOK
  <2>. SUFFICES ASSUME OnboardingInv PROVE OnboardingTypeOK
    OBVIOUS
  <2>1. \A c \in Clients : client[c].op \in ClientOps
    BY DEF OnboardingInv, ClientsFit, ClientRecords
  <2>2. entered \in [People -> 0 .. Cardinality(Invites)]
    <3>1. \A p \in People : EnteredBy(p) \subseteq Invites
      BY DEF EnteredBy
    <3>2. \A p \in People : Cardinality(EnteredBy(p)) <= Cardinality(Invites)
      BY <3>1, FS_Subset, OnboardingConstantsOK
    <3>3. \A p \in People : entered[p] \in Nat /\ entered[p] = Cardinality(EnteredBy(p))
      BY DEF OnboardingInv, Shape, InvitesInv
    <3>4. Cardinality(Invites) \in Nat
      BY FS_CardinalityType, OnboardingConstantsOK
    <3>5. \A p \in People : entered[p] \in 0 .. Cardinality(Invites)
      BY <3>2, <3>3, <3>4
    <3>. QED
      BY <3>5 DEF OnboardingInv, Shape
  <2>. QED
    BY <2>1, <2>2 DEF OnboardingInv, Shape, OnboardingTypeOK, ClientOps, InviteRecords, PetitionRecords
<1>. QED
  BY <1>1, OnboardingInvHolds, PTL

(* An invite is used up by the one acceptance that makes a member with it, *)
(* or revoked, and answered so once; nobody becomes a member without one:  *)
(* the update that uses an invite up cannot fail under the lock, although  *)
(* the acceptance with a password would commit the membership if it did.   *)
THEOREM InviteSettlesOnce == OnboardingSpec => []InviteSettledOnce
<1>1. OnboardingInv => InviteSettledOnce
  <2>. SUFFICES ASSUME OnboardingInv PROVE InviteSettledOnce
    OBVIOUS
  <2>1. ASSUME NEW i \in Invites
        PROVE  /\ Len(told[i]) <= 1
               /\ told[i] = <<"accepted">> => invite[i].state = "redeemed"
               /\ told[i] = <<"revoked">> => invite[i].state = "revoked"
    <3>1. told[i] = SettledAs[invite[i].state]
      BY DEF OnboardingInv, InvitesInv
    <3>2. invite[i].state \in {"none", "open", "revoked", "redeemed"}
      BY DEF OnboardingInv, Shape, InviteRecords
    <3>3. CASE invite[i].state \in {"none", "open"}
      <4>1. told[i] = <<>>
        BY <3>1, <3>3 DEF SettledAs
      <4>. QED
        BY <4>1
    <3>4. CASE invite[i].state = "revoked"
      <4>1. told[i] = <<"revoked">>
        BY <3>1, <3>4 DEF SettledAs
      <4>. QED
        BY <3>4, <4>1
    <3>5. CASE invite[i].state = "redeemed"
      <4>1. told[i] = <<"accepted">>
        BY <3>1, <3>5 DEF SettledAs
      <4>. QED
        BY <3>5, <4>1
    <3>. QED
      BY <3>2, <3>3, <3>4, <3>5
  <2>2. \A p \in People : entered[p] = Cardinality({i \in Invites : invite[i].by = p})
    BY DEF OnboardingInv, InvitesInv, EnteredBy
  <2>. QED
    BY <2>1, <2>2 DEF InviteSettledOnce
<1>. QED
  BY <1>1, OnboardingInvHolds, PTL

(* A request is decided once, an approval makes exactly one organization,  *)
(* and nobody comes to own two by approvals.                               *)
THEOREM PetitionDecidesOnce == OnboardingSpec => []PetitionDecidedOnce
<1>1. OnboardingInv => PetitionDecidedOnce
  <2>. SUFFICES ASSUME OnboardingInv PROVE PetitionDecidedOnce
    OBVIOUS
  <2>1. ASSUME NEW q \in Petitions
        PROVE  /\ Len(told[q]) <= 1
               /\ \A n \in 1 .. Len(told[q]) : petition[q].state = told[q][n]
               /\ Cardinality(petition[q].made) = (IF petition[q].state = "approved" THEN 1 ELSE 0)
    <3>1. told[q] = DecidedAs[petition[q].state]
      BY DEF OnboardingInv, PetitionsInv
    <3>2. petition[q].state \in {"none", "pending", "approved", "rejected"}
      BY DEF OnboardingInv, Shape, PetitionRecords
    <3>3. Len(told[q]) <= 1 /\ \A n \in 1 .. Len(told[q]) : petition[q].state = told[q][n]
      <4>1. CASE petition[q].state \in {"none", "pending"}
        <5>1. told[q] = <<>>
          BY <3>1, <4>1 DEF DecidedAs
        <5>. QED
          BY <5>1
      <4>2. CASE petition[q].state \in {"approved", "rejected"}
        <5>1. told[q] = <<petition[q].state>>
          BY <3>1, <4>2 DEF DecidedAs
        <5>. QED
          BY <5>1
      <4>. QED
        BY <3>2, <4>1, <4>2
    <3>4. CASE petition[q].state = "approved"
      <4>1. PICK s \in Slugs : petition[q].made = {s}
        BY <3>4 DEF OnboardingInv, PetitionsInv
      <4>2. Cardinality(petition[q].made) = 1
        BY <4>1, FS_Singleton
      <4>. QED
        BY <3>3, <3>4, <4>2
    <3>5. CASE petition[q].state # "approved"
      <4>1. petition[q].made = {}
        BY <3>5 DEF OnboardingInv, PetitionsInv
      <4>2. Cardinality(petition[q].made) = 0
        BY <4>1, FS_EmptySet
      <4>. QED
        BY <3>3, <3>5, <4>2
    <3>. QED
      BY <3>4, <3>5
  <2>. QED
    BY <2>1 DEF PetitionDecidedOnce, OnboardingInv, PetitionsInv
<1>. QED
  BY <1>1, OnboardingInvHolds, PTL

------------------------------------------------------------------------------
(***************************************************************************)
(* Profiles and the trail of their changes.                                *)
(***************************************************************************)

ThirdPartyRoles == {"manager", "owner", "global_admin"}

EditRecords ==
    {NoEdit, Refused, Done}
    \cup [step : {"read"}, kind : EditKinds, before : Overrides, next : Overrides,
          role : ThirdPartyRoles \cup {"none"}]

(* An edit of the user's profile writes values only, and a third party has *)
(* one of the roles that allow it.                                         *)
EditsFit ==
    /\ edit \in [ProfileEdits -> EditRecords]
    /\ \A e \in RunningEdits :
        /\ edit[e].kind = "global" => edit[e].next \in [ProfileFields -> ProfileValues]
        /\ edit[e].kind = "forced" => edit[e].role \in ThirdPartyRoles

(* Every event is that of an edit which has been made.                     *)
TrailIsOfDone == DOMAIN trail \subseteq ProfileEdits /\ \A e \in DOMAIN trail : edit[e].step = "done"

(* An edit of the overrides knows the row, but for the fields that others  *)
(* have changed since it read it.                                          *)
ReadsCurrent ==
    \A e \in RunningEdits : edit[e].kind # "global" =>
        \A f \in ProfileFields \ overtaken[e] : edit[e].before[f] = override[f]

ProfilesInv ==
    /\ ProfilesTypeOK
    /\ EditsFit
    /\ TrailIsOfDone
    /\ ReadsCurrent
    /\ TrailNamesAuthors

------------------------------------------------------------------------------
LEMMA InitProfiles == ProfilesInit => ProfilesInv
<1>. SUFFICES ASSUME ProfilesInit PROVE ProfilesInv
  OBVIOUS
<1>1. /\ edit = [e \in ProfileEdits |-> NoEdit] /\ DOMAIN trail = {}
      /\ \A e \in ProfileEdits : edit[e].step = "idle"
      /\ author = [f \in ProfileFields |-> NoAuthor]
  BY DEF ProfilesInit, NoEdit
<1>2. (CHOOSE v \in ProfileValues : TRUE) \in ProfileValues
  BY ProfileConstantsOK
<1>3. ProfilesTypeOK
  BY <1>1, <1>2 DEF ProfilesInit, ProfilesTypeOK, RunningEdits, Overrides
<1>4. EditsFit
  BY <1>1 DEF EditsFit, EditRecords, RunningEdits
<1>. QED
  BY <1>1, <1>3, <1>4
  DEF ProfilesInv, TrailIsOfDone, ReadsCurrent, RunningEdits, TrailNamesAuthors

(* Laying the fields of a request over a row.                              *)
LEMMA LaidType ==
    ASSUME NEW V, NEW payload \in EditPayloads(V), NEW row \in [ProfileFields -> V]
    PROVE  Laid(payload, row) \in [ProfileFields -> V]
BY DEF Laid, EditPayloads

(* A request that reads a row starts an edit.                              *)
LEMMA StartKeepsInv ==
    ASSUME ProfilesInv, NEW e \in ProfileEdits, edit[e].step = "idle",
           NEW kind \in EditKinds, NEW row \in Overrides, NEW payload, NEW role \in ThirdPartyRoles \cup {"none"},
           Laid(payload, row) \in Overrides,
           kind = "global" => Laid(payload, row) \in [ProfileFields -> ProfileValues],
           kind # "global" => row = override,
           kind = "forced" => role \in ThirdPartyRoles,
           StartEdit(e, kind, row, payload, role)
    PROVE  ProfilesInv'
<1>. DEFINE new == [step |-> "read", kind |-> kind, before |-> row, next |-> Laid(payload, row), role |-> role]
<1>. USE DEF ProfilesInv
<1>1. /\ edit' = [edit EXCEPT ![e] = new]
      /\ UNCHANGED <<globalProfile, override, standingOf, trail, author, overtaken>>
  BY DEF StartEdit
<1>2. new \in EditRecords
  BY DEF EditRecords
<1>3. /\ new.step = "read" /\ new.kind = kind /\ new.before = row /\ new.next = Laid(payload, row)
      /\ new.role = role
  OBVIOUS
<1>. HIDE DEF new
<1>4. /\ edit' \in [ProfileEdits -> EditRecords]
      /\ edit'[e] = new /\ \A d \in ProfileEdits \ {e} : edit'[d] = edit[d]
  BY <1>1, <1>2 DEF EditsFit
<1>5. RunningEdits' = RunningEdits \cup {e} /\ e \notin RunningEdits
  BY <1>3, <1>4 DEF RunningEdits
<1>7. ProfilesTypeOK'
  BY <1>1, <1>3, <1>4, <1>5 DEF ProfilesTypeOK
<1>8. EditsFit'
  BY <1>3, <1>4, <1>5 DEF EditsFit, RunningEdits
<1>9. TrailIsOfDone'
  BY <1>1, <1>4 DEF TrailIsOfDone
<1>10. ReadsCurrent'
  BY <1>1, <1>3, <1>4, <1>5 DEF ReadsCurrent, RunningEdits
<1>11. TrailNamesAuthors'
  BY <1>1 DEF TrailNamesAuthors
<1>. QED
  BY <1>7, <1>8, <1>9, <1>10, <1>11

(* An edit that ends without an event: it is refused, or it was of the     *)
(* user's own.                                                             *)
EndedAs(e, end) == edit' = [edit EXCEPT ![e] = end]

LEMMA EndsEdit ==
    ASSUME ProfilesInv, NEW e \in ProfileEdits, NEW end \in {Refused, Done}, EndedAs(e, end)
    PROVE  /\ edit' \in [ProfileEdits -> EditRecords]
           /\ edit'[e] = end /\ \A d \in ProfileEdits \ {e} : edit'[d] = edit[d]
           /\ RunningEdits' = RunningEdits \ {e}
           /\ EditsFit'
<1>1. /\ edit' \in [ProfileEdits -> EditRecords]
      /\ edit'[e] = end /\ \A d \in ProfileEdits \ {e} : edit'[d] = edit[d]
  BY DEF ProfilesInv, EditsFit, EndedAs, EditRecords
<1>2. end.step # "read"
  BY DEF Refused, Done
<1>3. RunningEdits' = RunningEdits \ {e}
  BY <1>1, <1>2 DEF RunningEdits
<1>4. \A d \in RunningEdits' : d \in RunningEdits /\ edit'[d] = edit[d]
  BY <1>1, <1>3 DEF RunningEdits
<1>5. EditsFit'
  BY <1>1, <1>4 DEF ProfilesInv, EditsFit
<1>. QED
  BY <1>1, <1>3, <1>5

LEMMA RefuseKeepsInv ==
    ASSUME ProfilesInv, NEW e \in ProfileEdits, edit[e].step = "idle", RefuseEdit(e)
    PROVE  ProfilesInv'
<1>. USE DEF ProfilesInv
<1>1. EndedAs(e, Refused) /\ UNCHANGED <<globalProfile, override, standingOf, trail, author, overtaken>>
  BY DEF RefuseEdit, EndedAs
<1>2. /\ edit' \in [ProfileEdits -> EditRecords]
      /\ edit'[e] = Refused /\ \A d \in ProfileEdits \ {e} : edit'[d] = edit[d]
      /\ RunningEdits' = RunningEdits \ {e}
      /\ EditsFit'
  BY <1>1, EndsEdit
<1>3. ProfilesTypeOK'
  <2>1. \A d \in ProfileEdits : edit'[d].step \in {"idle", "read", "refused", "done"}
    BY <1>2 DEF ProfilesTypeOK, Refused
  <2>2. \A d \in RunningEdits' : d \in RunningEdits /\ edit'[d] = edit[d]
    BY <1>2 DEF RunningEdits
  <2>. QED
    BY <1>1, <2>1, <2>2 DEF ProfilesTypeOK
<1>4. TrailIsOfDone'
  BY <1>1, <1>2 DEF TrailIsOfDone
<1>5. ReadsCurrent'
  BY <1>1, <1>2 DEF ReadsCurrent, RunningEdits
<1>6. TrailNamesAuthors'
  BY <1>1 DEF TrailNamesAuthors
<1>. QED
  BY <1>2, <1>3, <1>4, <1>5, <1>6

LEMMA UserProfileKeepsInv ==
    ASSUME ProfilesInv, NEW e \in ProfileEdits, updateMyUserProfile(e)
    PROVE  ProfilesInv'
<1>. USE DEF ProfilesInv
<1>1. /\ EndedAs(e, Done) /\ UNCHANGED <<override, standingOf, trail, author, overtaken>>
      /\ e \in RunningEdits /\ edit[e].kind = "global" /\ globalProfile' = edit[e].next
  BY DEF updateMyUserProfile, EndedAs, RunningEdits
<1>2. /\ edit' \in [ProfileEdits -> EditRecords]
      /\ edit'[e] = Done /\ \A d \in ProfileEdits \ {e} : edit'[d] = edit[d]
      /\ RunningEdits' = RunningEdits \ {e}
      /\ EditsFit'
  BY <1>1, EndsEdit
<1>3. ProfilesTypeOK'
  <2>1. \A d \in ProfileEdits : edit'[d].step \in {"idle", "read", "refused", "done"}
    BY <1>2 DEF ProfilesTypeOK, Done
  <2>2. \A d \in RunningEdits' : d \in RunningEdits /\ edit'[d] = edit[d]
    BY <1>2 DEF RunningEdits
  <2>. QED
    BY <1>1, <2>1, <2>2 DEF ProfilesTypeOK, EditsFit
<1>4. TrailIsOfDone'
  BY <1>1, <1>2 DEF TrailIsOfDone, Done
<1>5. ReadsCurrent'
  BY <1>1, <1>2 DEF ReadsCurrent, RunningEdits
<1>6. TrailNamesAuthors'
  BY <1>1 DEF TrailNamesAuthors
<1>. QED
  BY <1>2, <1>3, <1>4, <1>5, <1>6

(* An edit of the overrides: what others have read afterwards, and whose   *)
(* the values are.                                                         *)
LEMMA MemberProfileStep ==
    ASSUME ProfilesInv, NEW e \in RunningEdits, updateMemberProfile(e),
           NEW by \in ProfileEdits \cup {NoAuthor}, author' = AuthorOf(e, by)
    PROVE  /\ EditsFit' /\ ReadsCurrent'
           /\ RunningEdits' = RunningEdits \ {e} /\ e \in ProfileEdits
           /\ edit'[e] = Done /\ \A d \in ProfileEdits \ {e} : edit'[d] = edit[d]
           /\ override' \in Overrides
           /\ author' \in [ProfileFields -> ProfileEdits \cup {NoAuthor}]
           /\ overtaken' \in [ProfileEdits -> SUBSET ProfileFields]
           /\ \A d \in ProfileEdits : overtaken[d] \subseteq overtaken'[d]
           /\ UNCHANGED <<globalProfile, standingOf>>
<1>1. /\ EndedAs(e, Done) /\ e \in ProfileEdits /\ override' = edit[e].next
      /\ UNCHANGED <<globalProfile, standingOf>>
  BY DEF updateMemberProfile, EndedAs, RunningEdits
<1>2. /\ edit'[e] = Done /\ \A d \in ProfileEdits \ {e} : edit'[d] = edit[d]
      /\ RunningEdits' = RunningEdits \ {e}
      /\ EditsFit'
  BY <1>1, EndsEdit
<1>3. override' \in Overrides /\ author' \in [ProfileFields -> ProfileEdits \cup {NoAuthor}]
  BY <1>1 DEF ProfilesInv, ProfilesTypeOK, AuthorOf
<1>4. overtaken' = [d \in ProfileEdits |->
                      IF d \in RunningEdits \ {e} THEN overtaken[d] \cup FieldsReplaced(e) ELSE overtaken[d]]
  BY DEF updateMemberProfile
<1>5. overtaken \in [ProfileEdits -> SUBSET ProfileFields] /\ FieldsReplaced(e) \subseteq ProfileFields
  BY DEF ProfilesInv, ProfilesTypeOK, FieldsReplaced
<1>6. overtaken' \in [ProfileEdits -> SUBSET ProfileFields]
  BY <1>4, <1>5
<1>7. \A d \in ProfileEdits : overtaken[d] \subseteq overtaken'[d]
  BY <1>4, <1>5
<1>8. ReadsCurrent'
  <2>1. SUFFICES ASSUME NEW d \in RunningEdits', edit'[d].kind # "global",
                        NEW f \in ProfileFields, f \notin overtaken'[d]
                 PROVE  edit'[d].before[f] = override'[f]
    BY DEF ReadsCurrent
  <2>2. d \in RunningEdits \ {e} /\ d \in ProfileEdits /\ edit'[d] = edit[d]
    BY <1>2 DEF RunningEdits
  <2>3. f \notin overtaken[d] /\ f \notin FieldsReplaced(e)
    BY <1>4, <2>1, <2>2
  <2>4. edit[d].before[f] = override[f]
    BY <2>1, <2>2, <2>3 DEF ProfilesInv, ReadsCurrent
  <2>5. override'[f] = override[f]
    BY <1>1, <2>3 DEF FieldsReplaced
  <2>. QED
    BY <2>2, <2>4, <2>5
<1>. QED
  BY <1>1, <1>2, <1>3, <1>6, <1>7, <1>8

(* A field is of the edit that changes it, the others stay whose they are. *)
LEMMA AuthorsOfEdit ==
    ASSUME ProfilesInv, NEW e \in RunningEdits, updateMemberProfile(e),
           NEW by \in ProfileEdits \cup {NoAuthor}, author' = AuthorOf(e, by), NEW f \in ProfileFields
    PROVE  /\ f \in FieldsReplaced(e) => author'[f] = by
           /\ f \notin FieldsReplaced(e) => author'[f] = author[f] /\ override'[f] = override[f]
           /\ override'[f] = edit[e].next[f]
BY DEF AuthorOf, updateMemberProfile, FieldsReplaced

LEMMA TypeAfterEdit ==
    ASSUME ProfilesInv, NEW e \in ProfileEdits, edit'[e] = Done,
           \A d \in ProfileEdits \ {e} : edit'[d] = edit[d],
           RunningEdits' = RunningEdits \ {e},
           override' \in Overrides,
           author' \in [ProfileFields -> ProfileEdits \cup {NoAuthor}],
           \A d \in DOMAIN trail' : trail'[d].changed \in (SUBSET ProfileFields) \ {{}},
           overtaken' \in [ProfileEdits -> SUBSET ProfileFields],
           UNCHANGED <<globalProfile, standingOf>>
    PROVE  ProfilesTypeOK'
<1>1. \A d \in ProfileEdits : edit'[d].step \in {"idle", "read", "refused", "done"}
  BY DEF ProfilesInv, ProfilesTypeOK, Done
<1>2. \A d \in RunningEdits' : d \in RunningEdits /\ edit'[d] = edit[d]
  BY DEF RunningEdits
<1>. QED
  BY <1>1, <1>2 DEF ProfilesInv, ProfilesTypeOK

LEMMA OwnOverridesKeepInv ==
    ASSUME ProfilesInv, NEW e \in ProfileEdits, updateMyOrganizationMemberProfile(e)
    PROVE  ProfilesInv'
<1>1. /\ updateMemberProfile(e) /\ e \in RunningEdits /\ edit[e].kind = "self"
      /\ author' = AuthorOf(e, NoAuthor) /\ trail' = trail /\ override' = edit[e].next
  BY DEF updateMyOrganizationMemberProfile, updateMemberProfile, RunningEdits
<1>2. /\ EditsFit' /\ ReadsCurrent'
      /\ RunningEdits' = RunningEdits \ {e}
      /\ edit'[e] = Done /\ \A d \in ProfileEdits \ {e} : edit'[d] = edit[d]
      /\ override' \in Overrides
      /\ author' \in [ProfileFields -> ProfileEdits \cup {NoAuthor}]
      /\ overtaken' \in [ProfileEdits -> SUBSET ProfileFields]
      /\ \A d \in ProfileEdits : overtaken[d] \subseteq overtaken'[d]
      /\ UNCHANGED <<globalProfile, standingOf>>
  BY <1>1, MemberProfileStep
<1>3. ProfilesTypeOK'
  BY <1>1, <1>2, TypeAfterEdit DEF ProfilesInv, ProfilesTypeOK
<1>4. TrailIsOfDone'
  BY <1>1, <1>2 DEF ProfilesInv, TrailIsOfDone, Done
<1>5. TrailNamesAuthors'
  <2>1. ASSUME NEW f \in ProfileFields, author'[f] # NoAuthor
        PROVE  author'[f] = author[f] /\ override'[f] = override[f] /\ author[f] \in ProfileEdits
    BY <1>1, <2>1, AuthorsOfEdit DEF ProfilesInv, ProfilesTypeOK
  <2>. QED
    BY <1>1, <1>2, <2>1 DEF ProfilesInv, TrailNamesAuthors
<1>. QED
  BY <1>2, <1>3, <1>4, <1>5 DEF ProfilesInv

LEMMA ForcedOverridesKeepInv ==
    ASSUME ProfilesInv, NEW e \in ProfileEdits, updateOrganizationMemberProfile(e)
    PROVE  ProfilesInv'
<1>. DEFINE event == [changed |-> ChangedFields(e), before |-> edit[e].before,
                      after |-> edit[e].next, actor_role |-> edit[e].role]
<1>1. /\ updateMemberProfile(e) /\ e \in RunningEdits /\ edit[e].kind = "forced"
      /\ author' = AuthorOf(e, e) /\ override' = edit[e].next
      /\ edit[e].role \in ThirdPartyRoles
  BY DEF updateOrganizationMemberProfile, updateMemberProfile, RunningEdits, ProfilesInv, EditsFit
<1>2. /\ EditsFit' /\ ReadsCurrent'
      /\ RunningEdits' = RunningEdits \ {e}
      /\ edit'[e] = Done /\ \A d \in ProfileEdits \ {e} : edit'[d] = edit[d]
      /\ override' \in Overrides
      /\ author' \in [ProfileFields -> ProfileEdits \cup {NoAuthor}]
      /\ overtaken' \in [ProfileEdits -> SUBSET ProfileFields]
      /\ \A d \in ProfileEdits : overtaken[d] \subseteq overtaken'[d]
      /\ UNCHANGED <<globalProfile, standingOf>>
  BY <1>1, MemberProfileStep
<1>3. e \notin DOMAIN trail
  BY <1>1 DEF ProfilesInv, TrailIsOfDone, RunningEdits
(* What it replaces without noticing is what others changed meanwhile, and *)
(* what was said of a field before.                                        *)
<1>4. \A f \in ProfileFields \ overtaken[e] : edit[e].before[f] = override[f]
  BY <1>1 DEF ProfilesInv, ReadsCurrent
<1>5. ASSUME NEW f \in ProfileFields, author[f] # NoAuthor
      PROVE  /\ author[f] \in ProfileEdits
             /\ f \notin overtaken[author[f]] => author[f] \in DOMAIN trail /\ f \in trail[author[f]].changed
             /\ author[f] \in DOMAIN trail => trail[author[f]].after[f] = override[f]
  BY <1>5 DEF ProfilesInv, ProfilesTypeOK, TrailNamesAuthors
<1>7. CASE ChangedFields(e) = {}
  <2>1. trail' = trail
    BY <1>7 DEF updateOrganizationMemberProfile
  <2>3. ProfilesTypeOK'
    BY <1>2, <2>1, TypeAfterEdit DEF ProfilesInv, ProfilesTypeOK
  <2>4. TrailIsOfDone'
    BY <1>2, <2>1 DEF ProfilesInv, TrailIsOfDone, Done
  <2>5. ASSUME NEW f \in ProfileFields, author'[f] # NoAuthor
        PROVE  /\ f \notin overtaken'[author'[f]] => author'[f] \in DOMAIN trail' /\ f \in trail'[author'[f]].changed
               /\ author'[f] \in DOMAIN trail' => trail'[author'[f]].after[f] = override'[f]
    <3>1. CASE f \in FieldsReplaced(e)
      <4>1. author'[f] = e
        BY <1>1, <3>1, AuthorsOfEdit
      <4>2. f \in overtaken'[e]
        BY <1>1, <1>2, <1>7, <1>4, <3>1 DEF FieldsReplaced, ChangedFields, RunningEdits
      <4>. QED
        BY <1>3, <2>1, <4>1, <4>2
    <3>2. CASE f \notin FieldsReplaced(e)
      BY <1>1, <1>2, <1>5, <2>1, <2>5, <3>2, AuthorsOfEdit
    <3>. QED
      BY <3>1, <3>2
  <2>6. TrailNamesAuthors'
    BY <2>1, <2>5 DEF ProfilesInv, TrailNamesAuthors
  <2>. QED
    BY <1>2, <2>3, <2>4, <2>6 DEF ProfilesInv
<1>8. CASE ChangedFields(e) # {}
  <2>1. /\ DOMAIN trail' = DOMAIN trail \cup {e}
        /\ trail'[e] = event /\ \A d \in DOMAIN trail : trail'[d] = trail[d]
    BY <1>3, <1>8 DEF updateOrganizationMemberProfile
  <2>2. /\ event.changed = ChangedFields(e) /\ event.after = edit[e].next
        /\ event.actor_role = edit[e].role
    OBVIOUS
  <2>. HIDE DEF event
  <2>3. ProfilesTypeOK'
    <3>1. \A d \in DOMAIN trail' : trail'[d].changed \in (SUBSET ProfileFields) \ {{}}
      <4>0. ChangedFields(e) \subseteq ProfileFields
        BY DEF ChangedFields
      <4>1. ChangedFields(e) \in (SUBSET ProfileFields) \ {{}}
        BY <1>8, <4>0
      <4>2. \A d \in DOMAIN trail : trail[d].changed \in (SUBSET ProfileFields) \ {{}}
        BY DEF ProfilesInv, ProfilesTypeOK
      <4>. QED
        BY <2>1, <2>2, <4>1, <4>2
    <3>. QED
      BY <1>2, <3>1, TypeAfterEdit
  <2>4. TrailIsOfDone'
    BY <1>2, <2>1 DEF ProfilesInv, TrailIsOfDone, Done
  <2>5. \A d \in DOMAIN trail' : trail'[d].actor_role \in {"manager", "owner", "global_admin"}
    BY <1>1, <2>1, <2>2 DEF ProfilesInv, TrailNamesAuthors, ThirdPartyRoles
  <2>6. ASSUME NEW f \in ProfileFields, author'[f] # NoAuthor
        PROVE  /\ f \notin overtaken'[author'[f]] => author'[f] \in DOMAIN trail' /\ f \in trail'[author'[f]].changed
               /\ author'[f] \in DOMAIN trail' => trail'[author'[f]].after[f] = override'[f]
    <3>0. override'[f] = edit[e].next[f]
      BY <1>1
    <3>1. CASE f \in FieldsReplaced(e)
      <4>1. author'[f] = e
        BY <1>1, <3>1, AuthorsOfEdit
      <4>2. f \notin overtaken'[e] => f \in ChangedFields(e)
        BY <1>1, <1>2, <1>4, <3>1 DEF FieldsReplaced, ChangedFields
      <4>. QED
        BY <2>1, <2>2, <3>0, <4>1, <4>2
    <3>2. CASE f \notin FieldsReplaced(e)
      <4>1. author'[f] = author[f] /\ override'[f] = override[f] /\ author[f] # NoAuthor
        BY <1>1, <2>6, <3>2, AuthorsOfEdit
      <4>2. /\ author[f] \in ProfileEdits
            /\ f \notin overtaken[author[f]] => author[f] \in DOMAIN trail /\ f \in trail[author[f]].changed
            /\ author[f] \in DOMAIN trail => trail[author[f]].after[f] = override[f]
        BY <1>5, <4>1
      <4>. QED
        BY <1>2, <1>3, <2>1, <2>2, <3>0, <4>1, <4>2
    <3>. QED
      BY <3>1, <3>2
  <2>7. TrailNamesAuthors'
    BY <2>5, <2>6 DEF TrailNamesAuthors
  <2>. QED
    BY <1>2, <2>3, <2>4, <2>7 DEF ProfilesInv
<1>. QED
  BY <1>7, <1>8

LEMMA ReadsKeepInv ==
    ASSUME ProfilesInv, NEW e \in ProfileEdits,
           ReadUserProfile(e) \/ ReadOwnMembership(e) \/ ReadMemberForEdit(e)
    PROVE  ProfilesInv'
<1>. USE DEF EditKinds
<1>1. edit[e].step = "idle"
  BY DEF ReadUserProfile, ReadOwnMembership, ReadMemberForEdit
<1>2. globalProfile \in [ProfileFields -> ProfileValues] /\ override \in Overrides
  BY DEF ProfilesInv, ProfilesTypeOK
<1>3. [ProfileFields -> ProfileValues] \subseteq Overrides
  BY DEF Overrides
<1>4. CASE ReadUserProfile(e)
  <2>1. PICK payload \in EditPayloads(ProfileValues) : StartEdit(e, "global", globalProfile, payload, "none")
    BY <1>4 DEF ReadUserProfile
  <2>2. Laid(payload, globalProfile) \in [ProfileFields -> ProfileValues]
    BY <1>2, LaidType
  <2>. QED
    BY <1>1, <1>2, <1>3, <2>1, <2>2, StartKeepsInv
<1>5. ASSUME NEW payload \in EditPayloads(ProfileValues \cup {NoOverride})
      PROVE  Laid(payload, override) \in Overrides
  BY <1>2, LaidType DEF Overrides
<1>6. CASE ReadOwnMembership(e)
  BY <1>1, <1>2, <1>5, <1>6, StartKeepsInv, RefuseKeepsInv DEF ReadOwnMembership
<1>7. CASE ReadMemberForEdit(e)
  <2>1. PICK rank \in {"none", "member", "manager", "owner", "admin"},
             targetRank \in {"member", "manager", "owner"} :
          IF MembershipUsable /\ thirdPartyActorRole(rank, targetRank) # "none"
          THEN \E payload \in EditPayloads(ProfileValues \cup {NoOverride}) :
                   StartEdit(e, "forced", override, payload, thirdPartyActorRole(rank, targetRank))
          ELSE RefuseEdit(e)
    BY <1>7 DEF ReadMemberForEdit
  <2>2. thirdPartyActorRole(rank, targetRank) \in ThirdPartyRoles \cup {"none"}
    BY DEF thirdPartyActorRole, ThirdPartyRoles
  <2>3. CASE RefuseEdit(e)
    BY <1>1, <2>3, RefuseKeepsInv
  <2>4. ASSUME thirdPartyActorRole(rank, targetRank) \in ThirdPartyRoles,
               NEW payload \in EditPayloads(ProfileValues \cup {NoOverride}),
               StartEdit(e, "forced", override, payload, thirdPartyActorRole(rank, targetRank))
        PROVE  ProfilesInv'
    BY <1>1, <1>2, <1>5, <2>4, StartKeepsInv
  <2>. QED
    BY <2>1, <2>2, <2>3, <2>4
<1>. QED
  BY <1>4, <1>6, <1>7

LEMMA StepProfiles == ASSUME ProfilesInv, [ProfilesNext]_profileVars PROVE ProfilesInv'
<1>1. ASSUME NEW e \in ProfileEdits, RefuseServiceClient(e) PROVE ProfilesInv'
  BY <1>1, RefuseKeepsInv DEF RefuseServiceClient
<1>2. CASE StandingChanges \/ UNCHANGED profileVars
  <2>1. /\ UNCHANGED <<globalProfile, override, edit, trail, author, overtaken>>
        /\ standingOf' \in {"active", "suspended", "left"}
    BY <1>2 DEF StandingChanges, profileVars, ProfilesInv, ProfilesTypeOK
  <2>2. RunningEdits' = RunningEdits
    BY <2>1 DEF RunningEdits
  <2>. QED
    BY <2>1, <2>2
    DEF ProfilesInv, ProfilesTypeOK, EditsFit, TrailIsOfDone, ReadsCurrent,
        TrailNamesAuthors
<1>. QED
  BY <1>1, <1>2, ReadsKeepInv, UserProfileKeepsInv, OwnOverridesKeepInv, ForcedOverridesKeepInv
  DEF ProfilesNext

LEMMA ProfilesInductive == ProfilesSpec => []ProfilesInv
BY InitProfiles, StepProfiles, PTL DEF ProfilesSpec

(* Profiles, overrides, edits and audit events keep their shape.           *)
THEOREM ProfilesTypeCorrect == ProfilesSpec => []ProfilesTypeOK
<1>1. ProfilesInv => ProfilesTypeOK
  BY DEF ProfilesInv
<1>. QED
  BY <1>1, ProfilesInductive, PTL

(* For any edits, overlapping or not, and any changes of standing, a value *)
(* that a third party put into the overrides stands in an event of theirs, *)
(* but for the fields that others changed while their edit was running.    *)
THEOREM TrailTellsAuthors == ProfilesSpec => []TrailNamesAuthors
<1>1. ProfilesInv => TrailNamesAuthors
  BY DEF ProfilesInv
<1>. QED
  BY <1>1, ProfilesInductive, PTL
==============================================================================
