----------------------------- MODULE GoogleSignIn -----------------------------
(***************************************************************************)
(* Signing in with Google, and linking a Google account to a signed-in     *)
(* user.  A callback checks its state, redeems the code, looks for the     *)
(* identity and the user, attaches or creates what is missing, and opens a *)
(* session.  Nothing is locked: callbacks of one Google account, or of two *)
(* accounts with one address, rely on the unique indexes.                  *)
(***************************************************************************)
EXTENDS FiniteSets

CONSTANTS
    Subjects,   \* Google accounts
    Emails,     \* addresses; a user is named by its address
    Callbacks,  \* callback requests
    NoUser

ASSUME GoogleConstantsOK == NoUser \notin Emails

VARIABLES
    userState,      \* address -> status of the user with it
    identityUser,   \* auth_identities: subject -> its user
    googleStep,     \* callback: what it does next
    googleRead,     \* callback: its intent, claims and the user it goes for
    googleReply     \* callback: what it answered, and the user of its session

googleVars == <<userState, identityUser, googleStep, googleRead, googleReply>>

Intents == {"login", "mobile", "link"}
Refusals == {"invalid_state", "provider_error", "unverified", "unauthenticated", "conflict", "disabled", "error"}
ClaimRecords == [intent : Intents, subject : Subjects, email : Emails, user : Emails \cup {NoUser}]
NoReply == [outcome |-> "none", user |-> NoUser]

GoogleTypeOK ==
    /\ userState \in [Emails -> {"absent", "pending_activation", "active"}]
    /\ identityUser \in [Subjects -> Emails \cup {NoUser}]
    /\ googleStep \in [Callbacks -> {"idle", "subject", "user", "attach", "create", "session", "over"}]
    /\ googleRead \in [Callbacks -> SUBSET ClaimRecords]
    /\ googleReply \in [Callbacks -> [outcome : Refusals \cup {"none", "session", "linked"}, user : Emails \cup {NoUser}]]

GoogleInit ==
    /\ userState = [e \in Emails |-> "absent"]
    /\ identityUser = [s \in Subjects |-> NoUser]
    /\ googleStep = [c \in Callbacks |-> "idle"]
    /\ googleRead = [c \in Callbacks |-> {}]
    /\ googleReply = [c \in Callbacks |-> NoReply]

GoTo(c, step, read) ==
    /\ googleStep' = [googleStep EXCEPT ![c] = step]
    /\ googleRead' = [googleRead EXCEPT ![c] = {read}]
    /\ UNCHANGED <<userState, identityUser, googleReply>>

Redirect(c, outcome, user) ==
    /\ googleStep' = [googleStep EXCEPT ![c] = "over"]
    /\ googleReply' = [googleReply EXCEPT ![c] = [outcome |-> outcome, user |-> user]]
    /\ UNCHANGED googleRead

Refuse(c, outcome) == Redirect(c, outcome, NoUser) /\ UNCHANGED <<userState, identityUser>>

(* Other requests create users and activate them.                          *)
UserAppears(e) ==
    /\ \/ userState[e] = "absent" /\ userState' = [userState EXCEPT ![e] = "pending_activation"]
       \/ userState[e] # "active" /\ userState' = [userState EXCEPT ![e] = "active"]
    /\ UNCHANGED <<identityUser, googleStep, googleRead, googleReply>>

(* The state must be the cookie's; the code is redeemed and the ID token   *)
(* verified; the address must be verified.  A link needs an active session *)
(* and looks at it first.                                                  *)
VerifyGoogleClaims(c) ==
    /\ googleStep[c] = "idle"
    /\ \/ \E refusal \in {"invalid_state", "provider_error", "unverified", "unauthenticated"} : Refuse(c, refusal)
       \/ \E s \in Subjects, e \in Emails :
            \/ \E intent \in {"login", "mobile"} :
                 GoTo(c, "subject", [intent |-> intent, subject |-> s, email |-> e, user |-> NoUser])
            \/ \E u \in Emails : userState[u] = "active" /\
                 GoTo(c, "subject", [intent |-> "link", subject |-> s, email |-> e, user |-> u])

(* A link of a subject that is known already is answered at once.          *)
completeGoogleOidcLink(c, r, owner) ==
    IF owner = r.user THEN Redirect(c, "linked", owner) /\ UNCHANGED <<userState, identityUser>>
    ELSE Refuse(c, "conflict")

(* findGoogleIdentityBySubject.                                            *)
FindIdentity(c) ==
    \E r \in googleRead[c] :
        LET owner == identityUser[r.subject] IN
        /\ googleStep[c] = "subject"
        /\ CASE owner = NoUser -> GoTo(c, "user", r)
             [] owner # NoUser /\ r.intent = "link" -> completeGoogleOidcLink(c, r, owner)
             [] OTHER -> IF userState[owner] = "active" THEN GoTo(c, "session", [r EXCEPT !.user = owner])
                         ELSE Refuse(c, "disabled")

HasGoogleIdentity(u) == \E s \in Subjects : identityUser[s] = u

(* Mutant: the status of the user with the address is not looked at.       *)
AnyUserJoins(e) == userState[e] # "absent"

MayJoin(e) == userState[e] = "active"

(* findUserByEmail and findGoogleIdentityByUserId.                         *)
FindUser(c) ==
    \E r \in googleRead[c] :
        LET u == IF r.intent = "link" THEN r.user ELSE r.email IN
        /\ googleStep[c] = "user"
        /\ \/ /\ r.intent # "link" /\ userState[u] = "absent"
              /\ IF r.intent = "login" THEN GoTo(c, "create", [r EXCEPT !.user = u]) ELSE Refuse(c, "conflict")
           \/ /\ r.intent = "link" \/ userState[u] # "absent"
              /\ IF (r.intent = "link" \/ MayJoin(u)) /\ ~HasGoogleIdentity(u)
                 THEN GoTo(c, "attach", [r EXCEPT !.user = u]) ELSE Refuse(c, "conflict")

(* Mutant: an identity is moved to whoever signs in last.                  *)
AlwaysFree(s, u) == TRUE

(* The unique indexes on (provider, subject) and on the user's identity.   *)
IdentityFree(s, u) == identityUser[s] = NoUser /\ ~HasGoogleIdentity(u)

Attach(c, r) == identityUser' = [identityUser EXCEPT ![r.subject] = r.user]

AttachIdentity(c) ==
    \E r \in googleRead[c] :
        /\ googleStep[c] = "attach"
        /\ IF IdentityFree(r.subject, r.user)
           THEN /\ Attach(c, r)
                /\ UNCHANGED <<userState>>
                /\ IF r.intent = "link" THEN Redirect(c, "linked", r.user)
                   ELSE /\ googleStep' = [googleStep EXCEPT ![c] = "session"]
                        /\ UNCHANGED <<googleRead, googleReply>>
           ELSE Refuse(c, "error")

(* insertUser needs a free address, or throws.                             *)
CreateGoogleUser(c) ==
    \E r \in googleRead[c] :
        /\ googleStep[c] = "create"
        /\ IF userState[r.user] = "absent" /\ IdentityFree(r.subject, r.user)
           THEN /\ userState' = [userState EXCEPT ![r.user] = "active"]
                /\ Attach(c, r)
                /\ googleStep' = [googleStep EXCEPT ![c] = "session"]
                /\ UNCHANGED <<googleRead, googleReply>>
           ELSE Refuse(c, "error")

OpenGoogleSession(c) ==
    \E r \in googleRead[c] :
        /\ googleStep[c] = "session"
        /\ Redirect(c, "session", r.user)
        /\ UNCHANGED <<userState, identityUser>>

(* The process dies between the transaction and the session.               *)
AbandonCallback(c) == googleStep[c] \notin {"idle", "over"} /\ Refuse(c, "error")

GoogleNext ==
    \/ \E e \in Emails : UserAppears(e)
    \/ \E c \in Callbacks :
        \/ VerifyGoogleClaims(c) \/ FindIdentity(c) \/ FindUser(c)
        \/ AttachIdentity(c) \/ CreateGoogleUser(c) \/ OpenGoogleSession(c) \/ AbandonCallback(c)

GoogleSpec == GoogleInit /\ [][GoogleNext]_googleVars

------------------------------------------------------------------------------
(* However callbacks overlap, a user has one Google account and whoever    *)
(* was signed in or linked is the user the Google account belongs to, and  *)
(* is active: no callback takes over a user that is not activated.         *)
GoogleAnswersHold ==
    /\ \A s, t \in Subjects : identityUser[s] = identityUser[t] /\ identityUser[s] # NoUser => s = t
    /\ \A s \in Subjects : identityUser[s] # NoUser => userState[identityUser[s]] = "active"
    /\ \A c \in Callbacks : googleReply[c].outcome \in {"session", "linked"} =>
        \E r \in googleRead[c] :
            /\ identityUser[r.subject] = googleReply[c].user
            /\ userState[googleReply[c].user] = "active"
==============================================================================
