----------------------------- MODULE UserAccounts -----------------------------
(***************************************************************************)
(* One user account: it is created pending with activation links, or       *)
(* active by the command line; activations, password logins, password      *)
(* changes and logouts run concurrently.                                   *)
(*                                                                         *)
(* A login reads the row, hashes for a while and then writes what it       *)
(* derived from the read; an activation checks in one statement and marks  *)
(* the token in another.  What keeps the account right is the conditional  *)
(* update of the token and the index that allows one active token only.    *)
(***************************************************************************)
EXTENDS Naturals, FiniteSets

CONSTANTS
    Passwords,
    MaxFailedLogins,  \* MAX_FAILED_LOGIN_ATTEMPTS, 5 in the code
    Logins,           \* login requests; a login opens the session of its name
    PasswordChanges,  \* change-password requests
    Links,            \* activation-link requests; a link makes the token of its name
    Activations       \* activation requests

ASSUME AccountConstantsOK ==
    /\ MaxFailedLogins \in Nat \ {0}
    /\ "none" \notin Passwords
    /\ IsFiniteSet(Logins)
    /\ Logins \cap (PasswordChanges \cup Links \cup Activations) = {}
    /\ PasswordChanges \cap (Links \cup Activations) = {} /\ Links \cap Activations = {}

VARIABLES
    userStatus,     \* users.status, "absent" before the insert
    globalRole,     \* users.global_role
    passwordOf,     \* the password behind users.password_hash, "none" when NULL
    failedLogins,   \* users.failed_login_attempts
    locked,         \* users.locked_until lies in the future
    sessionState,   \* login -> the session it opened
    tokenState,     \* link -> the token it made
    lapsed,         \* tokens past their expires_at
    recent,         \* tokens used no more than three seconds ago
    accountStep,    \* request: what it does next
    accountRead,    \* request: what it has read and been given
    activated,      \* activation requests answered with success
    wrongLogins     \* wrong passwords answered so far

userVars    == <<userStatus, globalRole, passwordOf, failedLogins, locked>>
tokenVars   == <<tokenState, lapsed, recent>>
accountRequestVars == <<accountStep, accountRead, activated, wrongLogins>>
accountVars == <<userVars, sessionState, tokenVars, accountRequestVars>>

AccountRequests == Logins \cup PasswordChanges \cup Links \cup Activations
NothingRead == [password |-> "none", attempts |-> 0, seen |-> {}]

AccountsTypeOK ==
    /\ userStatus \in {"absent", "pending_activation", "active"}
    /\ globalRole \in {"none", "admin"}
    /\ passwordOf \in Passwords \cup {"none"}
    /\ failedLogins \in 0..Cardinality(Logins)
    /\ locked \in BOOLEAN
    /\ sessionState \in [Logins -> {"none", "valid", "ended"}]
    /\ tokenState \in [Links -> {"none", "active", "used", "revoked"}]
    /\ lapsed \subseteq Links
    /\ recent \subseteq Links
    /\ accountStep \in [AccountRequests -> {"idle", "right", "wrong", "open", "store", "revoke", "insert", "mark", "over"}]
    /\ accountRead \in [AccountRequests -> [password : Passwords \cup {"none"}, attempts : 0..Cardinality(Logins),
                                            seen : SUBSET Links]]
    /\ activated \subseteq Activations
    /\ wrongLogins \in 0..Cardinality(Logins)

AccountsInit ==
    /\ userStatus = "absent" /\ globalRole = "none" /\ passwordOf = "none"
    /\ failedLogins = 0 /\ locked = FALSE
    /\ sessionState = [l \in Logins |-> "none"]
    /\ tokenState = [k \in Links |-> "none"]
    /\ lapsed = {} /\ recent = {}
    /\ accountStep = [r \in AccountRequests |-> "idle"]
    /\ accountRead = [r \in AccountRequests |-> NothingRead]
    /\ activated = {}
    /\ wrongLogins = 0

Proceed(r, step, read) ==
    /\ accountStep' = [accountStep EXCEPT ![r] = step]
    /\ accountRead' = [accountRead EXCEPT ![r] = read]
    /\ UNCHANGED <<activated, wrongLogins>>

(* What an activation answers is remembered, other answers are not.        *)
Reply(r, answer) ==
    /\ accountStep' = [accountStep EXCEPT ![r] = "over"]
    /\ accountRead' = [accountRead EXCEPT ![r] = NothingRead]
    /\ activated' = activated \cup (IF answer = "ok" THEN {r} \cap Activations ELSE {})
    /\ UNCHANGED wrongLogins

------------------------------------------------------------------------------
(* Creation.                                                               *)

CreateOrganizationUser ==
    /\ userStatus = "absent"
    /\ userStatus' = "pending_activation"
    /\ UNCHANGED <<globalRole, passwordOf, failedLogins, locked, sessionState, tokenVars, accountRequestVars>>

(* The command line creates an administrator, or resets the password of    *)
(* one; the sessions of a reset password stay.                             *)
CreateAdminUser ==
    /\ userStatus = "absent" \/ globalRole = "admin"
    /\ userStatus' = "active" /\ globalRole' = "admin"
    /\ passwordOf' \in Passwords
    /\ failedLogins' = 0 /\ locked' = FALSE
    /\ UNCHANGED <<sessionState, tokenVars, accountRequestVars>>

------------------------------------------------------------------------------
(* Activation links and activation.                                        *)

ActiveTokens == {k \in Links : tokenState[k] = "active"}

(* The revocation sees the tokens that are active when it starts.          *)
RevokeActivationTokens(k) ==
    /\ accountStep[k] = "idle"
    /\ IF userStatus = "pending_activation"
       THEN Proceed(k, "insert", [NothingRead EXCEPT !.seen = ActiveTokens])
       ELSE Reply(k, "no")
    /\ UNCHANGED <<userVars, sessionState, tokenVars>>

(* Mutant: tokens are not limited to one active per user.                  *)
EveryLinkFits(k) == TRUE

(* user_activation_tokens_one_active_per_user: a token another request     *)
(* inserted since makes the insert fail and undoes the revocation.         *)
OneActiveToken(k) == ActiveTokens \subseteq accountRead[k].seen

InsertActivationToken(k) ==
    /\ accountStep[k] = "insert"
    /\ IF OneActiveToken(k)
       THEN /\ tokenState' = [t \in Links |->
                                IF t = k THEN "active"
                                ELSE IF t \in accountRead[k].seen \cap ActiveTokens THEN "revoked"
                                ELSE tokenState[t]]
            /\ Reply(k, "ok")
       ELSE UNCHANGED tokenState /\ Reply(k, "no")
    /\ UNCHANGED <<userVars, sessionState, lapsed, recent>>

TokenLapses(k) ==
    /\ tokenState[k] = "active"
    /\ k \notin lapsed
    /\ lapsed' = lapsed \cup {k}
    /\ UNCHANGED <<userVars, sessionState, tokenState, recent, accountRequestVars>>

WindowCloses(k) ==
    /\ k \in recent
    /\ recent' = recent \ {k}
    /\ UNCHANGED <<userVars, sessionState, tokenState, lapsed, accountRequestVars>>

(* isRecentCompletedActivationContext does not look at the password.       *)
RecentlyCompleted(k) == tokenState[k] = "used" /\ k \in recent /\ userStatus = "active"

ReadActivation(a, k, p) ==
    /\ accountStep[a] = "idle"
    /\ CASE RecentlyCompleted(k) -> Reply(a, "ok")
         [] tokenState[k] = "active" /\ k \notin lapsed /\ userStatus = "pending_activation" ->
              Proceed(a, "mark", [password |-> p, attempts |-> 0, seen |-> {k}])
         [] OTHER -> Reply(a, "no")
    /\ UNCHANGED <<userVars, sessionState, tokenVars>>

(* Mutant: a token may be used again.                                      *)
StillThere(k) == tokenState[k] \in {"active", "used", "revoked"}

(* The update of the token is conditional; its expiry was compared with    *)
(* the same time before.                                                   *)
StillUsable(k) == tokenState[k] = "active"

CompleteActivation(a, k) ==
    /\ accountStep[a] = "mark"
    /\ k \in accountRead[a].seen
    /\ IF StillUsable(k)
       THEN /\ tokenState' = [tokenState EXCEPT ![k] = "used"]
            /\ recent' = recent \cup {k}
            /\ userStatus' = "active"
            /\ passwordOf' = accountRead[a].password
            /\ failedLogins' = 0 /\ locked' = FALSE
            /\ Reply(a, "ok")
       ELSE /\ Reply(a, IF RecentlyCompleted(k) THEN "ok" ELSE "no")
            /\ UNCHANGED <<tokenState, recent, userStatus, passwordOf, failedLogins, locked>>
    /\ UNCHANGED <<globalRole, sessionState, lapsed>>

------------------------------------------------------------------------------
(* Passwords and sessions.                                                 *)

ReadForLogin(l, p) ==
    /\ accountStep[l] = "idle"
    /\ CASE userStatus # "active" \/ passwordOf = "none" \/ locked -> Reply(l, "no")
         [] OTHER -> Proceed(l, IF p = passwordOf THEN "right" ELSE "wrong",
                             [NothingRead EXCEPT !.attempts = failedLogins])
    /\ UNCHANGED <<userVars, sessionState, tokenVars>>

LocksAt(attempts) == attempts >= MaxFailedLogins

(* Both columns are written from the counter read before the hashing: a    *)
(* late failure may undo a lock or a reset.                                *)
RefuseWrongPassword(l) ==
    LET attempts == accountRead[l].attempts + 1 IN
    /\ accountStep[l] = "wrong"
    /\ failedLogins' = attempts
    /\ locked' = LocksAt(attempts)
    /\ accountStep' = [accountStep EXCEPT ![l] = "over"]
    /\ accountRead' = [accountRead EXCEPT ![l] = NothingRead]
    /\ wrongLogins' = wrongLogins + 1
    /\ UNCHANGED <<userStatus, globalRole, passwordOf, sessionState, tokenVars, activated>>

ResetFailedLogins(l) ==
    /\ accountStep[l] = "right"
    /\ failedLogins' = 0 /\ locked' = FALSE
    /\ Proceed(l, "open", NothingRead)
    /\ UNCHANGED <<userStatus, globalRole, passwordOf, sessionState, tokenVars>>

OpenSession(l) ==
    /\ accountStep[l] = "open"
    /\ sessionState' = [sessionState EXCEPT ![l] = "valid"]
    /\ Reply(l, "ok")
    /\ UNCHANGED <<userVars, tokenVars>>

LockRunsOut ==
    /\ locked
    /\ locked' = FALSE
    /\ UNCHANGED <<userStatus, globalRole, passwordOf, failedLogins, sessionState, tokenVars, accountRequestVars>>

(* logout revokes whatever session it is given; expiry needs nobody.       *)
EndSession(l) ==
    /\ sessionState[l] = "valid"
    /\ sessionState' = [sessionState EXCEPT ![l] = "ended"]
    /\ UNCHANGED <<userVars, tokenVars, accountRequestVars>>

(* requireActiveSessionUser.                                               *)
OpensAccount(l) == sessionState[l] = "valid" /\ userStatus = "active"

ReadForChange(c, l, old, new) ==
    /\ accountStep[c] = "idle"
    /\ IF OpensAccount(l) /\ passwordOf = old
       THEN Proceed(c, "store", [NothingRead EXCEPT !.password = new])
       ELSE Reply(c, "no")
    /\ UNCHANGED <<userVars, sessionState, tokenVars>>

StorePassword(c) ==
    /\ accountStep[c] = "store"
    /\ passwordOf' = accountRead[c].password
    /\ Proceed(c, "revoke", NothingRead)
    /\ UNCHANGED <<userStatus, globalRole, failedLogins, locked, sessionState, tokenVars>>

(* A login that verified the old password may still open its session after *)
(* this.                                                                   *)
RevokeAllSessions(c) ==
    /\ accountStep[c] = "revoke"
    /\ sessionState' = [l \in Logins |-> IF sessionState[l] = "valid" THEN "ended" ELSE sessionState[l]]
    /\ Reply(c, "ok")
    /\ UNCHANGED <<userVars, tokenVars>>

(* A statement throws or the process dies.  What was written stays: only   *)
(* the activation and the link are transactions.                           *)
AbandonAccountRequest(r) ==
    /\ accountStep[r] \notin {"idle", "over"}
    /\ Reply(r, "no")
    /\ UNCHANGED <<userVars, sessionState, tokenVars>>

------------------------------------------------------------------------------
LoginStep(l) ==
    \/ \E p \in Passwords : ReadForLogin(l, p)
    \/ RefuseWrongPassword(l) \/ ResetFailedLogins(l) \/ OpenSession(l)
    \/ EndSession(l)

ChangeStep(c) ==
    \/ \E l \in Logins, old, new \in Passwords : ReadForChange(c, l, old, new)
    \/ StorePassword(c) \/ RevokeAllSessions(c)

LinkStep(k) ==
    \/ RevokeActivationTokens(k) \/ InsertActivationToken(k)
    \/ TokenLapses(k) \/ WindowCloses(k)
    \/ \E a \in Activations : CompleteActivation(a, k) \/ \E p \in Passwords : ReadActivation(a, k, p)

AccountsNext ==
    \/ CreateOrganizationUser \/ CreateAdminUser \/ LockRunsOut
    \/ \E l \in Logins : LoginStep(l)
    \/ \E c \in PasswordChanges : ChangeStep(c)
    \/ \E k \in Links : LinkStep(k)
    \/ \E r \in AccountRequests : AbandonAccountRequest(r)

AccountsSpec == AccountsInit /\ [][AccountsNext]_accountVars

------------------------------------------------------------------------------
(* However link and activation requests overlap, at most one token of the  *)
(* account is ever used, so no second activation replaces the password;    *)
(* and whoever was told that the activation succeeded has an active        *)
(* account with a password.                                                *)
ActivatedOnce ==
    /\ Cardinality({k \in Links : tokenState[k] = "used"}) <= 1
    /\ Cardinality(ActiveTokens) <= 1
    /\ activated # {} => userStatus = "active" /\ passwordOf # "none"

(* Updates of the counter may be lost, never invented: an account is       *)
(* locked only after MaxFailedLogins wrong passwords.                      *)
LockIsEarned == locked => wrongLogins >= MaxFailedLogins

(* One activation, and no lock but for wrong passwords.                    *)
AccountsHold == ActivatedOnce /\ LockIsEarned
==============================================================================
