----------------------------- MODULE OidcHandover -----------------------------
(***************************************************************************)
(* The row of one OIDC authorization: it is written when the browser is    *)
(* sent to the provider, claimed by the callback that comes back with its  *)
(* state, and, when a mobile app asked, ends in a code the app exchanges   *)
(* for the session's token.  Callbacks and exchanges may be sent twice;    *)
(* what the membership gets from a callback is OrganizationAccess's.       *)
(***************************************************************************)
EXTENDS Naturals, FiniteSets

CONSTANTS
    Handovers,      \* rows of oidc_login_transactions
    Holders,        \* users
    OidcSessions,   \* rows of sessions
    Callers,        \* callback and exchange requests that run at a time
    Nobody

ASSUME HandoverConstantsOK == Nobody \notin Holders \cup OidcSessions

VARIABLES
    handover,       \* oidc_login_transactions
    handoverLapsed, \* rows, and codes once they are issued, past their expires_at
    code,           \* mobile_session_exchange_codes: row -> its code
    oidcSession,    \* sessions: user, life and who was given the last token
    caller,         \* request: what it does next
    completed,      \* callbacks of a row that were answered with success
    handed          \* exchanges of a row that were answered with a token

handoverVars == <<handover, handoverLapsed, code, oidcSession, caller, completed, handed>>

OidcIntents == {"login", "reauthenticate", "link_identity", "accept_invite"}
NoCaller == [op |-> "free", of |-> Nobody, cookie |-> Nobody, who |-> Nobody]

HandoverRecords == [state : {"none", "open", "consumed"}, intent : OidcIntents,
                    session : OidcSessions \cup {Nobody}, mobile : BOOLEAN]
CodeRecords     == [state : {"none", "issued", "consumed"}, session : OidcSessions \cup {Nobody},
                    user : Holders \cup {Nobody}]
SessionRecords  == [user : Holders \cup {Nobody}, life : {"none", "valid", "ended"},
                    token : {"browser", "app"}]
CallerRecords   == [op : {"free", "claimed", "verified", "consume", "rotate"},
                    of : Handovers \cup {Nobody}, cookie : OidcSessions \cup {Nobody},
                    who : Holders \cup {Nobody}]

HandoverTypeOK ==
    /\ handover \in [Handovers -> HandoverRecords]
    /\ handoverLapsed \subseteq Handovers
    /\ code \in [Handovers -> CodeRecords]
    /\ oidcSession \in [OidcSessions -> SessionRecords]
    /\ caller \in [Callers -> CallerRecords]
    /\ completed \in [Handovers -> 0..1] /\ handed \in [Handovers -> 0..1]

HandoverInit ==
    /\ handover = [t \in Handovers |-> [state |-> "none", intent |-> "login", session |-> Nobody, mobile |-> FALSE]]
    /\ handoverLapsed = {}
    /\ code = [t \in Handovers |-> [state |-> "none", session |-> Nobody, user |-> Nobody]]
    /\ oidcSession = [s \in OidcSessions |-> [user |-> Nobody, life |-> "none", token |-> "browser"]]
    /\ caller = [c \in Callers |-> NoCaller]
    /\ completed = [t \in Handovers |-> 0] /\ handed = [t \in Handovers |-> 0]

ValidSession(s) == s # Nobody /\ oidcSession[s].life = "valid"
Turns(c, next) == caller' = [caller EXCEPT ![c] = next]

------------------------------------------------------------------------------
(* Sessions come and go by other requests too.                             *)
SessionBegins(s, u) ==
    /\ oidcSession[s].life = "none"
    /\ oidcSession' = [oidcSession EXCEPT ![s] = [user |-> u, life |-> "valid", token |-> "browser"]]
    /\ UNCHANGED <<handover, handoverLapsed, code, caller, completed, handed>>

SessionCloses(s) ==
    /\ oidcSession[s].life = "valid"
    /\ oidcSession' = [oidcSession EXCEPT ![s].life = "ended"]
    /\ UNCHANGED <<handover, handoverLapsed, code, caller, completed, handed>>

(* startOrganizationOidc: a login is refused to who is signed in, the      *)
(* others but an invite need a session; a login keeps none.                *)
insertOidcLoginTransaction(t, intent, s, mobile) ==
    /\ handover[t].state = "none"
    /\ intent = "login" => s = Nobody
    /\ intent \in {"reauthenticate", "link_identity"} => s # Nobody
    /\ s # Nobody => ValidSession(s)
    /\ handover' = [handover EXCEPT ![t] = [state |-> "open", intent |-> intent, session |-> s, mobile |-> mobile]]
    /\ UNCHANGED <<handoverLapsed, code, oidcSession, caller, completed, handed>>

Lapses(t) ==
    /\ handover[t].state # "none" /\ t \notin handoverLapsed
    /\ handoverLapsed' = handoverLapsed \cup {t}
    /\ UNCHANGED <<handover, code, oidcSession, caller, completed, handed>>

(* Mutant: the state is not compared with consumed.                        *)
ClaimsKnown(t) == handover[t].state # "none" /\ t \notin handoverLapsed

Claimable(t) == handover[t].state = "open" /\ t \notin handoverLapsed

(* One conditional update, before anything else is done with the state.    *)
claimOidcLoginTransaction(c, t, s) ==
    /\ caller[c] = NoCaller
    /\ s # Nobody => oidcSession[s].life # "none" /\ oidcSession[s].token = "browser"
    /\ Claimable(t)
    /\ handover' = [handover EXCEPT ![t].state = "consumed"]
    /\ Turns(c, [op |-> "claimed", of |-> t, cookie |-> s, who |-> Nobody])
    /\ UNCHANGED <<handoverLapsed, code, oidcSession, completed, handed>>

(* The provider's configuration and answer are fine; u has signed in.      *)
VerifyCallbackClaims(c, u) ==
    /\ caller[c].op = "claimed"
    /\ Turns(c, [caller[c] EXCEPT !.op = "verified", !.who = u])
    /\ UNCHANGED <<handover, handoverLapsed, code, oidcSession, completed, handed>>

(* The session a callback goes on with: a reauthentication must find its   *)
(* own, a login may continue the browser's; an identity may not be linked  *)
(* to, nor continue, the session of somebody else.                         *)
Continues(r) ==
    IF handover[r.of].intent = "login" THEN (IF ValidSession(r.cookie) THEN r.cookie ELSE Nobody)
    ELSE handover[r.of].session

MayContinue(r) ==
    LET s == Continues(r) IN
    /\ handover[r.of].intent \in {"reauthenticate", "link_identity"} => ValidSession(s)
    /\ handover[r.of].intent = "link_identity" => r.cookie = s
    /\ handover[r.of].intent = "accept_invite" => r.cookie = s /\ (s # Nobody => ValidSession(s))
    /\ s # Nobody => oidcSession[s].user = r.who

(* One transaction; a link changes no session.  The cookie of a mobile     *)
(* login is kept back: the app is to have the token.                       *)
CompleteCallback(c) ==
    \E s \in OidcSessions :
        LET r == caller[c]
            t == r.of IN
        /\ r.op = "verified"
        /\ MayContinue(r)
        /\ IF Continues(r) = Nobody THEN oidcSession[s].life = "none" ELSE s = Continues(r)
        /\ oidcSession' = IF Continues(r) = Nobody
                          THEN [oidcSession EXCEPT ![s] = [user |-> r.who, life |-> "valid", token |-> "browser"]] ELSE oidcSession
        /\ code' = IF handover[t].mobile /\ handover[t].intent \in {"login", "reauthenticate"}
                   THEN [code EXCEPT ![t] = [state |-> "issued", session |-> s, user |-> r.who]] ELSE code
        /\ completed' = [completed EXCEPT ![t] = @ + 1]
        /\ handoverLapsed' = handoverLapsed \ {t}
        /\ Turns(c, NoCaller)
        /\ UNCHANGED <<handover, handed>>

(* consumeMobileSessionExchangeCode: the row is read, the session looked   *)
(* up, and the code consumed if nobody else has.                           *)
ReadExchangeCode(c, t) ==
    /\ caller[c] = NoCaller
    /\ code[t].state = "issued" /\ t \notin handoverLapsed
    /\ ValidSession(code[t].session)
    /\ Turns(c, [op |-> "consume", of |-> t, cookie |-> Nobody, who |-> Nobody])
    /\ UNCHANGED <<handover, handoverLapsed, code, oidcSession, completed, handed>>

(* Mutant: the update has no condition.                                    *)
ConsumesAgain(t) == TRUE

Unconsumed(t) == code[t].state = "issued"

ConsumeExchangeCode(c) ==
    LET t == caller[c].of IN
    /\ caller[c].op = "consume"
    /\ Unconsumed(t)
    /\ code' = [code EXCEPT ![t].state = "consumed"]
    /\ Turns(c, [caller[c] EXCEPT !.op = "rotate"])
    /\ UNCHANGED <<handover, handoverLapsed, oidcSession, completed, handed>>

(* A statement of its own: the session must still be valid, and its old    *)
(* token opens nothing from now on.                                        *)
rotateSessionToken(c) ==
    LET t == caller[c].of IN
    /\ caller[c].op = "rotate"
    /\ ValidSession(code[t].session)
    /\ oidcSession' = [oidcSession EXCEPT ![code[t].session].token = "app"]
    /\ handed' = [handed EXCEPT ![t] = @ + 1]
    /\ Turns(c, NoCaller)
    /\ UNCHANGED <<handover, handoverLapsed, code, completed>>

(* A refusal, an error or a crash: what was claimed or consumed is spent.  *)
GivesUp(c) ==
    /\ caller[c] # NoCaller
    /\ Turns(c, NoCaller)
    /\ UNCHANGED <<handover, handoverLapsed, code, oidcSession, completed, handed>>

------------------------------------------------------------------------------
CallerStep(c) ==
    \/ \E t \in Handovers :
        \/ \E s \in OidcSessions \cup {Nobody} : claimOidcLoginTransaction(c, t, s)
        \/ ReadExchangeCode(c, t)
    \/ \E u \in Holders : VerifyCallbackClaims(c, u)
    \/ CompleteCallback(c) \/ ConsumeExchangeCode(c) \/ rotateSessionToken(c) \/ GivesUp(c)

HandoverNext ==
    \/ \E s \in OidcSessions : SessionCloses(s) \/ \E u \in Holders : SessionBegins(s, u)
    \/ \E t \in Handovers :
        \/ Lapses(t)
        \/ \E intent \in OidcIntents, s \in OidcSessions \cup {Nobody}, mobile \in BOOLEAN :
            insertOidcLoginTransaction(t, intent, s, mobile)
    \/ \E c \in Callers : CallerStep(c)

HandoverSpec == HandoverInit /\ [][HandoverNext]_handoverVars

------------------------------------------------------------------------------
(* However callbacks and exchanges are repeated or overlap, a state is     *)
(* completed once, its code turned into a token once, and only after the   *)
(* completion; the session of a code belongs to the user who signed in at  *)
(* the provider.                                                           *)
HandedOverOnce ==
    \A t \in Handovers :
        /\ handed[t] <= completed[t] /\ completed[t] <= 1
        /\ code[t].state # "none" => oidcSession[code[t].session].user = code[t].user
==============================================================================
