---------------------------- MODULE SignInProofs -----------------------------
(***************************************************************************)
(* Proofs about how somebody comes to a session: the accounts of the       *)
(* dashboard, the sign-in with Google and the exchange through OIDC, for   *)
(* any number of accounts, requests and tokens.                            *)
(***************************************************************************)
EXTENDS UserAccounts, GoogleSignIn, OidcHandover, FiniteSetTheorems, TLAPS

------------------------------------------------------------------------------
(***************************************************************************)
(* Accounts: passwords, activations and the lock of a login.               *)
(***************************************************************************)

UsedTokens == {k \in Links : tokenState[k] = "used"}

AccountSteps == {"idle", "right", "wrong", "open", "store", "revoke", "insert", "mark", "over"}

ReadRecords == [password : Passwords \cup {"none"}, attempts : 0..Cardinality(Logins), seen : SUBSET Links]

OverLogins == {l \in Logins : accountStep[l] = "over"}

(* A request that carries a password or a token it has read does so at its *)
(* own steps, and a link has no token before it inserts one.               *)
StepsFit ==
    /\ \A l \in Logins : accountStep[l] \in {"idle", "right", "wrong", "open", "over"}
    /\ \A c \in PasswordChanges : accountStep[c] \in {"idle", "store", "revoke", "over"}
    /\ \A k \in Links : accountStep[k] \in {"idle", "insert", "over"}
    /\ \A a \in Activations : accountStep[a] \in {"idle", "mark", "over"}
    /\ \A r \in AccountRequests :
        accountStep[r] \in {"store", "mark"} => accountRead[r].password \in Passwords
    /\ \A k \in Links : accountStep[k] \in {"idle", "insert"} => tokenState[k] = "none"

(* The tokens an activation has read as active exist, and once a token has *)
(* been used none of those is active: it was the one, or it was revoked.   *)
OneToken ==
    /\ \A j, k \in Links : tokenState[j] = "active" /\ tokenState[k] = "active" => j = k
    /\ \A j, k \in Links : tokenState[j] = "used" /\ tokenState[k] = "used" => j = k
    /\ \A a \in Activations : accountStep[a] = "mark" => \A k \in accountRead[a].seen :
        /\ tokenState[k] # "none"
        /\ UsedTokens # {} => tokenState[k] # "active"

UsedIsActive ==
    UsedTokens # {} \/ activated # {} => userStatus = "active" /\ passwordOf # "none"

(* No counter, read or stored, exceeds the wrong passwords answered, which *)
(* are of logins that are over.                                            *)
CountersEarned ==
    /\ failedLogins <= wrongLogins
    /\ \A l \in Logins : accountStep[l] = "wrong" => accountRead[l].attempts <= wrongLogins
    /\ wrongLogins <= Cardinality(OverLogins)

AccountsInv ==
    /\ AccountsTypeOK
    /\ StepsFit
    /\ OneToken
    /\ UsedIsActive
    /\ CountersEarned
    /\ LockIsEarned
------------------------------------------------------------------------------
LEMMA NothingReadType == NothingRead \in ReadRecords
<1>1. Cardinality(Logins) \in Nat
  BY AccountConstantsOK, FS_CardinalityType
<1>. QED
  BY <1>1 DEF NothingRead, ReadRecords

LEMMA InitAccounts == AccountsInit => AccountsInv
<1>. SUFFICES ASSUME AccountsInit PROVE AccountsInv
  OBVIOUS
<1>1. Cardinality(Logins) \in Nat
  BY AccountConstantsOK, FS_CardinalityType
<1>2. /\ \A r \in AccountRequests : accountStep[r] = "idle" /\ accountRead[r] = NothingRead
      /\ \A k \in Links : tokenState[k] = "none"
  BY DEF AccountsInit
<1>3. AccountsTypeOK
  <2>1. failedLogins \in 0..Cardinality(Logins) /\ wrongLogins \in 0..Cardinality(Logins)
    BY <1>1 DEF AccountsInit
  <2>2. locked \in BOOLEAN
    BY DEF AccountsInit
  <2>3. accountRead \in [AccountRequests -> ReadRecords]
    BY NothingReadType DEF AccountsInit
  <2>. QED
    BY <2>1, <2>2, <2>3 DEF AccountsInit, AccountsTypeOK, ReadRecords
<1>4. StepsFit
  BY <1>2 DEF StepsFit, AccountRequests
<1>5. OneToken
  BY <1>2 DEF OneToken, AccountRequests
<1>6. UsedIsActive
  BY <1>2 DEF AccountsInit, UsedIsActive, UsedTokens
<1>7. CountersEarned
  <2>1. IsFiniteSet(OverLogins) /\ Cardinality(OverLogins) \in Nat
    BY AccountConstantsOK, FS_Subset, FS_CardinalityType DEF OverLogins
  <2>. QED
    BY <1>2, <2>1 DEF AccountsInit, CountersEarned, AccountRequests
<1>8. LockIsEarned
  BY DEF AccountsInit, LockIsEarned
<1>. QED
  BY <1>3, <1>4, <1>5, <1>6, <1>7, <1>8 DEF AccountsInv

(* A request is of one kind.                                               *)
LEMMA Kinds ==
    /\ \A l \in Logins : l \in AccountRequests /\ l \notin PasswordChanges /\ l \notin Links /\ l \notin Activations
    /\ \A c \in PasswordChanges : c \in AccountRequests /\ c \notin Logins /\ c \notin Links /\ c \notin Activations
    /\ \A k \in Links : k \in AccountRequests /\ k \notin Logins /\ k \notin PasswordChanges /\ k \notin Activations
    /\ \A a \in Activations : a \in AccountRequests /\ a \notin Logins /\ a \notin PasswordChanges /\ a \notin Links
BY AccountConstantsOK DEF AccountRequests

(* A request moves to a step of its kind, with what it has read.           *)
StepOfKind(r, step) ==
    /\ r \in Logins => step \in {"idle", "right", "wrong", "open", "over"}
    /\ r \in PasswordChanges => step \in {"idle", "store", "revoke", "over"}
    /\ r \in Links => step \in {"idle", "insert", "over"}
    /\ r \in Activations => step \in {"idle", "mark", "over"}

MovesTo(r, step, read) ==
    /\ accountStep' = [accountStep EXCEPT ![r] = step]
    /\ accountRead' = [accountRead EXCEPT ![r] = read]

LEMMA AccountMoved ==
    ASSUME AccountsInv, NEW r \in AccountRequests, NEW step \in AccountSteps, NEW read \in ReadRecords,
           MovesTo(r, step, read)
    PROVE  /\ accountStep' \in [AccountRequests -> AccountSteps]
           /\ accountRead' \in [AccountRequests -> ReadRecords]
           /\ accountStep'[r] = step /\ accountRead'[r] = read
           /\ \A q \in AccountRequests \ {r} :
                accountStep'[q] = accountStep[q] /\ accountRead'[q] = accountRead[q]
BY DEF AccountsInv, AccountsTypeOK, MovesTo, AccountSteps, ReadRecords

(* The logins that are over: none is taken back, and one that ends joins.  *)
LEMMA OverGrows ==
    ASSUME AccountsInv, NEW r \in AccountRequests, NEW step \in AccountSteps, NEW read \in ReadRecords,
           MovesTo(r, step, read), accountStep[r] # "over"
    PROVE  /\ Cardinality(OverLogins) \in Nat /\ Cardinality(OverLogins') \in Nat
           /\ Cardinality(OverLogins) <= Cardinality(OverLogins')
           /\ Cardinality(OverLogins') <= Cardinality(Logins)
           /\ r \in Logins /\ step = "over" => Cardinality(OverLogins') = Cardinality(OverLogins) + 1
<1>1. OverLogins' = IF r \in Logins /\ step = "over" THEN OverLogins \cup {r} ELSE OverLogins
  BY AccountMoved, Kinds DEF OverLogins
<1>2. IsFiniteSet(OverLogins) /\ IsFiniteSet(OverLogins') /\ IsFiniteSet(Logins)
      /\ OverLogins' \subseteq Logins
  BY AccountConstantsOK, FS_Subset DEF OverLogins
<1>3. r \notin OverLogins
  BY DEF OverLogins
<1>4. Cardinality(OverLogins) \in Nat /\ Cardinality(OverLogins') \in Nat
      /\ Cardinality(OverLogins') <= Cardinality(Logins)
  BY <1>2, FS_CardinalityType, FS_Subset
<1>5. Cardinality(OverLogins \cup {r}) = Cardinality(OverLogins) + 1
  BY <1>2, <1>3, FS_AddElement
<1>. QED
  BY <1>1, <1>4, <1>5
------------------------------------------------------------------------------
(* A request that goes on, or ends, without touching a token; of the row   *)
(* it may change the password and clear the counter and the lock.          *)
LEMMA RequestMoves ==
    ASSUME AccountsInv, NEW r \in AccountRequests, NEW step \in AccountSteps, NEW read \in ReadRecords,
           MovesTo(r, step, read), StepOfKind(r, step), accountStep[r] # "over", step # "idle",
           step \in {"store", "mark"} => read.password \in Passwords,
           step = "insert" => accountStep[r] = "idle",
           step = "mark" => UsedTokens = {} /\ \A k \in read.seen : tokenState[k] = "active",
           step = "wrong" => read.attempts <= wrongLogins,
           UNCHANGED <<tokenVars, userStatus, globalRole, wrongLogins>>,
           passwordOf' \in Passwords \cup {"none"}, passwordOf # "none" => passwordOf' # "none",
           failedLogins' \in {failedLogins, 0}, locked' \in {locked, FALSE},
           sessionState' \in [Logins -> {"none", "valid", "ended"}],
           activated' \subseteq Activations,
           activated' # {} => userStatus = "active" /\ passwordOf' # "none"
    PROVE  AccountsInv'
<1>. USE DEF AccountsInv
<1>1. UNCHANGED <<tokenState, lapsed, recent, userStatus, globalRole, wrongLogins>>
  BY DEF tokenVars
<1>2. /\ accountStep' \in [AccountRequests -> AccountSteps]
      /\ accountRead' \in [AccountRequests -> ReadRecords]
      /\ accountStep'[r] = step /\ accountRead'[r] = read
      /\ \A q \in AccountRequests \ {r} :
           accountStep'[q] = accountStep[q] /\ accountRead'[q] = accountRead[q]
  BY AccountMoved
<1>3. Cardinality(Logins) \in Nat
  BY AccountConstantsOK, FS_CardinalityType
<1>4. AccountsTypeOK'
  <2>1. failedLogins' \in 0..Cardinality(Logins) /\ wrongLogins' \in 0..Cardinality(Logins)
    BY <1>1, <1>3 DEF AccountsTypeOK
  <2>2. locked' \in BOOLEAN
    BY DEF AccountsTypeOK
  <2>. QED
    BY <1>1, <1>2, <2>1, <2>2 DEF AccountsTypeOK, AccountSteps, ReadRecords
<1>5. StepsFit'
  <2>1. \A q \in AccountRequests :
          accountStep'[q] \in {"store", "mark"} => accountRead'[q].password \in Passwords
    BY <1>2 DEF StepsFit
  <2>2. \A k \in Links : accountStep'[k] \in {"idle", "insert"} => tokenState'[k] = "none"
    <3>1. ASSUME NEW k \in Links, accountStep'[k] \in {"idle", "insert"}
          PROVE  accountStep[k] \in {"idle", "insert"}
      BY <1>2, <3>1, Kinds
    <3>. QED
      BY <1>1, <3>1 DEF StepsFit
  <2>3. \A q \in AccountRequests : StepOfKind(q, accountStep[q])
    BY Kinds DEF StepsFit, StepOfKind
  <2>4. \A q \in AccountRequests : StepOfKind(q, accountStep'[q])
    BY <1>2, <2>3
  <2>. QED
    BY <2>1, <2>2, <2>4, Kinds DEF StepsFit, StepOfKind
<1>6. OneToken'
  <2>1. UsedTokens' = UsedTokens
    BY <1>1 DEF UsedTokens
  <2>2. ASSUME NEW a \in Activations, accountStep'[a] = "mark", NEW k \in accountRead'[a].seen
        PROVE  tokenState[k] # "none" /\ (UsedTokens # {} => tokenState[k] # "active")
    <3>1. CASE a = r
      BY <1>2, <2>2, <3>1
    <3>2. CASE a # r
      BY <1>2, <2>2, <3>2, Kinds DEF OneToken
    <3>. QED
      BY <3>1, <3>2
  <2>. QED
    BY <1>1, <2>1, <2>2 DEF OneToken
<1>7. UsedIsActive'
  <2>1. UsedTokens' = UsedTokens
    BY <1>1 DEF UsedTokens
  <2>. QED
    BY <1>1, <2>1 DEF UsedIsActive
<1>8. CountersEarned'
  <2>1. Cardinality(OverLogins) <= Cardinality(OverLogins')
        /\ Cardinality(OverLogins) \in Nat /\ Cardinality(OverLogins') \in Nat
    BY OverGrows
  <2>2. wrongLogins \in Nat /\ failedLogins \in Nat
    BY <1>3 DEF AccountsTypeOK
  <2>3. \A l \in Logins : accountStep'[l] = "wrong" => accountRead'[l].attempts <= wrongLogins
    BY <1>2, Kinds DEF CountersEarned
  <2>. QED
    BY <1>1, <2>1, <2>2, <2>3 DEF CountersEarned
<1>9. LockIsEarned'
  BY <1>1 DEF LockIsEarned, AccountsTypeOK
<1>. QED
  BY <1>4, <1>5, <1>6, <1>7, <1>8, <1>9

(* The row and the tokens change, and no request.                          *)
LEMMA RowMoves ==
    ASSUME AccountsInv, UNCHANGED <<accountRequestVars, tokenState>>,
           userStatus' \in {"absent", "pending_activation", "active"},
           userStatus = "active" => userStatus' = "active",
           globalRole' \in {"none", "admin"},
           passwordOf' \in Passwords \cup {"none"}, passwordOf # "none" => passwordOf' # "none",
           failedLogins' \in {failedLogins, 0}, locked' \in {locked, FALSE},
           lapsed' \subseteq Links, recent' \subseteq Links,
           sessionState' \in [Logins -> {"none", "valid", "ended"}]
    PROVE  AccountsInv'
<1>1. UNCHANGED <<accountStep, accountRead, activated, wrongLogins, tokenState>>
  BY DEF accountRequestVars
<1>2. UsedTokens' = UsedTokens /\ OverLogins' = OverLogins
  BY <1>1 DEF UsedTokens, OverLogins
<1>3. Cardinality(Logins) \in Nat
  BY AccountConstantsOK, FS_CardinalityType
<1>4. AccountsTypeOK'
  <2>1. failedLogins' \in 0..Cardinality(Logins) /\ wrongLogins' \in 0..Cardinality(Logins)
    BY <1>1, <1>3 DEF AccountsInv, AccountsTypeOK
  <2>2. locked' \in BOOLEAN
    BY DEF AccountsInv, AccountsTypeOK
  <2>. QED
    BY <1>1, <2>1, <2>2 DEF AccountsInv, AccountsTypeOK
<1>5. CountersEarned' /\ LockIsEarned'
  <2>1. failedLogins' <= wrongLogins
    BY <1>3 DEF AccountsInv, AccountsTypeOK, CountersEarned
  <2>2. CountersEarned'
    BY <1>1, <1>2, <2>1 DEF AccountsInv, CountersEarned
  <2>3. locked' => locked
    OBVIOUS
  <2>. QED
    BY <1>1, <2>2, <2>3 DEF AccountsInv, LockIsEarned
<1>6. StepsFit' /\ OneToken' /\ UsedIsActive'
  BY <1>1, <1>2 DEF AccountsInv, StepsFit, OneToken, UsedIsActive
<1>. QED
  BY <1>4, <1>5, <1>6 DEF AccountsInv

(* The answers.                                                            *)
LEMMA Replied ==
    ASSUME AccountsInv, NEW r \in AccountRequests, NEW answer, Reply(r, answer)
    PROVE  /\ MovesTo(r, "over", NothingRead) /\ wrongLogins' = wrongLogins
           /\ activated' \subseteq Activations
           /\ activated' = activated \/ (answer = "ok" /\ r \in Activations)
BY DEF Reply, MovesTo, AccountsInv, AccountsTypeOK

(* A refused or answered request of which nothing else is left.            *)
LEMMA ReplyOnly ==
    ASSUME AccountsInv, NEW r \in AccountRequests, NEW answer, Reply(r, answer),
           accountStep[r] # "over", UNCHANGED <<userVars, tokenVars>>,
           sessionState' \in [Logins -> {"none", "valid", "ended"}],
           answer = "ok" /\ r \in Activations => userStatus = "active" /\ passwordOf # "none"
    PROVE  AccountsInv'
<1>1. /\ MovesTo(r, "over", NothingRead) /\ wrongLogins' = wrongLogins
      /\ activated' \subseteq Activations
      /\ activated' # {} => userStatus = "active" /\ passwordOf # "none"
  BY Replied DEF AccountsInv, UsedIsActive
<1>2. UNCHANGED <<userStatus, globalRole, passwordOf, failedLogins, locked>>
  BY DEF userVars
<1>3. passwordOf \in Passwords \cup {"none"}
  BY DEF AccountsInv, AccountsTypeOK
<1>4. "over" \in AccountSteps /\ StepOfKind(r, "over")
  BY DEF AccountSteps, StepOfKind
<1>. QED
  BY <1>1, <1>2, <1>3, <1>4, NothingReadType, RequestMoves

(* A request that goes on and leaves the row and the tokens alone.         *)
LEMMA ProceedOnly ==
    ASSUME AccountsInv, NEW r \in AccountRequests, NEW step \in AccountSteps, NEW read \in ReadRecords,
           Proceed(r, step, read), StepOfKind(r, step), accountStep[r] # "over", step # "idle",
           step \in {"store", "mark"} => read.password \in Passwords,
           step = "insert" => accountStep[r] = "idle",
           step = "mark" => UsedTokens = {} /\ \A k \in read.seen : tokenState[k] = "active",
           step = "wrong" => read.attempts <= wrongLogins,
           UNCHANGED <<userVars, sessionState, tokenVars>>
    PROVE  AccountsInv'
<1>1. MovesTo(r, step, read) /\ UNCHANGED <<activated, wrongLogins>>
  BY DEF Proceed, MovesTo
<1>2. UNCHANGED <<userStatus, globalRole, passwordOf, failedLogins, locked>>
  BY DEF userVars
<1>3. /\ passwordOf \in Passwords \cup {"none"}
      /\ sessionState \in [Logins -> {"none", "valid", "ended"}]
      /\ activated \subseteq Activations
      /\ activated # {} => userStatus = "active" /\ passwordOf # "none"
  BY DEF AccountsInv, AccountsTypeOK, UsedIsActive
<1>. QED
  BY <1>1, <1>2, <1>3, RequestMoves
------------------------------------------------------------------------------
LEMMA RowStepKeepsInv ==
    ASSUME AccountsInv,
           \/ CreateOrganizationUser \/ CreateAdminUser \/ LockRunsOut
           \/ \E l \in Logins : EndSession(l)
           \/ \E k \in Links : TokenLapses(k) \/ WindowCloses(k)
    PROVE  AccountsInv'
<1>. USE DEF tokenVars, userVars
<1>0. AccountsTypeOK
  BY DEF AccountsInv
<1>1. CASE CreateOrganizationUser
  BY <1>0, <1>1, RowMoves DEF CreateOrganizationUser, AccountsTypeOK
<1>2. CASE CreateAdminUser
  BY <1>0, <1>2, RowMoves, AccountConstantsOK DEF CreateAdminUser, AccountsTypeOK
<1>3. CASE LockRunsOut
  BY <1>0, <1>3, RowMoves DEF LockRunsOut, AccountsTypeOK
<1>4. CASE \E l \in Logins : EndSession(l)
  BY <1>0, <1>4, RowMoves DEF EndSession, AccountsTypeOK
<1>5. CASE \E k \in Links : TokenLapses(k) \/ WindowCloses(k)
  BY <1>0, <1>5, RowMoves DEF TokenLapses, WindowCloses, AccountsTypeOK
<1>. QED
  BY <1>1, <1>2, <1>3, <1>4, <1>5

LEMMA RevocationKeepsInv ==
    ASSUME AccountsInv, NEW k \in Links, RevokeActivationTokens(k)
    PROVE  AccountsInv'
<1>1. CASE Reply(k, "no")
  BY <1>1, Kinds, ReplyOnly DEF RevokeActivationTokens, AccountsInv, AccountsTypeOK
<1>2. CASE Proceed(k, "insert", [NothingRead EXCEPT !.seen = ActiveTokens])
  <2>1. [NothingRead EXCEPT !.seen = ActiveTokens] \in ReadRecords
    BY NothingReadType DEF ReadRecords, ActiveTokens
  <2>2. "insert" \in AccountSteps /\ StepOfKind(k, "insert")
    BY Kinds DEF AccountSteps, StepOfKind
  <2>. QED
    BY <1>2, <2>1, <2>2, Kinds, ProceedOnly DEF RevokeActivationTokens
<1>. QED
  BY <1>1, <1>2 DEF RevokeActivationTokens

(* The tokens seen at the revocation go and the new one comes, if no other *)
(* has come since.                                                         *)
LEMMA InsertKeepsInv ==
    ASSUME AccountsInv, NEW k \in Links, InsertActivationToken(k)
    PROVE  AccountsInv'
<1>. USE DEF AccountsInv
<1>1. CASE ~OneActiveToken(k)
  BY <1>1, Kinds, ReplyOnly DEF InsertActivationToken, AccountsTypeOK, tokenVars
<1>2. CASE OneActiveToken(k)
  <2>1. /\ accountStep[k] = "insert"
        /\ tokenState' = [t \in Links |->
                            IF t = k THEN "active"
                            ELSE IF t \in accountRead[k].seen \cap ActiveTokens THEN "revoked"
                            ELSE tokenState[t]]
        /\ Reply(k, "ok")
        /\ UNCHANGED <<userStatus, globalRole, passwordOf, failedLogins, locked, sessionState, lapsed, recent>>
    BY <1>2 DEF InsertActivationToken, userVars
  <2>2. MovesTo(k, "over", NothingRead) /\ UNCHANGED <<wrongLogins, activated>>
    BY <2>1, Kinds, Replied
  <2>3. "over" \in AccountSteps /\ k \in AccountRequests
    BY Kinds DEF AccountSteps
  <2>4. /\ accountStep' \in [AccountRequests -> AccountSteps]
        /\ accountRead' \in [AccountRequests -> ReadRecords]
        /\ accountStep'[k] = "over"
        /\ \A q \in AccountRequests \ {k} :
             accountStep'[q] = accountStep[q] /\ accountRead'[q] = accountRead[q]
    BY <2>2, <2>3, AccountMoved, NothingReadType
  <2>5. \A t \in Links : tokenState'[t] = IF t = k THEN "active"
                                          ELSE IF tokenState[t] = "active" THEN "revoked"
                                          ELSE tokenState[t]
    BY <1>2, <2>1 DEF OneActiveToken, ActiveTokens
  <2>6. AccountsTypeOK'
    <3>1. tokenState' \in [Links -> {"none", "active", "used", "revoked"}]
      BY <2>1 DEF AccountsTypeOK
    <3>. QED
      BY <2>1, <2>2, <2>4, <3>1 DEF AccountsTypeOK, AccountSteps, ReadRecords
  <2>7. StepsFit'
    <3>1. \A q \in AccountRequests :
            accountStep'[q] \in {"store", "mark"} => accountRead'[q].password \in Passwords
      BY <2>4 DEF StepsFit
    <3>2. \A j \in Links : accountStep'[j] \in {"idle", "insert"} => tokenState'[j] = "none"
      BY <2>4, <2>5, Kinds DEF StepsFit
    <3>. QED
      BY <2>4, <3>1, <3>2, Kinds DEF StepsFit
  <2>8. UsedTokens' = UsedTokens
    <3>1. tokenState[k] = "none"
      BY <2>1 DEF StepsFit
    <3>. QED
      BY <2>5, <3>1 DEF UsedTokens
  <2>9. OneToken'
    <3>1. ASSUME NEW a \in Activations, accountStep'[a] = "mark", NEW j \in accountRead'[a].seen
          PROVE  tokenState'[j] # "none" /\ (UsedTokens # {} => tokenState'[j] # "active")
      <4>1. /\ accountStep[a] = "mark" /\ j \in accountRead[a].seen
            /\ accountRead[a].seen \subseteq Links
        BY <2>4, <3>1, Kinds DEF AccountsTypeOK
      <4>2. tokenState[j] # "none" /\ (UsedTokens # {} => tokenState[j] # "active")
        BY <4>1 DEF OneToken
      <4>3. j # k
        BY <2>1, <4>2 DEF StepsFit
      <4>. QED
        BY <2>5, <4>1, <4>2, <4>3
    <3>2. \A i, j \in Links : tokenState'[i] = "active" /\ tokenState'[j] = "active" => i = j
      BY <2>5
    <3>3. \A i, j \in Links : tokenState'[i] = "used" /\ tokenState'[j] = "used" => i = j
      BY <2>5 DEF OneToken
    <3>. QED
      BY <2>8, <3>1, <3>2, <3>3 DEF OneToken
  <2>10. UsedIsActive' /\ LockIsEarned'
    BY <2>1, <2>2, <2>8 DEF UsedIsActive, LockIsEarned
  <2>11. CountersEarned'
    <3>1. OverLogins' = OverLogins
      BY <2>4, Kinds DEF OverLogins
    <3>2. \A l \in Logins : accountStep'[l] = "wrong" => accountRead'[l].attempts <= wrongLogins
      BY <2>4, Kinds DEF CountersEarned
    <3>. QED
      BY <2>1, <2>2, <3>1, <3>2 DEF CountersEarned
  <2>. QED
    BY <2>6, <2>7, <2>9, <2>10, <2>11
<1>. QED
  BY <1>1, <1>2

LEMMA ReadActivationKeepsInv ==
    ASSUME AccountsInv, NEW a \in Activations, NEW k \in Links, NEW p \in Passwords, ReadActivation(a, k, p)
    PROVE  AccountsInv'
<1>. DEFINE read == [password |-> p, attempts |-> 0, seen |-> {k}]
<1>1. accountStep[a] = "idle" /\ UNCHANGED <<userVars, sessionState, tokenVars>>
      /\ sessionState \in [Logins -> {"none", "valid", "ended"}]
  BY DEF ReadActivation, AccountsInv, AccountsTypeOK
<1>2. CASE Reply(a, "ok") /\ RecentlyCompleted(k)
  <2>1. userStatus = "active" /\ passwordOf # "none"
    BY <1>2 DEF RecentlyCompleted, AccountsInv, UsedIsActive, UsedTokens
  <2>. QED
    BY <1>1, <1>2, <2>1, Kinds, ReplyOnly
<1>3. CASE Reply(a, "no")
  BY <1>1, <1>3, Kinds, ReplyOnly
<1>4. CASE /\ Proceed(a, "mark", read)
           /\ tokenState[k] = "active" /\ userStatus = "pending_activation"
  <2>1. read \in ReadRecords
    BY AccountConstantsOK, FS_CardinalityType DEF ReadRecords
  <2>2. "mark" \in AccountSteps /\ StepOfKind(a, "mark")
    BY Kinds DEF AccountSteps, StepOfKind
  <2>3. UsedTokens = {}
    BY <1>4 DEF AccountsInv, UsedIsActive
  <2>4. read.password \in Passwords /\ read.seen = {k}
    OBVIOUS
  <2>. HIDE DEF read
  <2>. QED
    BY <1>1, <1>4, <2>1, <2>2, <2>3, <2>4, Kinds, ProceedOnly
<1>. QED
  BY <1>2, <1>3, <1>4 DEF ReadActivation

(* An activation that still finds its token active uses it: it was the     *)
(* only active one, and none had been used.                                *)
LEMMA ActivationKeepsInv ==
    ASSUME AccountsInv, NEW a \in Activations, NEW k \in Links, CompleteActivation(a, k)
    PROVE  AccountsInv'
<1>. USE DEF AccountsInv
<1>1. CASE ~StillUsable(k)
  <2>1. /\ accountStep[a] = "mark" /\ UNCHANGED <<userVars, tokenVars, sessionState>>
        /\ Reply(a, IF RecentlyCompleted(k) THEN "ok" ELSE "no")
    BY <1>1 DEF CompleteActivation, userVars, tokenVars
  <2>2. RecentlyCompleted(k) => userStatus = "active" /\ passwordOf # "none"
    BY DEF RecentlyCompleted, UsedIsActive, UsedTokens
  <2>3. sessionState' \in [Logins -> {"none", "valid", "ended"}] /\ a \in AccountRequests
    BY <2>1, Kinds DEF AccountsTypeOK
  <2>4. CASE RecentlyCompleted(k)
    BY <2>1, <2>2, <2>3, <2>4, ReplyOnly
  <2>5. CASE ~RecentlyCompleted(k)
    BY <2>1, <2>3, <2>5, ReplyOnly
  <2>. QED
    BY <2>4, <2>5
<1>2. CASE StillUsable(k)
  <2>1. /\ accountStep[a] = "mark" /\ k \in accountRead[a].seen /\ tokenState[k] = "active"
        /\ tokenState' = [tokenState EXCEPT ![k] = "used"] /\ recent' = recent \cup {k}
        /\ userStatus' = "active" /\ passwordOf' = accountRead[a].password
        /\ failedLogins' = 0 /\ locked' = FALSE
        /\ Reply(a, "ok") /\ UNCHANGED <<globalRole, sessionState, lapsed>>
    BY <1>2 DEF CompleteActivation, StillUsable
  <2>2. /\ MovesTo(a, "over", NothingRead) /\ UNCHANGED wrongLogins
        /\ activated' \subseteq Activations /\ a \in AccountRequests
    BY <2>1, Kinds, Replied
  <2>3. "over" \in AccountSteps
    BY DEF AccountSteps
  <2>4. /\ accountStep' \in [AccountRequests -> AccountSteps]
        /\ accountRead' \in [AccountRequests -> ReadRecords]
        /\ accountStep'[a] = "over"
        /\ \A q \in AccountRequests \ {a} :
             accountStep'[q] = accountStep[q] /\ accountRead'[q] = accountRead[q]
    BY <2>2, <2>3, AccountMoved, NothingReadType
  <2>5. tokenState'[k] = "used" /\ \A t \in Links \ {k} : tokenState'[t] = tokenState[t]
    BY <2>1 DEF AccountsTypeOK
  <2>6. passwordOf' \in Passwords /\ passwordOf' # "none"
    BY <2>1, <2>2, AccountConstantsOK DEF StepsFit
  <2>7. AccountsTypeOK'
    <3>1. tokenState' \in [Links -> {"none", "active", "used", "revoked"}]
      BY <2>1 DEF AccountsTypeOK
    <3>2. 0 \in 0..Cardinality(Logins)
      BY AccountConstantsOK, FS_CardinalityType
    <3>. QED
      BY <2>1, <2>2, <2>4, <2>6, <3>1, <3>2 DEF AccountsTypeOK, AccountSteps, ReadRecords
  <2>8. StepsFit'
    <3>1. \A q \in AccountRequests :
            accountStep'[q] \in {"store", "mark"} => accountRead'[q].password \in Passwords
      BY <2>4 DEF StepsFit
    <3>2. \A j \in Links : accountStep'[j] \in {"idle", "insert"} => tokenState'[j] = "none"
      BY <2>1, <2>4, <2>5, Kinds DEF StepsFit
    <3>. QED
      BY <2>4, <3>1, <3>2, Kinds DEF StepsFit
  <2>9. OneToken'
    <3>1. UsedTokens = {}
      BY <2>1 DEF OneToken
    <3>2. \A t \in Links : tokenState'[t] = "used" => t = k
      BY <2>5, <3>1 DEF UsedTokens
    <3>3. \A t \in Links : tokenState'[t] # "active"
      BY <2>1, <2>5 DEF OneToken
    <3>4. ASSUME NEW c \in Activations, accountStep'[c] = "mark", NEW j \in accountRead'[c].seen
          PROVE  tokenState'[j] # "none" /\ tokenState'[j] # "active"
      <4>1. /\ accountStep[c] = "mark" /\ j \in accountRead[c].seen
            /\ accountRead[c].seen \subseteq Links
        BY <2>4, <3>4, Kinds DEF AccountsTypeOK
      <4>2. tokenState[j] # "none"
        BY <4>1 DEF OneToken
      <4>. QED
        BY <2>5, <3>3, <4>1, <4>2
    <3>. QED
      BY <3>2, <3>3, <3>4 DEF OneToken
  <2>10. UsedIsActive' /\ LockIsEarned'
    BY <2>1, <2>6 DEF UsedIsActive, LockIsEarned
  <2>11. CountersEarned'
    <3>1. OverLogins' = OverLogins
      BY <2>4, Kinds DEF OverLogins
    <3>2. \A l \in Logins : accountStep'[l] = "wrong" => accountRead'[l].attempts <= wrongLogins
      BY <2>4, Kinds DEF CountersEarned
    <3>3. wrongLogins \in Nat
      BY AccountConstantsOK, FS_CardinalityType DEF AccountsTypeOK
    <3>. QED
      BY <2>1, <2>2, <3>1, <3>2, <3>3 DEF CountersEarned
  <2>. QED
    BY <2>7, <2>8, <2>9, <2>10, <2>11
<1>. QED
  BY <1>1, <1>2
------------------------------------------------------------------------------
(* A wrong password is counted once, from a counter that was earned.       *)
LEMMA RefusalKeepsInv ==
    ASSUME AccountsInv, NEW l \in Logins, RefuseWrongPassword(l)
    PROVE  AccountsInv'
<1>. USE DEF AccountsInv
<1>1. /\ accountStep[l] = "wrong" /\ MovesTo(l, "over", NothingRead)
      /\ failedLogins' = accountRead[l].attempts + 1
      /\ locked' = LocksAt(accountRead[l].attempts + 1)
      /\ wrongLogins' = wrongLogins + 1
      /\ UNCHANGED <<userStatus, globalRole, passwordOf, sessionState, tokenState, lapsed, recent, activated>>
  BY DEF RefuseWrongPassword, MovesTo, tokenVars
<1>2. "over" \in AccountSteps /\ l \in AccountRequests
  BY Kinds DEF AccountSteps
<1>3. /\ accountStep' \in [AccountRequests -> AccountSteps]
      /\ accountRead' \in [AccountRequests -> ReadRecords]
      /\ accountStep'[l] = "over"
      /\ \A q \in AccountRequests \ {l} :
           accountStep'[q] = accountStep[q] /\ accountRead'[q] = accountRead[q]
  BY <1>1, <1>2, AccountMoved, NothingReadType
<1>4. /\ Cardinality(OverLogins) \in Nat /\ Cardinality(OverLogins') = Cardinality(OverLogins) + 1
      /\ Cardinality(OverLogins') <= Cardinality(Logins) /\ Cardinality(Logins) \in Nat
  <2>1. /\ Cardinality(OverLogins) \in Nat
        /\ Cardinality(OverLogins') <= Cardinality(Logins)
        /\ Cardinality(OverLogins') = Cardinality(OverLogins) + 1
    BY <1>1, <1>2, OverGrows, NothingReadType
  <2>. QED
    BY <2>1, AccountConstantsOK, FS_CardinalityType
<1>5. /\ wrongLogins \in Nat /\ accountRead[l].attempts \in Nat
      /\ accountRead[l].attempts <= wrongLogins /\ wrongLogins <= Cardinality(OverLogins)
  BY <1>1, <1>2, <1>4 DEF AccountsTypeOK, CountersEarned
<1>6. AccountsTypeOK'
  <2>1. failedLogins' \in 0..Cardinality(Logins) /\ wrongLogins' \in 0..Cardinality(Logins)
    BY <1>1, <1>4, <1>5
  <2>2. locked' \in BOOLEAN
    BY <1>1 DEF LocksAt
  <2>. QED
    BY <1>1, <1>3, <2>1, <2>2 DEF AccountsTypeOK, AccountSteps, ReadRecords
<1>7. StepsFit'
  <2>1. \A q \in AccountRequests :
          accountStep'[q] \in {"store", "mark"} => accountRead'[q].password \in Passwords
    BY <1>3 DEF StepsFit
  <2>. QED
    BY <1>1, <1>3, <2>1, Kinds DEF StepsFit
<1>8. UsedTokens' = UsedTokens
  BY <1>1 DEF UsedTokens
<1>9. OneToken' /\ UsedIsActive'
  BY <1>1, <1>3, <1>8, Kinds DEF OneToken, UsedIsActive
<1>10. CountersEarned'
  <2>1. \A m \in Logins : accountStep'[m] = "wrong" => accountRead'[m].attempts <= wrongLogins
    BY <1>3, Kinds DEF CountersEarned
  <2>2. \A m \in Logins : accountStep'[m] = "wrong" => accountRead'[m].attempts \in Nat
    BY <1>3, <1>4, Kinds DEF ReadRecords
  <2>. QED
    BY <1>1, <1>4, <1>5, <2>1, <2>2 DEF CountersEarned
<1>11. LockIsEarned'
  <2>1. accountRead[l].attempts + 1 >= MaxFailedLogins => wrongLogins' >= MaxFailedLogins
    BY <1>1, <1>5, AccountConstantsOK
  <2>2. locked' => accountRead[l].attempts + 1 >= MaxFailedLogins
    BY <1>1 DEF LocksAt
  <2>. QED
    BY <2>1, <2>2 DEF LockIsEarned
<1>. QED
  BY <1>6, <1>7, <1>9, <1>10, <1>11

LEMMA LoginKeepsInv ==
    ASSUME AccountsInv, NEW l \in Logins,
           \/ \E p \in Passwords : ReadForLogin(l, p)
           \/ ResetFailedLogins(l) \/ OpenSession(l)
    PROVE  AccountsInv'
<1>0. /\ sessionState \in [Logins -> {"none", "valid", "ended"}] /\ l \in AccountRequests
      /\ passwordOf \in Passwords \cup {"none"}
      /\ activated \subseteq Activations /\ l \notin Activations
      /\ activated # {} => userStatus = "active" /\ passwordOf # "none"
  BY Kinds DEF AccountsInv, AccountsTypeOK, UsedIsActive
<1>1. ASSUME NEW p \in Passwords, ReadForLogin(l, p) PROVE AccountsInv'
  <2>. DEFINE step == IF p = passwordOf THEN "right" ELSE "wrong"
              read == [NothingRead EXCEPT !.attempts = failedLogins]
  <2>1. CASE Reply(l, "no")
    BY <1>0, <1>1, <2>1, ReplyOnly DEF ReadForLogin
  <2>2. CASE Proceed(l, step, read)
    <3>1. read \in ReadRecords /\ read.attempts = failedLogins
      BY NothingReadType DEF NothingRead, ReadRecords, AccountsInv, AccountsTypeOK
    <3>2. step \in {"right", "wrong"}
      OBVIOUS
    <3>3. /\ step \in AccountSteps /\ StepOfKind(l, step)
          /\ step \notin {"idle", "store", "mark", "insert"}
      BY <3>2, Kinds DEF AccountSteps, StepOfKind
    <3>4. failedLogins <= wrongLogins
      BY DEF AccountsInv, CountersEarned
    <3>5. accountStep[l] # "over" /\ UNCHANGED <<userVars, sessionState, tokenVars>>
      BY <1>1 DEF ReadForLogin
    <3>. HIDE DEF step, read
    <3>. QED
      BY <1>0, <2>2, <3>1, <3>3, <3>4, <3>5, ProceedOnly
  <2>. QED
    BY <1>1, <2>1, <2>2 DEF ReadForLogin
<1>2. CASE ResetFailedLogins(l)
  <2>1. /\ MovesTo(l, "open", NothingRead) /\ UNCHANGED <<activated, wrongLogins>>
        /\ accountStep[l] # "over" /\ failedLogins' = 0 /\ locked' = FALSE
        /\ UNCHANGED <<userStatus, globalRole, passwordOf, sessionState, tokenVars>>
    BY <1>2 DEF ResetFailedLogins, Proceed, MovesTo
  <2>2. "open" \in AccountSteps /\ StepOfKind(l, "open")
    BY Kinds DEF AccountSteps, StepOfKind
  <2>. QED
    BY <1>0, <2>1, <2>2, NothingReadType, RequestMoves
<1>3. CASE OpenSession(l)
  BY <1>0, <1>3, ReplyOnly DEF OpenSession
<1>. QED
  BY <1>1, <1>2, <1>3

LEMMA ChangeKeepsInv == ASSUME AccountsInv, NEW c \in PasswordChanges, ChangeStep(c) PROVE AccountsInv'
<1>0. /\ sessionState \in [Logins -> {"none", "valid", "ended"}] /\ c \in AccountRequests
      /\ activated \subseteq Activations /\ c \notin Activations
      /\ activated # {} => userStatus = "active" /\ passwordOf # "none"
  BY Kinds DEF AccountsInv, AccountsTypeOK, UsedIsActive
<1>1. ASSUME NEW l \in Logins, NEW old \in Passwords, NEW new \in Passwords, ReadForChange(c, l, old, new)
      PROVE  AccountsInv'
  <2>. DEFINE read == [NothingRead EXCEPT !.password = new]
  <2>1. CASE Reply(c, "no")
    BY <1>0, <1>1, <2>1, ReplyOnly DEF ReadForChange
  <2>2. CASE Proceed(c, "store", read)
    <3>1. read \in ReadRecords /\ read.password = new
      BY NothingReadType DEF NothingRead, ReadRecords
    <3>2. "store" \in AccountSteps /\ StepOfKind(c, "store")
      BY Kinds DEF AccountSteps, StepOfKind
    <3>3. accountStep[c] # "over" /\ UNCHANGED <<userVars, sessionState, tokenVars>>
      BY <1>1 DEF ReadForChange
    <3>. HIDE DEF read
    <3>. QED
      BY <1>0, <2>2, <3>1, <3>2, <3>3, ProceedOnly
  <2>. QED
    BY <1>1, <2>1, <2>2 DEF ReadForChange
<1>2. CASE StorePassword(c)
  <2>1. /\ MovesTo(c, "revoke", NothingRead) /\ UNCHANGED <<activated, wrongLogins>>
        /\ accountStep[c] # "over" /\ passwordOf' = accountRead[c].password
        /\ UNCHANGED <<userStatus, globalRole, failedLogins, locked, sessionState, tokenVars>>
    BY <1>2 DEF StorePassword, Proceed, MovesTo
  <2>2. passwordOf' \in Passwords /\ passwordOf' # "none"
    BY <1>0, <1>2, <2>1, AccountConstantsOK DEF StorePassword, AccountsInv, StepsFit
  <2>3. "revoke" \in AccountSteps /\ StepOfKind(c, "revoke")
    BY Kinds DEF AccountSteps, StepOfKind
  <2>. QED
    BY <1>0, <2>1, <2>2, <2>3, NothingReadType, RequestMoves
<1>3. CASE RevokeAllSessions(c)
  BY <1>0, <1>3, ReplyOnly DEF RevokeAllSessions
<1>. QED
  BY <1>1, <1>2, <1>3 DEF ChangeStep

LEMMA StepAccounts == ASSUME AccountsInv, [AccountsNext]_accountVars PROVE AccountsInv'
<1>1. ASSUME NEW r \in AccountRequests, AbandonAccountRequest(r) PROVE AccountsInv'
  <2>1. sessionState' \in [Logins -> {"none", "valid", "ended"}]
    BY <1>1 DEF AbandonAccountRequest, AccountsInv, AccountsTypeOK
  <2>. QED
    BY <1>1, <2>1, ReplyOnly DEF AbandonAccountRequest
<1>2. ASSUME NEW l \in Logins, LoginStep(l) PROVE AccountsInv'
  BY <1>2, LoginKeepsInv, RefusalKeepsInv, RowStepKeepsInv DEF LoginStep
<1>3. ASSUME NEW k \in Links, LinkStep(k) PROVE AccountsInv'
  BY <1>3, RevocationKeepsInv, InsertKeepsInv, RowStepKeepsInv, ActivationKeepsInv, ReadActivationKeepsInv
  DEF LinkStep
<1>4. CASE UNCHANGED accountVars
  <2>1. UNCHANGED <<userStatus, globalRole, passwordOf, failedLogins, locked, sessionState, lapsed, recent,
                    tokenState, accountRequestVars>>
    BY <1>4 DEF accountVars, userVars, tokenVars
  <2>. QED
    BY <2>1, RowMoves DEF AccountsInv, AccountsTypeOK
<1>. QED
  BY <1>1, <1>2, <1>3, <1>4, ChangeKeepsInv, RowStepKeepsInv DEF AccountsNext

LEMMA AccountsInductive == AccountsSpec => []AccountsInv
BY InitAccounts, StepAccounts, PTL DEF AccountsSpec

(* A set of links of which any two are the same has at most one member.    *)
LEMMA AtMostOne ==
    ASSUME NEW S \in SUBSET Links, \A j, k \in S : j = k
    PROVE  Cardinality(S) <= 1
<1>1. CASE S = {}
  BY <1>1, FS_EmptySet
<1>2. ASSUME NEW k \in S PROVE Cardinality(S) <= 1
  <2>1. S = {k}
    BY <1>2
  <2>2. Cardinality({k}) = 1
    BY FS_Singleton
  <2>. QED
    BY <2>1, <2>2
<1>. QED
  BY <1>1, <1>2

(* The account's row, its sessions, its tokens and its requests keep their *)
(* shape, and no counter exceeds the number of logins.                     *)
THEOREM AccountsTypeCorrect == AccountsSpec => []AccountsTypeOK
<1>1. AccountsInv => AccountsTypeOK
  BY DEF AccountsInv
<1>. QED
  BY <1>1, AccountsInductive, PTL

(* For any number of link requests, activations, logins and password       *)
(* changes: one token at most is ever used, whoever was told that the      *)
(* activation succeeded has an active account with a password, and a lock  *)
(* has been earned by wrong passwords.                                     *)
THEOREM ActivatedOnceAndLockEarned == AccountsSpec => []AccountsHold
<1>1. AccountsInv => AccountsHold
  <2>. SUFFICES ASSUME AccountsInv PROVE AccountsHold
    OBVIOUS
  <2>2. /\ \A j, k \in UsedTokens : j = k
        /\ \A j, k \in ActiveTokens : j = k
        /\ UsedTokens \in SUBSET Links /\ ActiveTokens \in SUBSET Links
    BY DEF AccountsInv, OneToken, UsedTokens, ActiveTokens
  <2>3. Cardinality(UsedTokens) <= 1 /\ Cardinality(ActiveTokens) <= 1
    BY <2>2, AtMostOne
  <2>4. activated # {} => userStatus = "active" /\ passwordOf # "none"
    BY DEF AccountsInv, UsedIsActive
  <2>5. ActivatedOnce
    BY <2>3, <2>4 DEF ActivatedOnce, UsedTokens
  <2>. QED
    BY <2>5 DEF AccountsInv, AccountsHold
<1>. QED
  BY <1>1, AccountsInductive, PTL

------------------------------------------------------------------------------
(***************************************************************************)
(* Google sign-in.                                                         *)
(***************************************************************************)

ActiveNow(u) == u \in Emails /\ userState[u] = "active"

(* What a callback holds when it has come to a step.  A user it has found  *)
(* is active, and a session is opened for the owner of the identity.       *)
Fits(step, r) ==
    /\ r.intent = "link" => ActiveNow(r.user)
    /\ step = "attach" => ActiveNow(r.user)
    /\ step = "create" => r.user \in Emails
    /\ step = "session" => ActiveNow(r.user) /\ identityUser[r.subject] = r.user

GoogleIdentityInv ==
    /\ \A s, t \in Subjects : identityUser[s] = identityUser[t] /\ identityUser[s] # NoUser => s = t
    /\ \A s \in Subjects : identityUser[s] # NoUser => ActiveNow(identityUser[s])

ReadInv ==
    \A c \in Callbacks :
        /\ \A r \in googleRead[c] : Fits(googleStep[c], r)
        /\ \A q, r \in googleRead[c] : q = r

ReplyInv ==
    \A c \in Callbacks :
        /\ googleStep[c] # "over" => googleReply[c].outcome = "none"
        /\ googleReply[c].outcome \in {"session", "linked"} =>
              /\ ActiveNow(googleReply[c].user)
              /\ \E r \in googleRead[c] : identityUser[r.subject] = googleReply[c].user

GoogleInv == GoogleTypeOK /\ GoogleIdentityInv /\ ReadInv /\ ReplyInv

------------------------------------------------------------------------------
LEMMA InitGoogle == GoogleInit => GoogleInv
BY DEF GoogleInit, GoogleInv, GoogleTypeOK, GoogleIdentityInv, ReadInv, ReplyInv, NoReply

(* A callback goes on without writing a row.                               *)
LEMMA GoesOn ==
    ASSUME GoogleInv, NEW c \in Callbacks, NEW r \in ClaimRecords,
           NEW step \in {"subject", "user", "attach", "create", "session"},
           googleStep[c] # "over", Fits(step, r), GoTo(c, step, r)
    PROVE  GoogleInv'
<1>1. /\ userState' = userState /\ identityUser' = identityUser /\ googleReply' = googleReply
      /\ googleStep'[c] = step /\ googleRead'[c] = {r}
      /\ \A d \in Callbacks \ {c} : googleStep'[d] = googleStep[d] /\ googleRead'[d] = googleRead[d]
  BY DEF GoTo, GoogleInv, GoogleTypeOK
<1>2. GoogleTypeOK'
  BY <1>1 DEF GoTo, GoogleInv, GoogleTypeOK
<1>3. GoogleIdentityInv'
  BY <1>1 DEF GoogleInv, GoogleIdentityInv, ActiveNow
<1>4. ReadInv'
  <2>1. \A r2, step2 : Fits(step2, r2) => /\ r2.intent = "link" => ActiveNow(r2.user)'
                                          /\ step2 = "attach" => ActiveNow(r2.user)'
                                          /\ step2 = "create" => r2.user \in Emails
                                          /\ step2 = "session" => /\ ActiveNow(r2.user)'
                                                                  /\ identityUser'[r2.subject] = r2.user
    BY <1>1 DEF Fits, ActiveNow
  <2>. QED
    BY <1>1, <2>1 DEF GoogleInv, ReadInv, Fits
<1>5. ReplyInv'
  BY <1>1 DEF GoogleInv, ReplyInv, ActiveNow
<1>. QED
  BY <1>2, <1>3, <1>4, <1>5 DEF GoogleInv

(* A callback is answered, and the rows are as before.                     *)
LEMMA IsAnswered ==
    ASSUME GoogleInv, NEW c \in Callbacks, NEW outcome \in Refusals \cup {"session", "linked"},
           NEW u \in Emails \cup {NoUser}, Redirect(c, outcome, u), UNCHANGED <<userState, identityUser>>,
           outcome \in {"session", "linked"} =>
              ActiveNow(u) /\ \E r \in googleRead[c] : identityUser[r.subject] = u
    PROVE  GoogleInv'
<1>1. /\ userState' = userState /\ identityUser' = identityUser /\ googleRead' = googleRead
      /\ googleStep'[c] = "over" /\ googleReply'[c] = [outcome |-> outcome, user |-> u]
      /\ \A d \in Callbacks \ {c} : googleStep'[d] = googleStep[d] /\ googleReply'[d] = googleReply[d]
  BY DEF Redirect, GoogleInv, GoogleTypeOK
<1>2. GoogleTypeOK'
  BY <1>1 DEF Redirect, GoogleInv, GoogleTypeOK
<1>3. GoogleIdentityInv'
  BY <1>1 DEF GoogleInv, GoogleIdentityInv, ActiveNow
<1>4. ReadInv'
  BY <1>1 DEF GoogleInv, ReadInv, Fits, ActiveNow
<1>5. ReplyInv'
  BY <1>1 DEF GoogleInv, ReplyInv, ActiveNow
<1>. QED
  BY <1>2, <1>3, <1>4, <1>5 DEF GoogleInv

LEMMA IsRefused ==
    ASSUME GoogleInv, NEW c \in Callbacks, NEW outcome \in Refusals, Refuse(c, outcome)
    PROVE  GoogleInv'
<1>1. outcome \notin {"session", "linked"}
  BY DEF Refusals
<1>. QED
  BY <1>1, IsAnswered DEF Refuse

(* A user becomes active, or appears, and what was known stays true.       *)
LEMMA MoreUsers ==
    ASSUME GoogleInv, NEW e \in Emails, UserAppears(e)
    PROVE  GoogleInv'
<1>1. /\ UNCHANGED <<identityUser, googleStep, googleRead, googleReply>>
      /\ userState' \in [Emails -> {"absent", "pending_activation", "active"}]
      /\ \A u : ActiveNow(u) => ActiveNow(u)'
  BY DEF UserAppears, ActiveNow, GoogleInv, GoogleTypeOK
<1>2. GoogleTypeOK'
  BY <1>1 DEF GoogleInv, GoogleTypeOK
<1>3. GoogleIdentityInv' /\ ReadInv' /\ ReplyInv'
  BY <1>1 DEF GoogleInv, GoogleIdentityInv, ReadInv, ReplyInv, Fits
<1>. QED
  BY <1>2, <1>3 DEF GoogleInv

(* An identity is inserted for a user that is active then; whoever holds   *)
(* the callback's claims may be told so.                                   *)
LEMMA IsAttached ==
    ASSUME GoogleInv, NEW c \in Callbacks, NEW r \in googleRead[c], r.user \in Emails,
           googleStep[c] \in {"attach", "create"},
           IdentityFree(r.subject, r.user), Attach(c, r), googleRead' = googleRead,
           userState' \in [Emails -> {"absent", "pending_activation", "active"}],
           userState'[r.user] = "active", \A e \in Emails : userState[e] = "active" => userState'[e] = "active",
           \/ googleStep' = [googleStep EXCEPT ![c] = "session"] /\ googleReply' = googleReply
           \/ /\ googleStep' = [googleStep EXCEPT ![c] = "over"]
              /\ googleReply' = [googleReply EXCEPT ![c] = [outcome |-> "linked", user |-> r.user]]
    PROVE  GoogleInv'
<1>0. /\ GoogleTypeOK /\ GoogleIdentityInv /\ ReadInv /\ ReplyInv
      /\ r \in ClaimRecords /\ r.subject \in Subjects /\ r.user # NoUser
  BY GoogleConstantsOK DEF GoogleInv, GoogleTypeOK, ClaimRecords
<1>1. /\ identityUser' \in [Subjects -> Emails \cup {NoUser}] /\ identityUser'[r.subject] = r.user
      /\ \A s \in Subjects \ {r.subject} : identityUser'[s] = identityUser[s] /\ identityUser[s] # r.user
      /\ identityUser[r.subject] = NoUser
  BY <1>0 DEF Attach, IdentityFree, HasGoogleIdentity, GoogleTypeOK
<1>2. \A u : ActiveNow(u) => ActiveNow(u)'
  BY DEF ActiveNow
<1>3. ActiveNow(r.user)'
  BY DEF ActiveNow
<1>4. /\ \A d \in Callbacks \ {c} : googleStep'[d] = googleStep[d] /\ googleReply'[d] = googleReply[d]
      /\ googleStep'[c] \in {"session", "over"}
      /\ googleStep'[c] = "session" => googleReply'[c].outcome = "none"
      /\ googleReply'[c].outcome \in {"session", "linked"} => googleReply'[c].user = r.user
  BY <1>0 DEF GoogleTypeOK, ReplyInv
<1>5. GoogleTypeOK'
  BY <1>0, <1>1 DEF GoogleTypeOK
<1>6. GoogleIdentityInv'
  BY <1>0, <1>1, <1>2, <1>3 DEF GoogleIdentityInv
<1>7. \A d \in Callbacks : \A q \in googleRead[d] :
         identityUser[q.subject] # NoUser => identityUser'[q.subject] = identityUser[q.subject]
  BY <1>0, <1>1 DEF GoogleTypeOK, ClaimRecords
<1>8. ReadInv'
  <2>1. ASSUME NEW d \in Callbacks \ {c}, NEW q \in googleRead[d]
        PROVE  Fits(googleStep[d], q)'
    <3>1. Fits(googleStep[d], q) /\ googleStep'[d] = googleStep[d]
      BY <1>0, <1>4, <2>1 DEF ReadInv
    <3>2. ActiveNow(q.user) => q.user # NoUser
      BY GoogleConstantsOK DEF ActiveNow
    <3>. QED
      BY <1>2, <1>7, <2>1, <3>1, <3>2 DEF Fits
  <2>2. \A q \in googleRead[c] : q = r /\ Fits(googleStep[c], q)
    BY <1>0 DEF ReadInv
  <2>3. \A q \in googleRead[c] : Fits(googleStep[c], q)'
    BY <1>1, <1>3, <1>4, <2>2 DEF Fits
  <2>. QED
    BY <1>0, <2>1, <2>3 DEF ReadInv
<1>9. ReplyInv'
  <2>1. ASSUME NEW d \in Callbacks \ {c}, googleReply'[d].outcome \in {"session", "linked"}
        PROVE  /\ ActiveNow(googleReply[d].user)'
               /\ \E q \in googleRead[d] : identityUser'[q.subject] = googleReply'[d].user
    <3>1. /\ ActiveNow(googleReply[d].user) /\ googleReply'[d] = googleReply[d]
          /\ \E q \in googleRead[d] : identityUser[q.subject] = googleReply[d].user
      BY <1>0, <1>4, <2>1 DEF ReplyInv
    <3>2. googleReply[d].user # NoUser
      BY <3>1, GoogleConstantsOK DEF ActiveNow
    <3>. QED
      BY <1>2, <1>7, <3>1, <3>2
  <2>2. \A d \in Callbacks \ {c} : googleStep'[d] # "over" => googleReply'[d].outcome = "none"
    BY <1>0, <1>4 DEF ReplyInv
  <2>. QED
    BY <1>1, <1>3, <1>4, <2>1, <2>2 DEF ReplyInv
<1>. QED
  BY <1>5, <1>6, <1>8, <1>9 DEF GoogleInv

------------------------------------------------------------------------------
LEMMA StepGoogle ==
    ASSUME GoogleInv, [GoogleNext]_googleVars
    PROVE  GoogleInv'
<1>0. /\ GoogleTypeOK /\ GoogleIdentityInv /\ ReadInv /\ ReplyInv
      /\ \A c \in Callbacks : \A r \in googleRead[c] :
            /\ r \in ClaimRecords /\ r.intent \in Intents /\ r.subject \in Subjects /\ r.email \in Emails
            /\ r.user \in Emails \cup {NoUser} /\ Fits(googleStep[c], r)
  BY DEF GoogleInv, GoogleTypeOK, ClaimRecords, ReadInv
<1>1. CASE UNCHANGED googleVars
  BY <1>0, <1>1 DEF googleVars, GoogleInv, GoogleTypeOK, GoogleIdentityInv, ReadInv, ReplyInv, Fits, ActiveNow
<1>2. ASSUME NEW e \in Emails, UserAppears(e)
      PROVE  GoogleInv'
  BY <1>2, MoreUsers
<1>3. ASSUME NEW c \in Callbacks, VerifyGoogleClaims(c)
      PROVE  GoogleInv'
  <2>0. googleStep[c] # "over"
    BY <1>3 DEF VerifyGoogleClaims
  <2>1. ASSUME NEW refusal \in {"invalid_state", "provider_error", "unverified", "unauthenticated"},
               Refuse(c, refusal)
        PROVE  GoogleInv'
    BY <2>1, IsRefused DEF Refusals
  <2>2. ASSUME NEW s \in Subjects, NEW e \in Emails, NEW intent \in {"login", "mobile"},
               GoTo(c, "subject", [intent |-> intent, subject |-> s, email |-> e, user |-> NoUser])
        PROVE  GoogleInv'
    <3>. DEFINE r == [intent |-> intent, subject |-> s, email |-> e, user |-> NoUser]
    <3>1. r \in ClaimRecords /\ Fits("subject", r)
      BY DEF ClaimRecords, Intents, Fits
    <3>. QED
      BY <2>0, <2>2, <3>1, GoesOn
  <2>3. ASSUME NEW s \in Subjects, NEW e \in Emails, NEW u \in Emails, userState[u] = "active",
               GoTo(c, "subject", [intent |-> "link", subject |-> s, email |-> e, user |-> u])
        PROVE  GoogleInv'
    <3>. DEFINE r == [intent |-> "link", subject |-> s, email |-> e, user |-> u]
    <3>1. r \in ClaimRecords /\ Fits("subject", r)
      BY <2>3 DEF ClaimRecords, Intents, Fits, ActiveNow
    <3>. QED
      BY <2>0, <2>3, <3>1, GoesOn
  <2>. QED
    BY <1>3, <2>1, <2>2, <2>3 DEF VerifyGoogleClaims
<1>4. ASSUME NEW c \in Callbacks, FindIdentity(c)
      PROVE  GoogleInv'
  <2>1. PICK r \in googleRead[c] :
           LET owner == identityUser[r.subject] IN
           /\ googleStep[c] = "subject"
           /\ CASE owner = NoUser -> GoTo(c, "user", r)
                [] owner # NoUser /\ r.intent = "link" -> completeGoogleOidcLink(c, r, owner)
                [] OTHER -> IF userState[owner] = "active" THEN GoTo(c, "session", [r EXCEPT !.user = owner])
                            ELSE Refuse(c, "disabled")
    BY <1>4 DEF FindIdentity
  <2>. DEFINE owner == identityUser[r.subject]
  <2>2. owner # NoUser => ActiveNow(owner)
    BY <1>0 DEF GoogleIdentityInv
  <2>3. CASE owner = NoUser
    <3>1. Fits("user", r)
      BY <1>0 DEF Fits
    <3>. QED
      BY <1>0, <2>1, <2>3, <3>1, GoesOn
  <2>4. CASE owner # NoUser /\ r.intent = "link"
    <3>1. completeGoogleOidcLink(c, r, owner)
      BY <2>1, <2>4
    <3>2. CASE owner = r.user
      BY <2>2, <2>4, <3>1, <3>2, IsAnswered DEF completeGoogleOidcLink, ActiveNow
    <3>3. CASE owner # r.user
      BY <3>1, <3>3, IsRefused DEF completeGoogleOidcLink, Refusals
    <3>. QED
      BY <3>2, <3>3
  <2>5. CASE owner # NoUser /\ r.intent # "link"
    <3>. DEFINE found == [r EXCEPT !.user = owner]
    <3>1. /\ found \in ClaimRecords /\ found.intent = r.intent /\ found.subject = r.subject
          /\ found.user = owner
      BY <1>0, <2>2, <2>5 DEF ClaimRecords, ActiveNow
    <3>2. Fits("session", found)
      BY <2>2, <2>5, <3>1 DEF Fits
    <3>3. GoTo(c, "session", found)
      BY <2>1, <2>2, <2>5 DEF ActiveNow
    <3>. QED
      BY <2>1, <3>1, <3>2, <3>3, GoesOn
  <2>. QED
    BY <2>3, <2>4, <2>5
<1>5. ASSUME NEW c \in Callbacks, FindUser(c)
      PROVE  GoogleInv'
  <2>1. PICK r \in googleRead[c] :
           LET u == IF r.intent = "link" THEN r.user ELSE r.email IN
           /\ googleStep[c] = "user"
           /\ \/ /\ r.intent # "link" /\ userState[u] = "absent"
                 /\ IF r.intent = "login" THEN GoTo(c, "create", [r EXCEPT !.user = u]) ELSE Refuse(c, "conflict")
              \/ /\ r.intent = "link" \/ userState[u] # "absent"
                 /\ IF (r.intent = "link" \/ MayJoin(u)) /\ ~HasGoogleIdentity(u)
                    THEN GoTo(c, "attach", [r EXCEPT !.user = u]) ELSE Refuse(c, "conflict")
    BY <1>5 DEF FindUser
  <2>. DEFINE u == IF r.intent = "link" THEN r.user ELSE r.email
              found == [r EXCEPT !.user = u]
  <2>2. /\ found \in ClaimRecords /\ found.intent = r.intent /\ found.user = u /\ u \in Emails
        /\ r.intent = "link" => ActiveNow(u)
    BY <1>0 DEF ClaimRecords, Fits, ActiveNow
  <2>3. CASE Refuse(c, "conflict")
    BY <2>3, IsRefused DEF Refusals
  <2>4. CASE r.intent # "link" /\ GoTo(c, "create", found)
    <3>1. Fits("create", found)
      BY <2>2, <2>4 DEF Fits
    <3>. QED
      BY <2>1, <2>2, <2>4, <3>1, GoesOn
  <2>5. CASE (r.intent = "link" \/ MayJoin(u)) /\ GoTo(c, "attach", found)
    <3>1. Fits("attach", found)
      BY <2>2, <2>5 DEF Fits, MayJoin, ActiveNow
    <3>. QED
      BY <2>1, <2>2, <2>5, <3>1, GoesOn
  <2>. QED
    BY <2>1, <2>3, <2>4, <2>5
<1>6. ASSUME NEW c \in Callbacks, AttachIdentity(c)
      PROVE  GoogleInv'
  <2>1. PICK r \in googleRead[c] :
           /\ googleStep[c] = "attach"
           /\ IF IdentityFree(r.subject, r.user)
              THEN /\ Attach(c, r)
                   /\ UNCHANGED <<userState>>
                   /\ IF r.intent = "link" THEN Redirect(c, "linked", r.user)
                      ELSE /\ googleStep' = [googleStep EXCEPT ![c] = "session"]
                           /\ UNCHANGED <<googleRead, googleReply>>
              ELSE Refuse(c, "error")
    BY <1>6 DEF AttachIdentity
  <2>2. ActiveNow(r.user)
    BY <1>0, <2>1 DEF Fits
  <2>3. CASE IdentityFree(r.subject, r.user)
    <3>1. /\ userState' = userState /\ userState'[r.user] = "active" /\ r.user \in Emails
          /\ userState' \in [Emails -> {"absent", "pending_activation", "active"}]
      BY <1>0, <2>1, <2>2, <2>3 DEF ActiveNow, GoogleTypeOK
    <3>. QED
      BY <2>1, <2>3, <3>1, IsAttached DEF Redirect
  <2>4. CASE ~IdentityFree(r.subject, r.user)
    BY <2>1, <2>4, IsRefused DEF Refusals
  <2>. QED
    BY <2>3, <2>4
<1>7. ASSUME NEW c \in Callbacks, CreateGoogleUser(c)
      PROVE  GoogleInv'
  <2>1. PICK r \in googleRead[c] :
           /\ googleStep[c] = "create"
           /\ IF userState[r.user] = "absent" /\ IdentityFree(r.subject, r.user)
              THEN /\ userState' = [userState EXCEPT ![r.user] = "active"]
                   /\ Attach(c, r)
                   /\ googleStep' = [googleStep EXCEPT ![c] = "session"]
                   /\ UNCHANGED <<googleRead, googleReply>>
              ELSE Refuse(c, "error")
    BY <1>7 DEF CreateGoogleUser
  <2>2. r.user \in Emails
    BY <1>0, <2>1 DEF Fits
  <2>3. CASE userState[r.user] = "absent" /\ IdentityFree(r.subject, r.user)
    <3>1. /\ userState' \in [Emails -> {"absent", "pending_activation", "active"}]
          /\ userState'[r.user] = "active"
          /\ \A e \in Emails : userState[e] = "active" => userState'[e] = "active"
      BY <1>0, <2>1, <2>2, <2>3 DEF GoogleTypeOK
    <3>. QED
      BY <2>1, <2>2, <2>3, <3>1, IsAttached
  <2>4. CASE ~(userState[r.user] = "absent" /\ IdentityFree(r.subject, r.user))
    BY <2>1, <2>4, IsRefused DEF Refusals
  <2>. QED
    BY <2>3, <2>4
<1>8. ASSUME NEW c \in Callbacks, OpenGoogleSession(c)
      PROVE  GoogleInv'
  <2>1. PICK r \in googleRead[c] : /\ googleStep[c] = "session" /\ Redirect(c, "session", r.user)
                                   /\ UNCHANGED <<userState, identityUser>>
    BY <1>8 DEF OpenGoogleSession
  <2>2. ActiveNow(r.user) /\ identityUser[r.subject] = r.user /\ r.user \in Emails
    BY <1>0, <2>1 DEF Fits, ActiveNow
  <2>. QED
    BY <2>1, <2>2, IsAnswered
<1>9. ASSUME NEW c \in Callbacks, AbandonCallback(c)
      PROVE  GoogleInv'
  BY <1>9, IsRefused DEF AbandonCallback, Refusals
<1>. QED
  BY <1>1, <1>2, <1>3, <1>4, <1>5, <1>6, <1>7, <1>8, <1>9 DEF GoogleNext

(* Users, identities and callbacks keep their shape.                       *)
THEOREM GoogleTypeCorrect == GoogleSpec => []GoogleTypeOK
<1>1. GoogleInv => GoogleTypeOK
  BY DEF GoogleInv
<1>. QED
  BY <1>1, InitGoogle, StepGoogle, PTL DEF GoogleSpec

(* However callbacks overlap, each user has one Google account, and who    *)
(* was signed in or linked owns the account it was for and is active.      *)
THEOREM GoogleAnswersStayTrue == GoogleSpec => []GoogleAnswersHold
<1>1. GoogleInv => GoogleAnswersHold
  BY DEF GoogleInv, GoogleAnswersHold, GoogleIdentityInv, ReplyInv, ActiveNow
<1>. QED
  BY <1>1, InitGoogle, StepGoogle, PTL DEF GoogleSpec

------------------------------------------------------------------------------
(***************************************************************************)
(* The exchange through OIDC.                                              *)
(***************************************************************************)

Serves(c, t) == caller[c].op \in {"claimed", "verified"} /\ caller[c].of = t

Rotates(c, t) == caller[c].op = "rotate" /\ caller[c].of = t

(* A request knows what it is about.                                       *)
CallersInv ==
    \A c \in Callers :
        /\ caller[c].op # "free" => caller[c].of \in Handovers
        /\ caller[c].op = "verified" => caller[c].who \in Holders

(* A claimed row has one callback that serves it, until it is completed.   *)
CallbackInv ==
    \A t \in Handovers :
        /\ completed[t] = 1 => handover[t].state = "consumed"
        /\ \A c \in Callers : Serves(c, t) => handover[t].state = "consumed" /\ completed[t] = 0
        /\ \A c, d \in Callers : Serves(c, t) /\ Serves(d, t) => c = d

(* A code exists from the completion on; a consumed one has one exchange   *)
(* that rotates the token, or none any more.                               *)
CodeInv ==
    \A t \in Handovers :
        /\ code[t].state # "none" => completed[t] = 1
        /\ handed[t] = 1 => code[t].state = "consumed"
        /\ \A c \in Callers : Rotates(c, t) => code[t].state = "consumed" /\ handed[t] = 0
        /\ \A c \in Callers : caller[c].op = "consume" /\ caller[c].of = t => code[t].state # "none"
        /\ \A c, d \in Callers : Rotates(c, t) /\ Rotates(d, t) => c = d

(* A code names a session that has begun, of the user who signed in.       *)
SessionInv ==
    \A t \in Handovers : code[t].state # "none" =>
        /\ code[t].session \in OidcSessions
        /\ oidcSession[code[t].session].life # "none"
        /\ oidcSession[code[t].session].user = code[t].user

HandoverInv == HandoverTypeOK /\ CallersInv /\ CallbackInv /\ CodeInv /\ SessionInv

------------------------------------------------------------------------------
LEMMA InitHandover == HandoverInit => HandoverInv
BY HandoverConstantsOK
DEF HandoverInit, HandoverInv, HandoverTypeOK, CallersInv, CallbackInv, CodeInv, SessionInv,
    HandoverRecords, CodeRecords, SessionRecords, CallerRecords, OidcIntents, NoCaller, Serves, Rotates

(* Requests, and what becomes of one.                                      *)
Turned(c, op, t) ==
    /\ caller' \in [Callers -> CallerRecords]
    /\ \A d \in Callers \ {c} : caller'[d] = caller[d]
    /\ caller'[c].op = op /\ caller'[c].of = t

LEMMA TurnsTo ==
    ASSUME HandoverTypeOK, NEW c \in Callers, NEW next \in CallerRecords, Turns(c, next)
    PROVE  Turned(c, next.op, next.of) /\ caller'[c] = next
BY DEF HandoverTypeOK, Turns, Turned

LEMMA TurnsFree ==
    ASSUME HandoverTypeOK, NEW c \in Callers, Turns(c, NoCaller)
    PROVE  Turned(c, "free", Nobody)
<1>1. NoCaller \in CallerRecords
  BY DEF NoCaller, CallerRecords
<1>. QED
  BY <1>1, TurnsTo DEF NoCaller

LEMMA StepHandover ==
    ASSUME HandoverInv, [HandoverNext]_handoverVars
    PROVE  HandoverInv'
<1>. USE HandoverConstantsOK DEF ValidSession, Serves, Rotates
<1>0. /\ HandoverTypeOK /\ CallersInv /\ CallbackInv /\ CodeInv /\ SessionInv
      /\ handover \in [Handovers -> HandoverRecords] /\ code \in [Handovers -> CodeRecords]
      /\ oidcSession \in [OidcSessions -> SessionRecords] /\ caller \in [Callers -> CallerRecords]
      /\ completed \in [Handovers -> 0..1] /\ handed \in [Handovers -> 0..1]
      /\ handoverLapsed \subseteq Handovers
  BY DEF HandoverInv, HandoverTypeOK
<1>1. ASSUME NEW s \in OidcSessions, NEW u \in Holders, SessionBegins(s, u)
      PROVE  HandoverInv'
  BY <1>0, <1>1 DEF SessionBegins, SessionRecords, CodeRecords, HandoverInv, HandoverTypeOK,
                     CallersInv, CallbackInv, CodeInv, SessionInv
<1>2. ASSUME NEW s \in OidcSessions, SessionCloses(s)
      PROVE  HandoverInv'
  BY <1>0, <1>2 DEF SessionCloses, SessionRecords, HandoverInv, HandoverTypeOK, CallersInv,
                     CallbackInv, CodeInv, SessionInv
<1>3. ASSUME NEW t \in Handovers, Lapses(t)
      PROVE  HandoverInv'
  BY <1>0, <1>3 DEF Lapses, HandoverInv, HandoverTypeOK, CallersInv, CallbackInv, CodeInv, SessionInv
<1>4. ASSUME NEW t \in Handovers, NEW intent \in OidcIntents, NEW s \in OidcSessions \cup {Nobody},
             NEW mobile \in BOOLEAN, insertOidcLoginTransaction(t, intent, s, mobile)
      PROVE  HandoverInv'
  BY <1>0, <1>4 DEF insertOidcLoginTransaction, HandoverRecords, HandoverInv, HandoverTypeOK,
                     CallersInv, CallbackInv, CodeInv, SessionInv
<1>5. ASSUME NEW c \in Callers, NEW t \in Handovers, NEW s \in OidcSessions \cup {Nobody},
             claimOidcLoginTransaction(c, t, s)
      PROVE  HandoverInv'
  <2>1. Turned(c, "claimed", t) /\ caller[c].op = "free"
    <3>1. [op |-> "claimed", of |-> t, cookie |-> s, who |-> Nobody] \in CallerRecords
      BY DEF CallerRecords
    <3>. QED
      BY <1>0, <1>5, <3>1, TurnsTo DEF claimOidcLoginTransaction, NoCaller
  <2>2. /\ handover' \in [Handovers -> HandoverRecords] /\ handover'[t].state = "consumed"
        /\ \A u \in Handovers \ {t} : handover'[u] = handover[u]
        /\ handover[t].state = "open"
    BY <1>0, <1>5 DEF claimOidcLoginTransaction, HandoverRecords, Claimable
  <2>3. HandoverTypeOK'
    BY <1>0, <1>5, <2>1, <2>2 DEF claimOidcLoginTransaction, Turned, HandoverTypeOK
  <2>4. CallersInv'
    BY <1>0, <1>5, <2>1, <2>2 DEF claimOidcLoginTransaction, Turned, CallersInv
  <2>5. CallbackInv'
    BY <1>0, <1>5, <2>1, <2>2 DEF claimOidcLoginTransaction, Turned, CallbackInv
  <2>6. CodeInv'
    BY <1>0, <1>5, <2>1, <2>2 DEF claimOidcLoginTransaction, Turned, CodeInv
  <2>7. SessionInv'
    BY <1>0, <1>5, <2>1, <2>2 DEF claimOidcLoginTransaction, Turned, SessionInv
  <2>. QED
    BY <2>3, <2>4, <2>5, <2>6, <2>7 DEF HandoverInv
<1>6. ASSUME NEW c \in Callers, NEW u \in Holders, VerifyCallbackClaims(c, u)
      PROVE  HandoverInv'
  <2>1. Turned(c, "verified", caller[c].of) /\ caller'[c].who = u /\ caller[c].op = "claimed"
    <3>0. caller[c] \in CallerRecords
      BY <1>0
    <3> DEFINE next == [caller[c] EXCEPT !.op = "verified", !.who = u]
    <3>1. next \in CallerRecords /\ next.op = "verified" /\ next.of = caller[c].of /\ next.who = u
      BY <3>0 DEF CallerRecords
    <3>2. Turns(c, next) /\ caller[c].op = "claimed"
      BY <1>6 DEF VerifyCallbackClaims
    <3>. HIDE DEF next
    <3>. QED
      BY <1>0, <3>1, <3>2, TurnsTo
  <2>2. HandoverTypeOK'
    BY <1>0, <1>6, <2>1 DEF VerifyCallbackClaims, Turned, HandoverTypeOK
  <2>3. CallersInv'
    BY <1>0, <1>6, <2>1 DEF VerifyCallbackClaims, Turned, CallersInv
  <2>4. CallbackInv'
    <3>1. UNCHANGED <<handover, completed>>
      BY <1>6 DEF VerifyCallbackClaims
    <3>2. \A d \in Callers, h \in Handovers : Serves(d, h)' => Serves(d, h)
      BY <2>1 DEF Turned
    <3>. QED
      BY <1>0, <3>1, <3>2 DEF CallbackInv
  <2>5. CodeInv'
    BY <1>0, <1>6, <2>1 DEF VerifyCallbackClaims, Turned, CodeInv
  <2>6. SessionInv'
    BY <1>0, <1>6, <2>1 DEF VerifyCallbackClaims, Turned, SessionInv
  <2>. QED
    BY <2>2, <2>3, <2>4, <2>5, <2>6 DEF HandoverInv
<1>7. ASSUME NEW c \in Callers, NEW t \in Handovers, ReadExchangeCode(c, t)
      PROVE  HandoverInv'
  <2>1. Turned(c, "consume", t) /\ caller[c].op = "free"
    <3>1. [op |-> "consume", of |-> t, cookie |-> Nobody, who |-> Nobody] \in CallerRecords
      BY DEF CallerRecords
    <3>. QED
      BY <1>0, <1>7, <3>1, TurnsTo DEF ReadExchangeCode, NoCaller
  <2>2. HandoverTypeOK'
    BY <1>0, <1>7, <2>1 DEF ReadExchangeCode, Turned, HandoverTypeOK
  <2>3. CallersInv'
    BY <1>0, <1>7, <2>1 DEF ReadExchangeCode, Turned, CallersInv
  <2>4. CallbackInv'
    <3>1. UNCHANGED <<handover, completed>>
      BY <1>7 DEF ReadExchangeCode
    <3>2. \A d \in Callers, u \in Handovers : Serves(d, u)' => Serves(d, u)
      BY <2>1 DEF Turned
    <3>. QED
      BY <1>0, <3>1, <3>2 DEF CallbackInv
  <2>5. CodeInv'
    <3>1. code[t].state = "issued" /\ UNCHANGED <<code, completed, handed>>
      BY <1>7 DEF ReadExchangeCode
    <3>. QED
      BY <1>0, <2>1, <3>1 DEF Turned, CodeInv
  <2>6. SessionInv'
    BY <1>0, <1>7, <2>1 DEF ReadExchangeCode, Turned, SessionInv
  <2>. QED
    BY <2>2, <2>3, <2>4, <2>5, <2>6 DEF HandoverInv
<1>8. ASSUME NEW c \in Callers, ConsumeExchangeCode(c)
      PROVE  HandoverInv'
  <2> DEFINE t == caller[c].of
  <2>1. Turned(c, "rotate", t) /\ caller[c].op = "consume" /\ t \in Handovers
    <3>0. caller[c] \in CallerRecords
      BY <1>0
    <3>1. [caller[c] EXCEPT !.op = "rotate"] \in CallerRecords
      BY <3>0 DEF CallerRecords
    <3>2. [caller[c] EXCEPT !.op = "rotate"].op = "rotate" /\ [caller[c] EXCEPT !.op = "rotate"].of = t
      BY <3>0 DEF CallerRecords
    <3>. QED
      BY <1>0, <1>8, <3>1, <3>2, TurnsTo DEF ConsumeExchangeCode, CallersInv
  <2>2. /\ code' \in [Handovers -> CodeRecords] /\ code'[t].state = "consumed"
        /\ code'[t].session = code[t].session /\ code'[t].user = code[t].user
        /\ \A u \in Handovers \ {t} : code'[u] = code[u]
        /\ code[t].state = "issued"
    BY <1>0, <1>8, <2>1 DEF ConsumeExchangeCode, CodeRecords, Unconsumed
  <2>3. HandoverTypeOK'
    BY <1>0, <1>8, <2>1, <2>2 DEF ConsumeExchangeCode, Turned, HandoverTypeOK
  <2>4. CallersInv'
    BY <1>0, <1>8, <2>1, <2>2 DEF ConsumeExchangeCode, Turned, CallersInv
  <2>5. CallbackInv'
    BY <1>0, <1>8, <2>1, <2>2 DEF ConsumeExchangeCode, Turned, CallbackInv
  <2>6. CodeInv'
    BY <1>0, <1>8, <2>1, <2>2 DEF ConsumeExchangeCode, Turned, CodeInv
  <2>7. SessionInv'
    BY <1>0, <1>8, <2>1, <2>2 DEF ConsumeExchangeCode, Turned, SessionInv
  <2>. QED
    BY <2>3, <2>4, <2>5, <2>6, <2>7 DEF HandoverInv
<1>9. ASSUME NEW c \in Callers, rotateSessionToken(c)
      PROVE  HandoverInv'
  <2> DEFINE t == caller[c].of
  <2>1. Turned(c, "free", Nobody) /\ caller[c].op = "rotate" /\ t \in Handovers
    BY <1>0, <1>9, TurnsFree DEF rotateSessionToken, CallersInv
  <2>2. /\ oidcSession' \in [OidcSessions -> SessionRecords]
        /\ \A u \in OidcSessions : /\ oidcSession'[u].user = oidcSession[u].user
                                   /\ oidcSession'[u].life = oidcSession[u].life
    BY <1>0, <1>9 DEF rotateSessionToken, SessionRecords
  <2>3. /\ handed' \in [Handovers -> 0..1] /\ handed'[t] = 1 /\ code[t].state = "consumed"
        /\ \A u \in Handovers \ {t} : handed'[u] = handed[u]
    BY <1>0, <1>9, <2>1 DEF rotateSessionToken, CodeInv
  <2>4. HandoverTypeOK'
    BY <1>0, <1>9, <2>1, <2>2, <2>3 DEF rotateSessionToken, Turned, HandoverTypeOK
  <2>5. CallersInv'
    BY <1>0, <1>9, <2>1, <2>2, <2>3 DEF rotateSessionToken, Turned, CallersInv
  <2>6. CallbackInv'
    BY <1>0, <1>9, <2>1, <2>2, <2>3 DEF rotateSessionToken, Turned, CallbackInv
  <2>7. CodeInv'
    BY <1>0, <1>9, <2>1, <2>2, <2>3 DEF rotateSessionToken, Turned, CodeInv
  <2>8. SessionInv'
    BY <1>0, <1>9, <2>1, <2>2, <2>3 DEF rotateSessionToken, Turned, SessionInv
  <2>. QED
    BY <2>4, <2>5, <2>6, <2>7, <2>8 DEF HandoverInv
<1>10. ASSUME NEW c \in Callers, GivesUp(c)
       PROVE  HandoverInv'
  <2>1. Turned(c, "free", Nobody)
    BY <1>0, <1>10, TurnsFree DEF GivesUp
  <2>2. HandoverTypeOK'
    BY <1>0, <1>10, <2>1 DEF GivesUp, Turned, HandoverTypeOK
  <2>3. CallersInv'
    BY <1>0, <1>10, <2>1 DEF GivesUp, Turned, CallersInv
  <2>4. CallbackInv'
    <3>1. UNCHANGED <<handover, completed>>
      BY <1>10 DEF GivesUp
    <3>2. \A d \in Callers, u \in Handovers : Serves(d, u)' => Serves(d, u)
      BY <2>1 DEF Turned
    <3>. QED
      BY <1>0, <3>1, <3>2 DEF CallbackInv
  <2>5. CodeInv'
    BY <1>0, <1>10, <2>1 DEF GivesUp, Turned, CodeInv
  <2>6. SessionInv'
    BY <1>0, <1>10, <2>1 DEF GivesUp, Turned, SessionInv
  <2>. QED
    BY <2>2, <2>3, <2>4, <2>5, <2>6 DEF HandoverInv
<1>11. ASSUME NEW c \in Callers, CompleteCallback(c)
       PROVE  HandoverInv'
  <2> DEFINE t == caller[c].of
  <2>1. Turned(c, "free", Nobody) /\ caller[c].op = "verified" /\ t \in Handovers /\ caller[c].who \in Holders
    BY <1>0, <1>11, TurnsFree DEF CompleteCallback, CallersInv
  <2>2. /\ completed' \in [Handovers -> 0..1] /\ completed'[t] = 1 /\ completed[t] = 0
        /\ \A u \in Handovers \ {t} : completed'[u] = completed[u]
        /\ handover[t].state = "consumed" /\ UNCHANGED <<handover, handed>>
        /\ handoverLapsed' \subseteq Handovers
    BY <1>0, <1>11, <2>1 DEF CompleteCallback, CallbackInv
  <2>3. PICK s \in OidcSessions :
           /\ IF Continues(caller[c]) = Nobody THEN oidcSession[s].life = "none" ELSE s = Continues(caller[c])
           /\ oidcSession' = IF Continues(caller[c]) = Nobody
                 THEN [oidcSession EXCEPT ![s] = [user |-> caller[c].who, life |-> "valid", token |-> "browser"]]
                 ELSE oidcSession
           /\ code' = IF handover[t].mobile /\ handover[t].intent \in {"login", "reauthenticate"}
                      THEN [code EXCEPT ![t] = [state |-> "issued", session |-> s, user |-> caller[c].who]]
                      ELSE code
    BY <1>11 DEF CompleteCallback
  <2>4. /\ oidcSession' \in [OidcSessions -> SessionRecords]
        /\ \A u \in OidcSessions : oidcSession[u].life # "none" => oidcSession'[u] = oidcSession[u]
    <3>1. [user |-> caller[c].who, life |-> "valid", token |-> "browser"] \in SessionRecords
      BY <2>1 DEF SessionRecords
    <3>. QED
      BY <1>0, <2>3, <3>1
  <2>5. handover[t].intent \in {"login", "reauthenticate"} =>
           oidcSession'[s].life # "none" /\ oidcSession'[s].user = caller[c].who
    BY <1>0, <1>11, <2>3 DEF CompleteCallback, MayContinue, Continues
  <2>6. /\ code' \in [Handovers -> CodeRecords]
        /\ \A u \in Handovers \ {t} : code'[u] = code[u]
        /\ \/ code'[t] = code[t]
           \/ /\ code'[t].state = "issued" /\ code'[t].session = s /\ code'[t].user = caller[c].who
              /\ handover[t].intent \in {"login", "reauthenticate"}
    <3>1. [state |-> "issued", session |-> s, user |-> caller[c].who] \in CodeRecords
      BY <2>1 DEF CodeRecords
    <3>. QED
      BY <1>0, <2>1, <2>3, <3>1
  <2>. HIDE DEF t
  <2>7. HandoverTypeOK'
    BY <1>0, <2>1, <2>2, <2>4, <2>6 DEF HandoverTypeOK, Turned
  <2>8. CallersInv'
    BY <1>0, <2>1 DEF CallersInv, Turned
  <2>9. CallbackInv'
    <3>. USE DEF t
    <3>. QED
      BY <1>0, <2>1, <2>2 DEF CallbackInv, Turned
  <2>10. CodeInv'
    BY <1>0, <2>1, <2>2, <2>6 DEF CodeInv, Turned
  <2>11. SessionInv'
    BY <1>0, <2>1, <2>2, <2>4, <2>5, <2>6 DEF SessionInv, CodeInv
  <2>. QED
    BY <2>7, <2>8, <2>9, <2>10, <2>11 DEF HandoverInv
<1>12. CASE UNCHANGED handoverVars
  BY <1>0, <1>12 DEF handoverVars, HandoverInv, HandoverTypeOK, CallersInv, CallbackInv, CodeInv, SessionInv
<1>. QED
  BY <1>1, <1>2, <1>3, <1>4, <1>5, <1>6, <1>7, <1>8, <1>9, <1>10, <1>11, <1>12
  DEF HandoverNext, CallerStep

LEMMA HandoverInductive == HandoverSpec => []HandoverInv
BY InitHandover, StepHandover, PTL DEF HandoverSpec

------------------------------------------------------------------------------
(* Authorizations, codes, sessions and requests keep their shape however   *)
(* callbacks and exchanges interleave; in particular no state is completed *)
(* and no code exchanged twice.                                            *)
THEOREM HandoverTypeCorrect == HandoverSpec => []HandoverTypeOK
BY HandoverInductive, PTL DEF HandoverInv

(* However often callbacks and exchanges are sent, a state is completed    *)
(* once, its code buys one token, and the session behind the code is that  *)
(* of the user completeOrganizationOidc signed in.                         *)
THEOREM HandedOverExactlyOnce == HandoverSpec => []HandedOverOnce
<1>1. HandoverInv => HandedOverOnce
  BY DEF HandoverInv, HandoverTypeOK, CodeInv, SessionInv, HandedOverOnce
<1>. QED
  BY <1>1, HandoverInductive, PTL
==============================================================================
