--------------------------- MODULE AccountsProofs ---------------------------
(***************************************************************************)
(* Theorems about Accounts, for any number of users, tokens, sessions and  *)
(* requests, and any lifetimes.                                            *)
(***************************************************************************)
EXTENDS Accounts, TLAPS

\* Who is where asked for it: handlers of one route do not run for another.
OpsMatch ==
    \A r \in Requests :
        /\ pc[r] \in InTx \cup {"verifying", "stored"} => Op(r, "verify")
        /\ pc[r] \in {"loggingin", "opened"} => Op(r, "login")

\* A token's row is locked by exactly the verification that has it open, and until that
\* one commits the token is not used up; afterwards it is.
TokensHeld ==
    /\ \A t \in Tokens, r \in Requests :
        rowLock[t] = r <=> pc[r] \in InTx /\ token(r) = t
    /\ \A r \in Requests : pc[r] \in InTx => token(r) \notin consumed
    /\ \A r \in Requests :
        pc[r] \in {"stored", "verified"} /\ Op(r, "verify") => token(r) \in consumed

TokenInv == VerifiedByToken /\ OpsMatch /\ TokensHeld /\ TokenOnce

\* A session is created once, by its own login; calls and logouts come with the cookie
\* of a session that exists.
SessionsKept ==
    /\ \A r \in DOMAIN sessions : pc[r] \in {"opened", "refused", "loggedin"}
    /\ \A r \in Requests :
        /\ pc[r] = "opened" => r \in DOMAIN sessions
        /\ pc[r] \in {"loggingout", "calling", "called", "checked", "served"}
            => session(r) \in known

\* What a call read with its user is still true: nobody becomes unverified.
SnapshotsHold ==
    \A r \in Requests :
        pc[r] = "called" /\ snapshot[r] => sessions[session(r)].owner \in verified

\* A session that is over stays over.
OverIsOver == \A r \in late : session(r) \in known /\ ~Live(session(r))

SessionInv == SessionsKept /\ SnapshotsHold /\ ServedAreVerified /\ OverIsOver /\ LateCallsRefused

AccountsInv == TokenInv /\ SessionInv

-----------------------------------------------------------------------------

\* What the type of a request's input says of its fields.
LEMMA InputFields ==
    ASSUME TypeOK, NEW r \in Requests
    PROVE  /\ Op(r, "verify") => token(r) \in Tokens
           /\ Op(r, "login") => input[r].user \in Users
<1>1. input[r] \in Input
  BY AccountsAssumption DEF TypeOK
<1> QED
  BY <1>1 DEF Input, Op, token

LEMMA TypeStep ==
    ASSUME TypeOK, OpsMatch, SessionsKept, [Next]_vars
    PROVE  TypeOK'
<1> USE AccountsAssumption
    DEF TypeOK, Working, InTx, Answers, Goto, tokenVars, sessionVars
<1>1. ASSUME NEW r \in Requests, Start(r) PROVE TypeOK'
  BY <1>1 DEF Start, StartVerify, StartLogin, StartLogout, StartCall
<1>2. ASSUME NEW r \in Requests, LockToken(r) PROVE TypeOK'
  BY <1>2 DEF LockToken
<1>3. ASSUME NEW r \in Requests, ConsumeToken(r) \/ MarkVerified(r) \/ AnswerVerification(r)
      PROVE  TypeOK'
  BY <1>3 DEF ConsumeToken, MarkVerified, AnswerVerification
<1>4. ASSUME NEW r \in Requests, CommitVerification(r) PROVE TypeOK'
  <2>1. token(r) \in Tokens /\ TokenUser[token(r)] \in Users
    BY <1>4, InputFields DEF CommitVerification, OpsMatch, Users
  <2> QED
    BY <1>4, <2>1 DEF CommitVerification, Verify, UnlockToken
<1>5. ASSUME NEW r \in Requests, AbortVerification(r) PROVE TypeOK'
  BY <1>5 DEF AbortVerification, UnlockToken
<1>6. ASSUME NEW r \in Requests, CreateSession(r) PROVE TypeOK'
  <2>1. NewSession(r) \in Session
    BY <1>6, InputFields DEF CreateSession, OpsMatch, NewSession, Session
  <2>2. /\ DOMAIN sessions' \subseteq Requests /\ known \subseteq DOMAIN sessions'
        /\ \A s \in DOMAIN sessions' : sessions'[s] \in Session
    BY <1>6, <2>1 DEF CreateSession
  <2> QED
    BY <1>6, <2>2 DEF CreateSession
<1>7. ASSUME NEW r \in Requests, AnswerLogin(r) PROVE TypeOK'
  BY <1>7 DEF AnswerLogin, SessionsKept
<1>8. ASSUME NEW r \in Requests, RevokeSession(r) PROVE TypeOK'
  <2>1. CASE UNCHANGED sessions
    BY <1>8, <2>1 DEF RevokeSession
  <2>2. CASE sessions' = [sessions EXCEPT ![session(r)].revoked = TRUE]
    <3>1. DOMAIN sessions' = DOMAIN sessions
      BY <2>2
    <3>2. ASSUME NEW s \in DOMAIN sessions PROVE sessions'[s] \in Session
      <4>1. sessions[s] \in Session /\ [sessions[s] EXCEPT !.revoked = TRUE] \in Session
        BY DEF Session
      <4>2. sessions'[s] \in {sessions[s], [sessions[s] EXCEPT !.revoked = TRUE]}
        BY <2>2
      <4> QED
        BY <4>1, <4>2
    <3> QED
      BY <1>8, <3>1, <3>2 DEF RevokeSession
  <2> QED
    BY <1>8, <2>1, <2>2 DEF RevokeSession
<1>9. ASSUME NEW r \in Requests, GetSessionUser(r) PROVE TypeOK'
  <2>1. pc' \in [Requests -> {"idle"} \cup Working \cup Answers]
    BY <1>9 DEF GetSessionUser
  <2>2. snapshot' \in [Requests -> BOOLEAN]
    <3> DEFINE v == sessions[session(r)].owner \in verified
    <3>1. v \in BOOLEAN
      OBVIOUS
    <3>2. snapshot' = snapshot \/ snapshot' = [snapshot EXCEPT ![r] = v]
      BY <1>9 DEF GetSessionUser
    <3> HIDE DEF v
    <3> QED
      BY <3>1, <3>2
  <2> QED
    BY <1>9, <2>1, <2>2 DEF GetSessionUser
<1>12. ASSUME NEW r \in Requests, RequireVerifiedEmail(r) \/ Serve(r) PROVE TypeOK'
  <2>1. pc' \in [Requests -> {"idle"} \cup Working \cup Answers]
    BY <1>12 DEF RequireVerifiedEmail, Serve
  <2> QED
    BY <1>12, <2>1 DEF RequireVerifiedEmail, Serve
<1>10. ASSUME Tick PROVE TypeOK'
  BY <1>10 DEF Tick
<1>11. ASSUME UNCHANGED vars PROVE TypeOK'
  BY <1>11 DEF vars
<1> QED
  BY <1>1, <1>2, <1>3, <1>4, <1>5, <1>6, <1>7, <1>8, <1>9, <1>10, <1>11, <1>12 DEF Next, Step

-----------------------------------------------------------------------------
(* Tokens *)

\* A step of one handler that leaves the tokens alone, and neither begins nor commits a
\* verification, keeps what is known of them.
LEMMA TokensAlone ==
    ASSUME TokenInv, TypeOK', UNCHANGED <<input, tokenVars>>,
           NEW r \in Requests, NEW s, Goto(r, s),
           s \in InTx <=> pc[r] \in InTx,
           s \in {"stored", "verified"} /\ Op(r, "verify") => pc[r] \in {"stored", "verified"},
           s \in {"verifying", "stored"} => Op(r, "verify"),
           s \in {"loggingin", "opened"} => Op(r, "login")
    PROVE  TokenInv'
<1> USE DEF TypeOK, Goto, tokenVars, token, Op
<1>0. TypeOK /\ pc \in [Requests -> {"idle"} \cup Working \cup Answers]
  BY DEF TokenInv, VerifiedByToken
<1>1. \A q \in Requests : pc'[q] = IF q = r THEN s ELSE pc[q]
  BY <1>0
<1>2. \A q \in Requests : pc'[q] \in InTx <=> pc[q] \in InTx
  BY <1>1
<1>3. VerifiedByToken'
  BY <1>0, <1>2 DEF TokenInv, VerifiedByToken
<1>4. OpsMatch'
  BY <1>1 DEF TokenInv, OpsMatch, InTx
<1>5. TokensHeld'
  BY <1>1, <1>2 DEF TokenInv, TokensHeld
<1>6. TokenOnce'
  BY <1>1, <1>2 DEF TokenInv, TokenOnce
<1> QED
  BY <1>3, <1>4, <1>5, <1>6 DEF TokenInv

\* Whoever gets the row of an unused token is the only one that has the token.
LEMMA LockStep ==
    ASSUME TokenInv, TypeOK', NEW r \in Requests, LockToken(r)
    PROVE  TokenInv'
<1>0. TypeOK /\ pc[r] = "verifying" /\ Op(r, "verify") /\ UNCHANGED input
  BY DEF TokenInv, VerifiedByToken, LockToken, OpsMatch
<1>1. CASE ~Usable(token(r)) /\ Goto(r, "refused") /\ UNCHANGED rowLock
  BY <1>0, <1>1, TokensAlone DEF LockToken, tokenVars, InTx
<1>2. CASE /\ Usable(token(r))
           /\ rowLock' = [rowLock EXCEPT ![token(r)] = r]
           /\ Goto(r, "locked")
  <2> USE DEF token, Op
  <2>1. /\ token(r) \in Tokens /\ rowLock[token(r)] = None /\ token(r) \notin consumed
        /\ UNCHANGED <<consumed, verified>>
    BY <1>0, <1>2, InputFields DEF LockToken, RowFree, Usable
  <2>2. \A q \in Requests : pc'[q] = IF q = r THEN "locked" ELSE pc[q]
    BY <1>0, <1>2 DEF Goto, TypeOK
  <2>3. \A t \in Tokens : rowLock'[t] = IF t = token(r) THEN r ELSE rowLock[t]
    BY <1>0, <1>2 DEF TypeOK
  <2>4. TokensHeld'
    <3>1. \A t \in Tokens, q \in Requests :
              rowLock'[t] = q <=> pc'[q] \in InTx /\ token(q) = t
      BY <1>0, <2>1, <2>2, <2>3, AccountsAssumption DEF TokenInv, TokensHeld, InTx
    <3> QED
      BY <1>0, <2>1, <2>2, <3>1 DEF TokenInv, TokensHeld, InTx
  <2>5. VerifiedByToken'
    BY <1>0, <2>1, <2>4 DEF TokenInv, VerifiedByToken, TokensHeld
  <2>6. OpsMatch'
    BY <1>0, <2>2 DEF TokenInv, OpsMatch, InTx
  <2>7. ASSUME NEW q \in Requests, q # r, token(q) = token(r), Op(q, "verify")
        PROVE  pc[q] \notin InTx \cup {"stored", "verified"}
    BY <2>1, <2>7, AccountsAssumption DEF TokenInv, TokensHeld
  <2>8. TokenOnce'
    BY <1>0, <2>2, <2>7 DEF TokenInv, TokenOnce
  <2> QED
    BY <2>4, <2>5, <2>6, <2>8 DEF TokenInv
<1> QED
  BY <1>1, <1>2 DEF LockToken

\* Whoever unlocks its row leaves those of the others locked.
LEMMA RowsOfOthers ==
    ASSUME TokenInv, NEW r \in Requests, UnlockToken(r)
    PROVE  \A t \in Tokens, q \in Requests :
             rowLock'[t] = q <=> q # r /\ pc[q] \in InTx /\ token(q) = t
BY AccountsAssumption DEF TokenInv, TokensHeld, UnlockToken

LEMMA CommitStep ==
    ASSUME TokenInv, TypeOK', NEW r \in Requests, CommitVerification(r)
    PROVE  TokenInv'
<1> USE DEF token, Op
<1>0. /\ TypeOK /\ pc[r] = "marked" /\ Op(r, "verify") /\ token(r) \in Tokens
      /\ UNCHANGED input
      /\ consumed' = consumed \cup {token(r)}
      /\ verified' = verified \cup {TokenUser[token(r)]}
  BY InputFields DEF TokenInv, VerifiedByToken, CommitVerification, OpsMatch, InTx, Verify
<1>1. \A q \in Requests : pc'[q] = IF q = r THEN "stored" ELSE pc[q]
  BY <1>0 DEF CommitVerification, Goto, TypeOK
<1>2. \A t \in Tokens, q \in Requests : rowLock'[t] = q <=> pc'[q] \in InTx /\ token(q) = t
  BY <1>0, <1>1, RowsOfOthers DEF CommitVerification, InTx
<1>3. \A q \in Requests : q # r /\ pc[q] \in InTx => token(q) # token(r)
  BY <1>0 DEF TokenInv, TokenOnce, OpsMatch, InTx
<1>4. TokensHeld'
  <2>1. \A q \in Requests : pc'[q] \in InTx => token(q) \notin consumed'
    BY <1>0, <1>1, <1>3 DEF TokenInv, TokensHeld, InTx
  <2>2. \A q \in Requests :
            pc'[q] \in {"stored", "verified"} /\ Op(q, "verify") => token(q) \in consumed'
    BY <1>0, <1>1 DEF TokenInv, TokensHeld
  <2> QED
    BY <1>0, <1>2, <2>1, <2>2 DEF TokensHeld
<1>5. VerifiedByToken'
  <2>1. verified' = {TokenUser[t] : t \in consumed'}
    BY <1>0 DEF TokenInv, VerifiedByToken
  <2> QED
    BY <1>0, <1>2, <2>1 DEF VerifiedByToken
<1>6. OpsMatch'
  BY <1>0, <1>1 DEF TokenInv, OpsMatch, InTx
<1>7. TokenOnce'
  BY <1>0, <1>1 DEF TokenInv, TokenOnce, InTx
<1> QED
  BY <1>4, <1>5, <1>6, <1>7 DEF TokenInv

LEMMA AbortStep ==
    ASSUME TokenInv, TypeOK', NEW r \in Requests, AbortVerification(r)
    PROVE  TokenInv'
<1> USE DEF token, Op
<1>0. TypeOK /\ UNCHANGED <<input, consumed, verified>>
  BY DEF TokenInv, VerifiedByToken, AbortVerification
<1>1. \A q \in Requests : pc'[q] = IF q = r THEN "refused" ELSE pc[q]
  BY <1>0 DEF AbortVerification, Goto, TypeOK
<1>2. \A t \in Tokens, q \in Requests : rowLock'[t] = q <=> pc'[q] \in InTx /\ token(q) = t
  BY <1>0, <1>1, RowsOfOthers DEF AbortVerification, InTx
<1>3. TokensHeld'
  BY <1>0, <1>1, <1>2 DEF TokenInv, TokensHeld, InTx
<1>4. VerifiedByToken'
  BY <1>0, <1>2 DEF TokenInv, VerifiedByToken
<1>5. OpsMatch'
  BY <1>0, <1>1 DEF TokenInv, OpsMatch, InTx
<1>6. TokenOnce'
  BY <1>0, <1>1 DEF TokenInv, TokenOnce, InTx
<1> QED
  BY <1>3, <1>4, <1>5, <1>6 DEF TokenInv

LEMMA TokenStep ==
    ASSUME TokenInv, TypeOK', [Next]_vars
    PROVE  TokenInv'
<1> USE DEF tokenVars, InTx
<1>1. ASSUME NEW r \in Requests,
             StartVerify(r) \/ StartLogin(r) \/ StartLogout(r) \/ StartCall(r)
      PROVE  TokenInv'
  <2>1. PICK s : Goto(r, s) /\ s \in {"verifying", "loggingin", "refused", "loggingout", "calling"}
                /\ (s = "verifying" => Op(r, "verify")) /\ (s = "loggingin" => Op(r, "login"))
    BY <1>1 DEF StartVerify, StartLogin, StartLogout, StartCall
  <2>2. pc[r] = "idle" /\ UNCHANGED <<input, tokenVars>>
    BY <1>1 DEF StartVerify, StartLogin, StartLogout, StartCall
  <2> QED
    BY <2>1, <2>2, TokensAlone
<1>2. ASSUME NEW r \in Requests, LockToken(r) PROVE TokenInv'
  BY <1>2, LockStep
<1>3. ASSUME NEW r \in Requests, ConsumeToken(r) \/ MarkVerified(r) PROVE TokenInv'
  <2>1. PICK s \in InTx : Goto(r, s)
    BY <1>3 DEF ConsumeToken, MarkVerified
  <2>2. pc[r] \in InTx /\ UNCHANGED <<input, tokenVars>>
    BY <1>3 DEF ConsumeToken, MarkVerified
  <2> QED
    BY <2>1, <2>2, TokensAlone
<1>4. ASSUME NEW r \in Requests, CommitVerification(r) PROVE TokenInv'
  BY <1>4, CommitStep
<1>5. ASSUME NEW r \in Requests, AnswerVerification(r) PROVE TokenInv'
  <2>1. PICK s \in {"verified", "refused"} : Goto(r, s)
    BY <1>5 DEF AnswerVerification
  <2>2. pc[r] = "stored" /\ UNCHANGED <<input, tokenVars>>
    BY <1>5 DEF AnswerVerification
  <2> QED
    BY <2>1, <2>2, TokensAlone
<1>6. ASSUME NEW r \in Requests, AbortVerification(r) PROVE TokenInv'
  BY <1>6, AbortStep
<1>7. ASSUME NEW r \in Requests, CreateSession(r) \/ AnswerLogin(r) PROVE TokenInv'
  <2>1. PICK s \in {"opened", "refused", "loggedin"} : Goto(r, s)
    BY <1>7 DEF CreateSession, AnswerLogin
  <2>2. pc[r] \in {"loggingin", "opened"} /\ Op(r, "login") /\ UNCHANGED <<input, tokenVars>>
    BY <1>7 DEF CreateSession, AnswerLogin, TokenInv, OpsMatch
  <2> QED
    BY <2>1, <2>2, TokensAlone
<1>8. ASSUME NEW r \in Requests,
             RevokeSession(r) \/ GetSessionUser(r) \/ RequireVerifiedEmail(r) \/ Serve(r)
      PROVE  TokenInv'
  <2>1. PICK s \in {"loggedout", "called", "unauthenticated", "unverified", "checked", "served"} :
            Goto(r, s)
    BY <1>8 DEF RevokeSession, GetSessionUser, RequireVerifiedEmail, Serve
  <2>2. pc[r] \in {"loggingout", "calling", "called", "checked"} /\ UNCHANGED <<input, tokenVars>>
    BY <1>8 DEF RevokeSession, GetSessionUser, RequireVerifiedEmail, Serve
  <2> QED
    BY <2>1, <2>2, TokensAlone
<1>9. ASSUME UNCHANGED <<input, pc, tokenVars>> PROVE TokenInv'
  BY <1>9 DEF TokenInv, VerifiedByToken, OpsMatch, TokensHeld, TokenOnce, token, Op
<1> QED
  BY <1>1, <1>2, <1>3, <1>4, <1>5, <1>6, <1>7, <1>8, <1>9 DEF Next, Start, Step, Tick, vars

-----------------------------------------------------------------------------
(* Sessions *)

\* Sessions are never deleted or handed over, and never come back to life.
Kept ==
    /\ known \subseteq DOMAIN sessions /\ DOMAIN sessions \subseteq DOMAIN sessions'
    /\ known \subseteq known' /\ verified \subseteq verified'
    /\ \A s \in DOMAIN sessions :
        sessions'[s].owner = sessions[s].owner /\ (Live(s)' => Live(s))

\* A step that keeps the sessions and takes one handler on keeps what is known of them.
LEMMA SessionsOn ==
    ASSUME TypeOK, SessionInv, Kept, UNCHANGED <<input, snapshot, late>>,
           NEW r \in Requests, NEW s, Goto(r, s),
           DOMAIN sessions' \subseteq DOMAIN sessions \cup {r},
           r \in DOMAIN sessions' => s \in {"opened", "refused", "loggedin"},
           s = "opened" => r \in DOMAIN sessions',
           s \in {"loggingout", "calling", "checked", "served"} => session(r) \in known,
           s # "called",
           s \in {"checked", "served"} /\ Op(r, "verifiedcall")
               => sessions[session(r)].owner \in verified,
           r \in late => s \in {"calling", "unauthenticated"}
    PROVE  SessionInv'
<1> USE DEF session, Op
<1>1. \A q \in Requests : pc'[q] = IF q = r THEN s ELSE pc[q]
  BY DEF Goto, TypeOK
<1>2. DOMAIN sessions \subseteq Requests /\ late \subseteq Requests /\ late' = late
  BY DEF TypeOK
<1>3. SessionsKept'
  BY <1>1, <1>2 DEF SessionInv, SessionsKept, Kept
<1>4. \A q \in Requests : session(q) \in known =>
          sessions'[session(q)].owner = sessions[session(q)].owner
  BY DEF Kept
<1>5. SnapshotsHold'
  BY <1>1, <1>4 DEF SessionInv, SessionsKept, SnapshotsHold, Kept
<1>6. ServedAreVerified'
  BY <1>1, <1>4 DEF SessionInv, SessionsKept, ServedAreVerified, Kept
<1>7. OverIsOver'
  <2>1. ASSUME NEW q \in late PROVE session(q)' \in known' /\ ~Live(session(q))'
    BY <1>2, <2>1 DEF SessionInv, OverIsOver, Kept
  <2> QED
    BY <1>2, <2>1 DEF OverIsOver
<1>8. LateCallsRefused'
  BY <1>1, <1>2 DEF SessionInv, LateCallsRefused
<1> QED
  BY <1>3, <1>5, <1>6, <1>7, <1>8 DEF SessionInv

\* A login adds its own session; a logout ends one, or fails to; a cookie goes out.
LEMMA SessionWrites ==
    ASSUME TypeOK, OpsMatch, SessionInv, NEW r \in Requests,
           CreateSession(r) \/ AnswerLogin(r) \/ RevokeSession(r)
    PROVE  SessionInv'
<1>0. /\ UNCHANGED <<now, input, snapshot, late, verified>>
      /\ known \subseteq DOMAIN sessions /\ late \subseteq Requests
  BY DEF CreateSession, AnswerLogin, RevokeSession, TypeOK, tokenVars
<1>1. CASE CreateSession(r)
  <2>1. pc[r] = "loggingin" /\ r \notin DOMAIN sessions /\ r \notin late
    BY <1>1 DEF CreateSession, SessionInv, SessionsKept, LateCallsRefused
  <2>2. CASE UNCHANGED sessions /\ Goto(r, "refused")
    <3>1. Kept
      BY <1>0, <1>1, <2>2 DEF Kept, CreateSession, Live
    <3> QED
      BY <1>0, <2>1, <2>2, <3>1, SessionsOn
  <2>3. CASE /\ sessions' = [s \in DOMAIN sessions \cup {r} |->
                                IF s = r THEN NewSession(r) ELSE sessions[s]]
             /\ Goto(r, "opened") \/ Goto(r, "refused")
    <3>1. /\ DOMAIN sessions' = DOMAIN sessions \cup {r}
          /\ \A s \in DOMAIN sessions : sessions'[s] = sessions[s]
      BY <2>1, <2>3
    <3>2. Kept
      BY <1>0, <1>1, <3>1 DEF Kept, CreateSession, Live
    <3>3. PICK s \in {"opened", "refused"} : Goto(r, s)
      BY <2>3
    <3> QED
      BY <1>0, <2>1, <3>1, <3>2, <3>3, SessionsOn
  <2> QED
    BY <1>1, <2>2, <2>3 DEF CreateSession
<1>2. CASE AnswerLogin(r)
  <2>1. pc[r] = "opened" /\ r \in DOMAIN sessions /\ r \notin late
    BY <1>2 DEF AnswerLogin, SessionInv, SessionsKept, LateCallsRefused
  <2>2. Kept
    BY <1>0, <1>2 DEF Kept, AnswerLogin, Live
  <2> QED
    BY <1>0, <1>2, <2>1, <2>2, SessionsOn DEF AnswerLogin
<1>3. CASE RevokeSession(r)
  <2>1. pc[r] = "loggingout" /\ r \notin DOMAIN sessions /\ r \notin late
    BY <1>3 DEF RevokeSession, SessionInv, SessionsKept, LateCallsRefused
  <2>2. /\ DOMAIN sessions' = DOMAIN sessions
        /\ \A s \in DOMAIN sessions :
            /\ sessions'[s].owner = sessions[s].owner /\ sessions'[s].ends = sessions[s].ends
            /\ sessions[s].revoked => sessions'[s].revoked
    <3>1. CASE UNCHANGED sessions
      BY <3>1
    <3>2. CASE sessions' = [sessions EXCEPT ![session(r)].revoked = TRUE]
      <4>1. DOMAIN sessions' = DOMAIN sessions
        BY <3>2
      <4>2. ASSUME NEW s \in DOMAIN sessions
            PROVE  /\ sessions'[s].owner = sessions[s].owner
                   /\ sessions'[s].ends = sessions[s].ends
                   /\ sessions[s].revoked => sessions'[s].revoked
        <5>1. sessions[s] \in Session
          BY DEF TypeOK
        <5>2. sessions'[s] \in {sessions[s], [sessions[s] EXCEPT !.revoked = TRUE]}
          BY <3>2
        <5> QED
          BY <5>1, <5>2 DEF Session
      <4> QED
        BY <4>1, <4>2
    <3> QED
      BY <1>3, <3>1, <3>2 DEF RevokeSession
  <2>3. Kept
    BY <1>0, <1>3, <2>2 DEF Kept, RevokeSession, Live
  <2> QED
    BY <1>0, <1>3, <2>1, <2>2, <2>3, SessionsOn DEF RevokeSession
<1> QED
  BY <1>1, <1>2, <1>3

\* The steps of the other handlers, and of the calls once they know their user.
LEMMA SessionsRead ==
    ASSUME TypeOK, OpsMatch, SessionInv, UNCHANGED <<now, input, sessionVars>>,
           verified \subseteq verified',
           NEW r \in Requests, NEW s, Goto(r, s),
           pc[r] \in {"idle", "verifying", "loggingin", "stored", "called", "checked"} \cup InTx,
           pc[r] = "called" /\ s = "checked" => ~Unverified(r),
           \/ s \in {"verifying", "loggingin", "refused", "verified", "stored", "unverified"} \cup InTx
           \/ s = "loggingout" /\ session(r) \in known
           \/ s = "checked" /\ pc[r] = "called"
           \/ s = "served" /\ pc[r] = "checked"
    PROVE  SessionInv'
<1>1. Kept
  BY DEF Kept, TypeOK, sessionVars, Live
<1>2. r \notin DOMAIN sessions /\ r \notin late
  BY DEF SessionInv, SessionsKept, LateCallsRefused, InTx
<1>3. s \in {"checked", "served"} =>
          /\ session(r) \in known
          /\ Op(r, "verifiedcall") => sessions[session(r)].owner \in verified
  BY DEF SessionInv, SessionsKept, SnapshotsHold, ServedAreVerified, Unverified, InTx
<1> QED
  BY <1>1, <1>2, <1>3, SessionsOn DEF sessionVars, InTx

\* A call that arrives late is noted; nobody is late otherwise.
LEMMA CallStep ==
    ASSUME TypeOK, SessionInv, NEW r \in Requests, StartCall(r) \/ GetSessionUser(r)
    PROVE  SessionInv'
<1> USE DEF session, Op
<1>0. /\ UNCHANGED <<now, input, verified, sessions, known>>
      /\ late \subseteq Requests /\ known \subseteq DOMAIN sessions
      /\ \A q \in Requests : q # r => pc'[q] = pc[q]
  BY DEF StartCall, GetSessionUser, TypeOK, tokenVars, Goto
<1>1. CASE StartCall(r)
  <2>1. pc'[r] = "calling" /\ pc[r] = "idle" /\ session(r) \in known
    BY <1>1 DEF StartCall, Goto, TypeOK
  <2>2. late' \subseteq late \cup {r} /\ (r \in late' => r \in late \/ ~Live(session(r)))
    BY <1>1 DEF StartCall
  <2>3. SessionsKept'
    BY <1>0, <2>1 DEF SessionInv, SessionsKept, TypeOK
  <2>4. SnapshotsHold' /\ ServedAreVerified'
    BY <1>0, <1>1, <2>1 DEF SessionInv, SnapshotsHold, ServedAreVerified, StartCall
  <2>5. OverIsOver'
    BY <1>0, <2>1, <2>2 DEF SessionInv, OverIsOver, Live
  <2>6. LateCallsRefused'
    BY <1>0, <2>1, <2>2 DEF SessionInv, LateCallsRefused
  <2> QED
    BY <2>3, <2>4, <2>5, <2>6 DEF SessionInv
<1>2. CASE GetSessionUser(r)
  <2>1. /\ pc[r] = "calling" /\ pc'[r] \in {"called", "unauthenticated"} /\ late' = late
        /\ session(r) \in known /\ r \notin DOMAIN sessions
        /\ pc'[r] = "called" => Live(session(r))
    BY <1>2 DEF GetSessionUser, Goto, TypeOK, Found, SessionInv, SessionsKept
  <2>2. /\ \A q \in Requests : q # r => snapshot'[q] = snapshot[q]
        /\ pc'[r] = "called" /\ snapshot'[r] => sessions[session(r)].owner \in verified
    BY <1>2 DEF GetSessionUser, Goto, TypeOK
  <2>3. SessionsKept'
    BY <1>0, <2>1 DEF SessionInv, SessionsKept, TypeOK
  <2>4. SnapshotsHold' /\ ServedAreVerified'
    BY <1>0, <2>1, <2>2 DEF SessionInv, SnapshotsHold, ServedAreVerified
  <2>5. OverIsOver'
    BY <1>0, <2>1 DEF SessionInv, OverIsOver, Live
  <2>6. LateCallsRefused'
    BY <1>0, <2>1 DEF SessionInv, LateCallsRefused, OverIsOver
  <2> QED
    BY <2>3, <2>4, <2>5, <2>6 DEF SessionInv
<1> QED
  BY <1>1, <1>2

LEMMA SessionStep ==
    ASSUME TypeOK, TokenInv, SessionInv, [Next]_vars
    PROVE  SessionInv'
<1> USE DEF tokenVars
<1>0. OpsMatch
  BY DEF TokenInv
<1>1. ASSUME NEW r \in Requests, StartVerify(r) \/ StartLogin(r) \/ StartLogout(r)
      PROVE  SessionInv'
  <2>1. PICK s : Goto(r, s) /\ s \in {"verifying", "loggingin", "refused", "loggingout"}
                /\ (s = "loggingout" => session(r) \in known)
    BY <1>1 DEF StartVerify, StartLogin, StartLogout
  <2>2. pc[r] = "idle" /\ UNCHANGED <<now, input, tokenVars, sessionVars>>
    BY <1>1 DEF StartVerify, StartLogin, StartLogout
  <2> QED
    BY <1>0, <2>1, <2>2, SessionsRead
<1>2. ASSUME NEW r \in Requests, LockToken(r) \/ ConsumeToken(r) \/ MarkVerified(r)
                                 \/ CommitVerification(r) \/ AnswerVerification(r)
                                 \/ AbortVerification(r)
      PROVE  SessionInv'
  <2>1. PICK s \in {"refused", "verified", "stored"} \cup InTx : Goto(r, s)
    BY <1>2 DEF LockToken, ConsumeToken, MarkVerified, CommitVerification, AnswerVerification,
                AbortVerification, InTx
  <2>2. /\ pc[r] \in {"verifying", "stored"} \cup InTx /\ UNCHANGED <<now, input, sessionVars>>
        /\ verified \subseteq verified'
    BY <1>2 DEF LockToken, ConsumeToken, MarkVerified, CommitVerification, AnswerVerification,
                AbortVerification, InTx, Verify
  <2> QED
    BY <1>0, <2>1, <2>2, SessionsRead DEF InTx
<1>3. ASSUME NEW r \in Requests, CreateSession(r) \/ AnswerLogin(r) \/ RevokeSession(r)
      PROVE  SessionInv'
  BY <1>0, <1>3, SessionWrites
<1>4. ASSUME NEW r \in Requests, StartCall(r) \/ GetSessionUser(r) PROVE SessionInv'
  BY <1>4, CallStep
<1>5. ASSUME NEW r \in Requests, RequireVerifiedEmail(r) PROVE SessionInv'
  <2>1. PICK s \in {"unverified", "checked"} : Goto(r, s) /\ (s = "checked" => ~Unverified(r))
    BY <1>5 DEF RequireVerifiedEmail
  <2>2. pc[r] = "called" /\ UNCHANGED <<now, input, tokenVars, sessionVars>>
    BY <1>5 DEF RequireVerifiedEmail
  <2> QED
    BY <1>0, <2>1, <2>2, SessionsRead
<1>6. ASSUME NEW r \in Requests, Serve(r) PROVE SessionInv'
  BY <1>0, <1>6, SessionsRead DEF Serve
<1>7. ASSUME /\ UNCHANGED <<input, pc, tokenVars, sessionVars>>
             /\ now' = now \/ now' = now + 1
      PROVE  SessionInv'
  <2> USE <1>7 DEF session, Op, sessionVars
  <2>1. ASSUME NEW s \in known, ~Live(s) PROVE ~Live(s)'
    BY <2>1 DEF Live, TypeOK, Session
  <2>2. OverIsOver'
    BY <2>1 DEF SessionInv, OverIsOver
  <2> QED
    BY <2>2 DEF SessionInv, SessionsKept, SnapshotsHold, ServedAreVerified, LateCallsRefused
<1> QED
  BY <1>1, <1>2, <1>3, <1>4, <1>5, <1>6, <1>7 DEF Next, Start, Step, Tick, vars, sessionVars

-----------------------------------------------------------------------------

LEMMA AccountsInit ==
    ASSUME Init
    PROVE  TypeOK /\ AccountsInv
<1>1. TypeOK
  BY AccountsAssumption DEF Init, TypeOK
<1>2. \A r \in Requests : pc[r] = "idle"
  BY DEF Init
<1>3. TokenInv
  BY <1>1, <1>2, AccountsAssumption
  DEF Init, TokenInv, VerifiedByToken, OpsMatch, TokensHeld, TokenOnce, InTx
<1>4. SessionInv
  BY <1>2 DEF Init, SessionInv, SessionsKept, SnapshotsHold, ServedAreVerified, OverIsOver,
              LateCallsRefused
<1> QED
  BY <1>1, <1>3, <1>4 DEF AccountsInv

\* The inductive invariant of the component.
THEOREM AccountsInvariance == Spec => [](TypeOK /\ AccountsInv)
<1>1. Init => TypeOK /\ AccountsInv
  BY AccountsInit
<1>2. TypeOK /\ AccountsInv /\ [Next]_vars => (TypeOK /\ AccountsInv)'
  <2> SUFFICES ASSUME TypeOK, AccountsInv, [Next]_vars PROVE TypeOK' /\ AccountsInv'
    OBVIOUS
  <2>1. TypeOK'
    BY TypeStep DEF AccountsInv, TokenInv, SessionInv
  <2> QED
    BY <2>1, TokenStep, SessionStep DEF AccountsInv
<1> QED
  BY <1>1, <1>2, PTL DEF Spec

\* A token is used up exactly when its user is verified through it, whatever fails.
THEOREM VerificationIsAtomic == Spec => []VerifiedByToken
<1>1. AccountsInv => VerifiedByToken
  BY DEF AccountsInv, TokenInv
<1> QED
  BY <1>1, AccountsInvariance, PTL

\* A token verifies one request at most, however many race for it.
THEOREM TokensAreSpentOnce == Spec => []TokenOnce
<1>1. AccountsInv => TokenOnce
  BY DEF AccountsInv, TokenInv
<1> QED
  BY <1>1, AccountsInvariance, PTL

\* A route that requires a verified address serves verified users only, although it
\* decides by what an earlier statement has read.
THEOREM OnlyVerifiedAreServed == Spec => []ServedAreVerified
<1>1. AccountsInv => ServedAreVerified
  BY DEF AccountsInv, SessionInv
<1> QED
  BY <1>1, AccountsInvariance, PTL

\* A call that arrives after its session ended or was revoked reaches no handler.
THEOREM SessionsEnd == Spec => []LateCallsRefused
<1>1. AccountsInv => LateCallsRefused
  BY DEF AccountsInv, SessionInv
<1> QED
  BY <1>1, AccountsInvariance, PTL
=============================================================================
