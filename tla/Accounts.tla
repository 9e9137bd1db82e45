------------------------------ MODULE Accounts ------------------------------
(***************************************************************************)
(* internal/auth after registration: verifying an address, logging in and  *)
(* out, and the middleware in front of every handler that needs a user.    *)
(*                                                                         *)
(* VerifyEmailToken is one transaction that locks the token's row, decides *)
(* and writes two tables.  Sessions are single statements: an INSERT per   *)
(* login, an UPDATE per logout, a SELECT per call.  A call keeps the user  *)
(* it read although the session may end and the address may be verified    *)
(* before its handler runs.                                                *)
(***************************************************************************)
EXTENDS Naturals, FiniteSets

CONSTANTS
    Tokens,      \* verification tokens that registrations have saved
    TokenUser,   \* email_verification_tokens.user_id
    Requests,    \* requests; a login doubles as the session it creates
    Inputs,      \* what a request may be
    TokenTTL,    \* ticks a token lives (24 h in the code)
    SessionTTL,  \* ticks a session lives (7 days in the code)
    MaxTime,     \* bound: the clock stops
    None

Users == {TokenUser[t] : t \in Tokens}

Input == [op : {"verify"}, token : Tokens]
    \cup [op : {"login"}, user : Users]
    \cup [op : {"logout", "call", "verifiedcall"}, session : Requests]

ASSUME AccountsAssumption ==
    /\ IsFiniteSet(Requests)
    /\ Inputs \subseteq Input
    /\ TokenTTL \in Nat /\ SessionTTL \in Nat /\ MaxTime \in Nat
    /\ None \notin Requests

VARIABLES
    now,       \* the clock
    input,     \* what each client asks, fixed beforehand
    pc,        \* where each handler is, or its answer
    consumed,  \* tokens with a consumed_at
    verified,  \* users with an email_verified_at
    rowLock,   \* the transaction that has locked a token's row
    sessions,  \* committed rows of sessions: owner, end and revocation
    known,     \* sessions whose cookie reached a client
    snapshot,  \* the verification state a call read with its user
    late       \* history: calls that arrived when their session was over

vars == <<now, input, pc, consumed, verified, rowLock, sessions, known, snapshot, late>>

tokenVars   == <<consumed, verified, rowLock>>
sessionVars == <<sessions, known, snapshot, late>>

-----------------------------------------------------------------------------

InTx    == {"locked", "consumed", "marked"}
Working == InTx \cup {"verifying", "stored", "loggingin", "opened", "loggingout",
                      "calling", "called", "checked"}
Answers == {"verified", "refused", "loggedin", "loggedout", "unauthenticated",
            "unverified", "served"}

Session == [owner : Users, ends : Nat, revoked : BOOLEAN]

TypeOK ==
    /\ now \in 0..MaxTime
    /\ input \in [Requests -> Inputs]
    /\ pc \in [Requests -> {"idle"} \cup Working \cup Answers]
    /\ consumed \subseteq Tokens
    /\ verified \subseteq Users
    /\ rowLock \in [Tokens -> Requests \cup {None}]
    /\ DOMAIN sessions \subseteq Requests
    /\ \A s \in DOMAIN sessions : sessions[s] \in Session
    /\ known \subseteq DOMAIN sessions
    /\ snapshot \in [Requests -> BOOLEAN]
    /\ late \subseteq Requests

Init ==
    /\ now = 0
    /\ input \in [Requests -> Inputs]
    /\ pc = [r \in Requests |-> "idle"]
    /\ consumed = {} /\ verified = {}
    /\ rowLock = [t \in Tokens |-> None]
    /\ sessions = [s \in {} |-> {}] /\ known = {}
    /\ snapshot = [r \in Requests |-> FALSE]
    /\ late = {}

Goto(r, stage) == pc' = [pc EXCEPT ![r] = stage]

token(r)   == input[r].token
session(r) == input[r].session

Op(r, op) == input[r].op = op

-----------------------------------------------------------------------------
(* VerifyEmail *)

StartVerify(r) ==
    /\ pc[r] = "idle" /\ Op(r, "verify")
    /\ Goto(r, "verifying")
    /\ UNCHANGED <<now, input, tokenVars, sessionVars>>

Usable(t) == t \notin consumed /\ now <= TokenTTL

\* Mutant: SELECT without FOR UPDATE.
Unlocked(t) == TRUE

\* No other verification holds the token's row.
RowFree(t) == rowLock[t] = None

\* SELECT ... FOR UPDATE waits for another verification of the token; then a token that
\* is used up or too old is refused and the transaction rolled back.
LockToken(r) ==
    /\ pc[r] = "verifying"
    /\ RowFree(token(r))
    /\ \/ /\ Usable(token(r))
          /\ rowLock' = [rowLock EXCEPT ![token(r)] = r]
          /\ Goto(r, "locked")
       \/ ~Usable(token(r)) /\ Goto(r, "refused") /\ UNCHANGED rowLock
    /\ UNCHANGED <<now, input, consumed, verified, sessionVars>>

\* UPDATE email_verification_tokens.
ConsumeToken(r) ==
    /\ pc[r] = "locked"
    /\ Goto(r, "consumed")
    /\ UNCHANGED <<now, input, tokenVars, sessionVars>>

\* UPDATE users.
MarkVerified(r) ==
    /\ pc[r] = "consumed"
    /\ Goto(r, "marked")
    /\ UNCHANGED <<now, input, tokenVars, sessionVars>>

UnlockToken(r) == rowLock' = [t \in Tokens |-> IF rowLock[t] = r THEN None ELSE rowLock[t]]

\* Mutant: two statements without a transaction; the second may fail.
VerifyApart(r) ==
    /\ consumed' = consumed \cup {token(r)}
    /\ verified' \in {verified, verified \cup {TokenUser[token(r)]}}

\* The token is used up and its user verified.
Verify(r) ==
    /\ consumed' = consumed \cup {token(r)}
    /\ verified' = verified \cup {TokenUser[token(r)]}

\* Both updates appear.
CommitVerification(r) ==
    /\ pc[r] = "marked"
    /\ Verify(r) /\ UnlockToken(r)
    /\ Goto(r, "stored")
    /\ UNCHANGED <<now, input, sessionVars>>

\* The acknowledgement arrives, or a broken connection makes it a refusal.
AnswerVerification(r) ==
    /\ pc[r] = "stored"
    /\ Goto(r, "verified") \/ Goto(r, "refused")
    /\ UNCHANGED <<now, input, tokenVars, sessionVars>>

\* A statement fails, the client hangs up or the process dies.
AbortVerification(r) ==
    /\ pc[r] \in InTx \cup {"verifying"}
    /\ UnlockToken(r)
    /\ Goto(r, "refused")
    /\ UNCHANGED <<now, input, consumed, verified, sessionVars>>

-----------------------------------------------------------------------------
(* Login and Logout *)

\* GetUserByEmail and the password, or a refusal.
StartLogin(r) ==
    /\ pc[r] = "idle" /\ Op(r, "login")
    /\ Goto(r, "loggingin") \/ Goto(r, "refused")
    /\ UNCHANGED <<now, input, tokenVars, sessionVars>>

NewSession(r) == [owner |-> input[r].user, ends |-> now + SessionTTL, revoked |-> FALSE]

\* CreateSession; a row whose acknowledgement is lost is a session nobody knows.
CreateSession(r) ==
    /\ pc[r] = "loggingin"
    /\ \/ /\ sessions' = [s \in DOMAIN sessions \cup {r} |->
                            IF s = r THEN NewSession(r) ELSE sessions[s]]
          /\ Goto(r, "opened") \/ Goto(r, "refused")
       \/ Goto(r, "refused") /\ UNCHANGED sessions
    /\ UNCHANGED <<now, input, tokenVars, known, snapshot, late>>

\* The cookie goes out.
AnswerLogin(r) ==
    /\ pc[r] = "opened"
    /\ known' = known \cup {r}
    /\ Goto(r, "loggedin")
    /\ UNCHANGED <<now, input, tokenVars, sessions, snapshot, late>>

\* A client can only send a cookie it has.
StartLogout(r) ==
    /\ pc[r] = "idle" /\ Op(r, "logout") /\ session(r) \in known
    /\ Goto(r, "loggingout")
    /\ UNCHANGED <<now, input, tokenVars, sessionVars>>

\* RevokeSession, whose error the handler ignores: the answer is the same.
RevokeSession(r) ==
    /\ pc[r] = "loggingout"
    /\ \/ sessions' = [sessions EXCEPT ![session(r)].revoked = TRUE]
       \/ UNCHANGED sessions
    /\ Goto(r, "loggedout")
    /\ UNCHANGED <<now, input, tokenVars, known, snapshot, late>>

-----------------------------------------------------------------------------
(* AuthMiddleware and RequireVerifiedEmailMiddleware *)

Live(s) == s \in DOMAIN sessions /\ now < sessions[s].ends /\ ~sessions[s].revoked

StartCall(r) ==
    /\ pc[r] = "idle" /\ (Op(r, "call") \/ Op(r, "verifiedcall")) /\ session(r) \in known
    /\ late' = IF Live(session(r)) THEN late ELSE late \cup {r}
    /\ Goto(r, "calling")
    /\ UNCHANGED <<now, input, tokenVars, sessions, known, snapshot>>

\* Mutant: the query does not look at revoked_at.
FoundUnrevoked(s) == now < sessions[s].ends

\* The query of GetSessionUser finds the session.
Found(s) == Live(s)

\* GetSessionUser: an error is no session.
GetSessionUser(r) ==
    /\ pc[r] = "calling"
    /\ \/ /\ Found(session(r))
          /\ snapshot' = [snapshot EXCEPT ![r] = sessions[session(r)].owner \in verified]
          /\ Goto(r, "called")
       \/ Goto(r, "unauthenticated") /\ UNCHANGED snapshot
    /\ UNCHANGED <<now, input, tokenVars, sessions, known, late>>

\* Mutant: every route is behind the plain chain.
Unguarded(r) == FALSE

\* The route is behind verifiedAuthChain, and what the middleware read is unverified.
Unverified(r) == Op(r, "verifiedcall") /\ ~snapshot[r]

\* A route behind verifiedAuthChain looks at the snapshot, the others do not.
RequireVerifiedEmail(r) ==
    /\ pc[r] = "called"
    /\ Goto(r, IF Unverified(r) THEN "unverified" ELSE "checked")
    /\ UNCHANGED <<now, input, tokenVars, sessionVars>>

Serve(r) ==
    /\ pc[r] = "checked"
    /\ Goto(r, "served")
    /\ UNCHANGED <<now, input, tokenVars, sessionVars>>

-----------------------------------------------------------------------------

Tick ==
    /\ now < MaxTime
    /\ now' = now + 1
    /\ UNCHANGED <<input, pc, tokenVars, sessionVars>>

Start(r) == StartVerify(r) \/ StartLogin(r) \/ StartLogout(r) \/ StartCall(r)

Step(r) ==
    \/ ConsumeToken(r) \/ MarkVerified(r) \/ CommitVerification(r) \/ AnswerVerification(r)
    \/ CreateSession(r) \/ AnswerLogin(r) \/ RevokeSession(r)
    \/ GetSessionUser(r) \/ RequireVerifiedEmail(r) \/ Serve(r)

Next ==
    \/ \E r \in Requests : Start(r) \/ Step(r) \/ LockToken(r) \/ AbortVerification(r)
    \/ Tick

Spec == Init /\ [][Next]_vars

-----------------------------------------------------------------------------

\* The state has its type; a token's row is locked only by a verification of that token
\* that is still running; and a token is used up exactly when its user is verified through
\* it: no failed statement loses a token for nothing, and nobody is verified without one
\* (repository.go:93-137).
VerifiedByToken ==
    /\ TypeOK
    /\ \A t \in Tokens, r \in Requests :
        rowLock[t] = r => pc[r] \in InTx /\ token(r) = t
    /\ verified = {TokenUser[t] : t \in consumed}

\* A token verifies one request at most, however many arrive together with it: the loser
\* of the race reads consumed_at after the winner's commit (repository.go:105-123).
TokenOnce ==
    \A q, r \in Requests :
        /\ pc[q] \in InTx \cup {"stored", "verified"} /\ Op(q, "verify")
        /\ pc[r] \in InTx \cup {"stored", "verified"} /\ Op(r, "verify")
        /\ token(q) = token(r)
        => q = r

\* A route that requires a verified address serves only users who are verified when it
\* serves them, although the check used what the middleware had read before
\* (handler.go:159-174).
ServedAreVerified ==
    \A r \in Requests :
        pc[r] \in {"checked", "served"} /\ Op(r, "verifiedcall")
            => sessions[session(r)].owner \in verified

\* A session that is over stays over: a call that arrives after its session ended, or
\* after a logout that took effect, reaches no handler (repository.go:181-203).
LateCallsRefused ==
    \A r \in late : pc[r] \in {"calling", "unauthenticated"}
=============================================================================
