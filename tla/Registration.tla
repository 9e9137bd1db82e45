---------------------------- MODULE Registration ----------------------------
(***************************************************************************)
(* POST /v1/auth/register, the verification e-mail queue of internal/auth, *)
(* and the shutdown sequence of main that stops it.                        *)
(*                                                                         *)
(* A handler creates the users row and the plan_usage row in one           *)
(* transaction, then saves a verification token, offers the mail to a      *)
(* bounded channel without waiting and answers.  One worker sends the      *)
(* mails.  On SIGTERM main stops the HTTP server, giving the handlers ten  *)
(* seconds, closes done and the channel, waits for the worker, closes the  *)
(* pool and returns.                                                       *)
(***************************************************************************)
EXTENDS Naturals, Sequences, SequencesExt

CONSTANTS
    Requests,   \* registrations; each doubles as the id of its account and token
    Emails,     \* canonical addresses
    Capacity,   \* slots of the mail channel (100 in the code)
    NoRequest   \* the worker has no mail in hand

ASSUME RegistrationAssumption ==
    /\ Capacity \in Nat \ {0}
    /\ NoRequest \notin Requests

VARIABLES
    email,      \* the address of each registration, fixed beforehand
    pc,         \* where each handler is, or how it ended
    users,      \* committed rows of users, by registration
    plans,      \* committed rows of plan_usage
    tokens,     \* rows of email_verification_tokens
    emailChan,  \* the buffered channel
    chanClosed, \* close(emailChan) has happened
    done,       \* close(done) has happened
    worker,     \* where the mail worker is
    task,       \* the mail it is sending
    sent,       \* mails the SMTP server accepted, in order
    main,       \* where main is
    forced      \* server.Shutdown gave up on a handler

vars == <<email, pc, users, plans, tokens, emailChan, chanClosed, done, worker, task,
          sent, main, forced>>

tables    == <<users, plans, tokens>>
mailVars  == <<emailChan, chanClosed, done, worker, task, sent>>
processVars == <<main, forced>>

-----------------------------------------------------------------------------

InTx   == {"userInserted", "planInserted"}
Stages == {"received", "committed", "registered", "tokenMade", "answering"} \cup InTx
Answers == {"created", "invalid", "taken", "failed", "panicked", "lost"}

TypeOK ==
    /\ email \in [Requests -> Emails]
    /\ pc \in [Requests -> {"idle"} \cup Stages \cup Answers]
    /\ users \subseteq Requests /\ plans \subseteq Requests /\ tokens \subseteq Requests
    /\ emailChan \in Seq(Requests) /\ Len(emailChan) <= Capacity
    /\ chanClosed \in BOOLEAN /\ done \in BOOLEAN /\ forced \in BOOLEAN
    /\ worker \in {"selecting", "sending", "draining", "drainSending", "returned"}
    /\ task \in Requests \cup {NoRequest}
    /\ task # NoRequest <=> worker \in {"sending", "drainSending"}
    /\ sent \in Seq(Requests)
    /\ main \in {"running", "stopping", "stopped", "closing", "waiting", "drained",
                 "poolClosed", "exited", "killed"}

Init ==
    /\ email \in [Requests -> Emails]
    /\ pc = [r \in Requests |-> "idle"]
    /\ users = {} /\ plans = {} /\ tokens = {}
    /\ emailChan = <<>> /\ chanClosed = FALSE /\ done = FALSE
    /\ worker = "selecting" /\ task = NoRequest /\ sent = <<>>
    /\ main = "running" /\ forced = FALSE

Goto(r, stage) == pc' = [pc EXCEPT ![r] = stage]

Alive == main \notin {"exited", "killed"}
PoolOpen == Alive /\ main # "poolClosed"

-----------------------------------------------------------------------------
(* The handler *)

\* A connection with its request, until Shutdown closes the listener.  Register refuses malformed input first.
Receive(r) ==
    /\ main = "running" /\ pc[r] = "idle"
    /\ Goto(r, "received") \/ Goto(r, "invalid")
    /\ UNCHANGED <<email, tables, mailVars, processVars>>

EmailTaken(r) == \E q \in users : email[q] = email[r]

\* An open transaction has inserted the address: the unique index makes an insert of
\* the same address wait for its end.
EmailPending(r) == \E q \in Requests \ {r} : pc[q] \in InTx /\ email[q] = email[r]

InsertUser(r) ==
    /\ PoolOpen /\ pc[r] = "received"
    /\ ~EmailPending(r)
    /\ \/ ~EmailTaken(r) /\ Goto(r, "userInserted")
       \/ EmailTaken(r) /\ Goto(r, "taken")
    /\ UNCHANGED <<email, tables, mailVars, processVars>>

InsertPlan(r) ==
    /\ Alive /\ pc[r] = "userInserted"
    /\ Goto(r, "planInserted")
    /\ UNCHANGED <<email, tables, mailVars, processVars>>

\* Mutant: two statements without a transaction; the second may fail.
StoreApart(r) == users' = users \cup {r} /\ plans' \in {plans, plans \cup {r}}

\* Both rows of an account.
Store(r) == users' = users \cup {r} /\ plans' = plans \cup {r}

\* The commit takes effect; its acknowledgement is still to come.
Commit(r) ==
    /\ Alive /\ pc[r] = "planInserted"
    /\ Goto(r, "committed")
    /\ Store(r)
    /\ UNCHANGED <<email, tokens, mailVars, processVars>>

\* The acknowledgement arrives, or a broken connection turns it into an error.
Acknowledge(r) ==
    /\ Alive /\ pc[r] = "committed"
    /\ Goto(r, "registered") \/ Goto(r, "failed")
    /\ UNCHANGED <<email, tables, mailVars, processVars>>

\* Mutant: the error of a statement is logged and the handler goes on.
AbortLogged(r) ==
    /\ Alive /\ pc[r] \in InTx \cup {"received"}
    /\ Goto(r, "registered")
    /\ UNCHANGED <<email, tables, mailVars, processVars>>

\* Begin on a closed pool.
Refuse(r) ==
    /\ Alive /\ ~PoolOpen /\ pc[r] = "received"
    /\ Goto(r, "failed")
    /\ UNCHANGED <<email, tables, mailVars, processVars>>

\* A statement fails, or the client hangs up: rollback.
Abort(r) ==
    /\ Alive /\ pc[r] \in InTx \cup {"received"}
    /\ Goto(r, "failed")
    /\ UNCHANGED <<email, tables, mailVars, processVars>>

\* No token, no mail; a token that could not be saved is mailed all the same.
SaveToken(r) ==
    /\ Alive /\ pc[r] = "registered"
    /\ \/ PoolOpen /\ tokens' = tokens \cup {r} /\ Goto(r, "tokenMade")
       \/ UNCHANGED tokens /\ Goto(r, "tokenMade")
       \/ UNCHANGED tokens /\ Goto(r, "answering")
    /\ UNCHANGED <<email, users, plans, mailVars, processVars>>

\* Mutant: the send has no default branch.
NeverDrop(r) == FALSE

\* The default branch of the select.
Drop(r) == Len(emailChan) = Capacity /\ Goto(r, "answering") /\ UNCHANGED emailChan

\* The select: send into a free slot, drop when there is none.  Sending on the closed
\* channel panics: net/http recovers and breaks the connection.
Enqueue(r) ==
    /\ Alive /\ pc[r] = "tokenMade"
    /\ \/ chanClosed /\ Goto(r, "panicked") /\ UNCHANGED emailChan
       \/ /\ ~chanClosed /\ Len(emailChan) < Capacity
          /\ emailChan' = Append(emailChan, r)
          /\ Goto(r, "answering")
       \/ ~chanClosed /\ Drop(r)
    /\ UNCHANGED <<email, tables, chanClosed, done, worker, task, sent, processVars>>

Answer(r) ==
    /\ Alive /\ pc[r] = "answering"
    /\ Goto(r, "created")
    /\ UNCHANGED <<email, tables, mailVars, processVars>>

-----------------------------------------------------------------------------
(* The worker *)

\* Receive a mail: in the select, or in the loop that drains the channel.
TakeMail ==
    /\ Alive /\ emailChan # <<>>
    /\ \/ worker = "selecting" /\ worker' = "sending"
       \/ worker = "draining" /\ worker' = "drainSending"
    /\ task' = Head(emailChan)
    /\ emailChan' = Tail(emailChan)
    /\ UNCHANGED <<email, pc, tables, chanClosed, done, sent, processVars>>

\* SendVerificationEmail returns; its error is ignored.
SendMail ==
    /\ Alive /\ worker \in {"sending", "drainSending"}
    /\ sent' \in {sent, Append(sent, task)}
    /\ worker' = IF worker = "sending" THEN "selecting" ELSE "draining"
    /\ task' = NoRequest
    /\ UNCHANGED <<email, pc, tables, emailChan, chanClosed, done, processVars>>

\* Mutant: the worker returns as soon as it sees done.
ReturnOnDone ==
    /\ Alive /\ worker = "selecting" /\ done
    /\ worker' = "returned"
    /\ UNCHANGED <<email, pc, tables, emailChan, chanClosed, done, task, sent, processVars>>

\* The select sees done closed: from now on the worker only drains.
SeeDone ==
    /\ Alive /\ worker = "selecting" /\ done
    /\ worker' = "draining"
    /\ UNCHANGED <<email, pc, tables, emailChan, chanClosed, done, task, sent, processVars>>

\* The channel is closed and empty: either loop ends, wg.Done.
ReturnWorker ==
    /\ Alive /\ worker \in {"selecting", "draining"}
    /\ chanClosed /\ emailChan = <<>>
    /\ worker' = "returned"
    /\ UNCHANGED <<email, pc, tables, emailChan, chanClosed, done, task, sent, processVars>>

-----------------------------------------------------------------------------
(* main *)

MainGoes(from, to) == main = from /\ main' = to

Signal ==
    /\ MainGoes("running", "stopping")
    /\ UNCHANGED <<email, pc, tables, mailVars, forced>>

\* Mutant: main does not wait for the handlers.
NobodyAwaited == TRUE

HandlersEnded == \A r \in Requests : pc[r] \notin Stages

\* server.Shutdown returns nil.
StopServer ==
    /\ MainGoes("stopping", "stopped") /\ HandlersEnded
    /\ UNCHANGED <<email, pc, tables, mailVars, forced>>

\* The ten seconds are over: the handlers that are left go on in the background.
ForceServer ==
    /\ MainGoes("stopping", "stopped") /\ ~HandlersEnded
    /\ forced' = TRUE
    /\ UNCHANGED <<email, pc, tables, mailVars>>

CloseDone ==
    /\ MainGoes("stopped", "closing")
    /\ done' = TRUE
    /\ UNCHANGED <<email, pc, tables, emailChan, chanClosed, worker, task, sent, forced>>

\* Mutant: Shutdown closes done and forgets the channel.
KeepChannelOpen ==
    /\ MainGoes("closing", "waiting")
    /\ UNCHANGED <<email, pc, tables, mailVars, forced>>

CloseChannel ==
    /\ MainGoes("closing", "waiting")
    /\ chanClosed' = TRUE
    /\ UNCHANGED <<email, pc, tables, emailChan, done, worker, task, sent, forced>>

\* wg.Wait.
WaitWorker ==
    /\ MainGoes("waiting", "drained") /\ worker = "returned"
    /\ UNCHANGED <<email, pc, tables, mailVars, forced>>

\* dbPool.Close waits for the connections that open transactions hold.
ClosePool ==
    /\ MainGoes("drained", "poolClosed")
    /\ \A r \in Requests : pc[r] \notin InTx
    /\ UNCHANGED <<email, pc, tables, mailVars, forced>>

\* The process is gone, and its memory with it.
End(how) ==
    /\ main' = how
    /\ pc' = [r \in Requests |-> IF pc[r] \in Stages THEN "lost" ELSE pc[r]]
    /\ emailChan' = <<>> /\ worker' = "returned" /\ task' = NoRequest
    /\ UNCHANGED <<email, tables, chanClosed, done, sent, forced>>

Exit == main = "poolClosed" /\ End("exited")
Kill == Alive /\ End("killed")

\* What a handler does without waiting for another transaction and without an error
\* from outside.
HandlerStep(r) ==
    \/ InsertPlan(r) \/ Commit(r) \/ Acknowledge(r) \/ Refuse(r)
    \/ SaveToken(r) \/ Enqueue(r) \/ Answer(r)

WorkerStep == TakeMail \/ SendMail \/ SeeDone \/ ReturnWorker

MainStep == StopServer \/ ForceServer \/ CloseDone \/ CloseChannel \/ WaitWorker \/ ClosePool \/ Exit

Next ==
    \/ \E r \in Requests : Receive(r) \/ InsertUser(r) \/ HandlerStep(r) \/ Abort(r)
    \/ WorkerStep
    \/ Signal \/ MainStep \/ Kill

Spec == Init /\ [][Next]_vars

\* Goroutines run, the database answers, and it serves the waiters of a unique key.
HandlersRun == \A r \in Requests : WF_vars(HandlerStep(r)) /\ SF_vars(InsertUser(r))

\* The worker's goroutine runs, and the SMTP server answers or breaks the connection:
\* smtp.SendMail has no timeout of its own.
WorkerRuns == WF_vars(WorkerStep)

MainRuns == WF_vars(MainStep)

HandlersSpec == Spec /\ HandlersRun

-----------------------------------------------------------------------------

\* The mail in the worker's hands and those in the channel.
Pending == (IF task = NoRequest THEN <<>> ELSE <<task>>) \o emailChan

\* The state has its type (the channel within its capacity); an account and its quota
\* row exist together, whatever statement fails or whoever dies in between, so that no
\* user's links go uncounted; an address has one account, however many registrations
\* race for it; and a mail is sent once at most, for a committed account only
\* (repository.go:44-81, service.go:141-155).
AccountsWhole ==
    /\ TypeOK
    /\ users = plans
    /\ \A q, r \in users : email[q] = email[r] => q = r
    /\ IsInjective(sent \o Pending)
    /\ ToSet(sent \o Pending) \subseteq users

\* The answer tells the truth: 201 only for a stored account, and "taken" or
\* "invalid" only for a registration that stored nothing (handler.go:56-73).
AnswerTruthful ==
    \A r \in Requests :
        /\ pc[r] \in {"registered", "tokenMade", "answering", "created", "panicked"} => r \in users
        /\ pc[r] \in {"taken", "invalid"} => r \notin users

\* When main returns, the worker has tried to send every mail that was queued, also
\* those queued while it was shutting down (service.go:62-84, service_test.go:360-376).
ShutdownDrains == [][main' = "exited" => Pending = <<>>]_vars

\* Handlers and main implement what the server promises: a registration that was taken
\* is answered, and meets the closed channel only if server.Shutdown has given up on
\* it; main goes on only when nobody is left, or by force (main.go:235-248).
Lifecycle == INSTANCE Lifecycle WITH
    phase <- CASE ~Alive            -> "down"
               [] main = "running"  -> "serving"
               [] main = "stopping" -> "stopping"
               [] OTHER             -> "stopped",
    fate  <- [r \in Requests |->
                CASE pc[r] = "idle"                  -> "new"
                  [] pc[r] \in Stages                -> "open"
                  [] pc[r] \in {"panicked", "lost"} -> "broken"
                  [] OTHER                           -> "answered"]
ImplementsLifecycle == Lifecycle!Spec

\* A registration ends without any help from the mail worker, even when the channel is
\* full and the SMTP server hangs, unless the process ends (service.go:151-154).
RegistrationsNeverWait ==
    \A r \in Requests : pc[r] = "received" ~> pc[r] \in Answers

\* A signal is followed by the end of the process: done, the channel and wg cannot
\* leave main waiting for ever, as long as the SMTP server answers (service.go:80-84).
ShutdownReturns == WorkerRuns /\ MainRuns => (main = "stopping" ~> ~Alive)
=============================================================================
