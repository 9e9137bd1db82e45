---------------------------- MODULE LinkCreation ----------------------------
(***************************************************************************)
(* POST /v1/links and POST /v1/api/links: the handlers that create short   *)
(* links, running concurrently in one server over one PostgreSQL database. *)
(*                                                                         *)
(* A handler reads the user (with its plan) once, in the middleware, and   *)
(* decides plan features and alias availability from that snapshot and     *)
(* from an unlocked read.  It then runs CreateLinkAtomic, one transaction  *)
(* that locks the user's plan_usage row, checks the quota, inserts the     *)
(* link and its campaign, counts the link and commits.                     *)
(*                                                                         *)
(* An action is one statement the database executes, or one decision of    *)
(* the handler.  writes[r] holds the statements of r's open transaction;   *)
(* nobody sees them before Commit.  Row locks and the unique index on      *)
(* links.slug make a statement wait: its guard is then false.              *)
(***************************************************************************)
EXTENDS Naturals, FiniteSets

CONSTANTS
    Users,      \* accounts
    Slugs,      \* slugs a client may ask for or the generator may draw
    Requests,   \* creation requests; each doubles as the id of its link
    Inputs,     \* the request bodies considered
    Plans,      \* plan codes; the code knows FREE, PRO and BUSINESS
    FreeLimit,  \* links a FREE account may hold (10 in the code)
    NoSlug,     \* "no custom alias", and a slug not chosen yet
    NoRequest   \* "this row is not locked"

Input == [user : Users, alias : Slugs \cup {NoSlug},
          expiry : BOOLEAN, domain : BOOLEAN, utm : BOOLEAN]

ASSUME LinkCreationAssumption ==
    /\ IsFiniteSet(Requests)
    /\ Inputs \subseteq Input
    /\ "FREE" \in Plans
    /\ FreeLimit \in Nat
    /\ NoSlug \notin Slugs
    /\ NoRequest \notin Requests

VARIABLES
    input,      \* what the client of each request sends, fixed beforehand
    pc,         \* where each handler is; an answer when it has finished
    plan,       \* the handler's snapshot of users.plan_code
    slug,       \* the slug the handler settled on
    links,      \* committed rows of links
    campaigns,  \* committed rows of link_campaigns, by link id
    usage,      \* committed rows of plan_usage
    rowLock,    \* who holds the row lock of a user's plan_usage row
    writes      \* uncommitted statements of each open transaction

vars == <<input, pc, plan, slug, links, campaigns, usage, rowLock, writes>>

database == <<links, campaigns, usage, rowLock, writes>>

-----------------------------------------------------------------------------

\* Stages before the transaction, inside it, and after its commit.
Preparing == {"authenticated", "permitted", "resolved"}
InTx      == {"locked", "inserted", "tagged", "counted"}
Working   == Preparing \cup InTx \cup {"committed"}

\* "lost": the process died before it answered.
Answers == {"created", "unauthorized", "invalid", "forbidden", "failed", "lost"}

Link == [id : Requests, owner : Users, slug : Slugs]
Usage == [plan : Plans, count : Nat]
Statements == {"link", "campaign", "usage"}

TypeOK ==
    /\ input \in [Requests -> Inputs]
    /\ pc \in [Requests -> {"idle"} \cup Working \cup Answers]
    /\ plan \in [Requests -> Plans]
    /\ slug \in [Requests -> Slugs \cup {NoSlug}]
    /\ links \subseteq Link
    /\ campaigns \subseteq Requests
    /\ usage \in [Users -> Usage]
    /\ rowLock \in [Users -> Requests \cup {NoRequest}]
    /\ writes \in [Requests -> SUBSET Statements]

Init ==
    /\ input \in [Requests -> Inputs]
    /\ pc = [r \in Requests |-> "idle"]
    /\ plan = [r \in Requests |-> "FREE"]
    /\ slug = [r \in Requests |-> NoSlug]
    /\ links = {}
    /\ campaigns = {}
    /\ usage \in [Users -> [plan : Plans, count : {0}]]
    /\ rowLock = [u \in Users |-> NoRequest]
    /\ writes = [r \in Requests |-> {}]

-----------------------------------------------------------------------------

user(r) == input[r].user

Goto(r, stage) == pc' = [pc EXCEPT ![r] = stage]

LinksOf(u) == {l \in links : l.owner = u}

SlugTaken(s) == \E l \in links : l.slug = s

\* Another open transaction has inserted the slug: the unique index makes an
\* insert of the same slug wait until that transaction ends.
SlugPending(r, s) == \E q \in Requests \ {r} : "link" \in writes[q] /\ slug[q] = s

\* Mutant: the rollback forgets the row lock.
LeakLock(r) == UNCHANGED rowLock

Unlock(r) == rowLock' = [u \in Users |-> IF rowLock[u] = r THEN NoRequest ELSE rowLock[u]]

\* The deferred tx.Rollback: statements undone, lock released, error returned.
Rollback(r, answer) ==
    /\ Goto(r, answer)
    /\ writes' = [writes EXCEPT ![r] = {}]
    /\ Unlock(r)
    /\ UNCHANGED <<links, campaigns, usage>>

-----------------------------------------------------------------------------

\* The middleware: unauthorized also stands for an unverified address, a
\* limited address and, behind an API key, an exhausted quota.
Authenticate(r) ==
    /\ pc[r] = "idle"
    /\ \/ Goto(r, "authenticated") /\ plan' = [plan EXCEPT ![r] = usage[user(r)].plan]
       \/ Goto(r, "unauthorized") /\ UNCHANGED plan
    /\ UNCHANGED <<input, slug, database>>

DomainAllowed(r) == input[r].domain => plan[r] = "BUSINESS"

\* Mutant: the plan gates are only checked for the custom domain.
ExpiryUngated(r) == TRUE

ExpiryAllowed(r) == input[r].expiry => plan[r] # "FREE"

\* validateTargetURL, validatePlanFeatures and validateWorkspace in their order.
\* Format, scan, blacklist and membership are read from tables and services this
\* module leaves out: each may say no.
Validate(r) ==
    /\ pc[r] = "authenticated"
    /\ \/ Goto(r, "invalid")                           \* format, malicious, blacklisted
       \/ Goto(r, "failed")                            \* the scanner did not answer
       \/ ~DomainAllowed(r) /\ Goto(r, "forbidden")
       \/ DomainAllowed(r) /\ ~ExpiryAllowed(r) /\ Goto(r, "invalid")
       \/ DomainAllowed(r) /\ ExpiryAllowed(r) /\ Goto(r, "forbidden")   \* not a member
       \/ DomainAllowed(r) /\ ExpiryAllowed(r) /\ Goto(r, "permitted")
    /\ UNCHANGED <<input, plan, slug, database>>

\* resolveSlug.  IsSlugAvailable reads committed rows, without a lock, and reports
\* a database error as "taken".
ResolveSlug(r) ==
    /\ pc[r] = "permitted"
    /\ \/ /\ input[r].alias = NoSlug
          /\ \E s \in Slugs : slug' = [slug EXCEPT ![r] = s]
          /\ Goto(r, "resolved")
       \/ /\ input[r].alias # NoSlug
          /\ plan[r] # "FREE" /\ ~SlugTaken(input[r].alias)
          /\ slug' = [slug EXCEPT ![r] = input[r].alias]
          /\ Goto(r, "resolved")
       \/ /\ input[r].alias # NoSlug
          /\ Goto(r, "invalid")
          /\ UNCHANGED slug
    /\ UNCHANGED <<input, plan, database>>

HasRoom(u) == usage[u].plan = "FREE" => usage[u].count < FreeLimit

\* Mutant: SELECT without FOR UPDATE.
ReadUsage(r) ==
    /\ pc[r] = "resolved"
    /\ HasRoom(user(r))
    /\ Goto(r, "locked")
    /\ UNCHANGED <<input, plan, slug, database>>

\* Mutant: the limit is compared with > instead of >=.
LooseLimit(r) ==
    /\ pc[r] = "resolved"
    /\ rowLock[user(r)] = NoRequest
    /\ usage[user(r)].plan = "FREE" => usage[user(r)].count <= FreeLimit
    /\ Goto(r, "locked")
    /\ rowLock' = [rowLock EXCEPT ![user(r)] = r]
    /\ UNCHANGED <<input, plan, slug, links, campaigns, usage, writes>>

\* SELECT ... FOR UPDATE of the plan_usage row, then the limit check.
LockUsage(r) ==
    /\ pc[r] = "resolved"
    /\ rowLock[user(r)] = NoRequest
    /\ \/ /\ HasRoom(user(r))
          /\ Goto(r, "locked")
          /\ rowLock' = [rowLock EXCEPT ![user(r)] = r]
       \/ ~HasRoom(user(r)) /\ Goto(r, "failed") /\ UNCHANGED rowLock
    /\ UNCHANGED <<input, plan, slug, links, campaigns, usage, writes>>

\* INSERT INTO links: waits for a pending equal slug, fails on a committed one.
InsertLink(r) ==
    /\ pc[r] = "locked"
    /\ ~SlugPending(r, slug[r])
    /\ \/ /\ ~SlugTaken(slug[r])
          /\ Goto(r, "inserted")
          /\ writes' = [writes EXCEPT ![r] = @ \cup {"link"}]
          /\ UNCHANGED <<links, campaigns, usage, rowLock>>
       \/ SlugTaken(slug[r]) /\ Rollback(r, "failed")
    /\ UNCHANGED <<input, plan, slug>>

\* Mutant: an error of the campaign insert is only logged.
InsertCampaignLogged(r) ==
    /\ pc[r] = "inserted"
    /\ Goto(r, "tagged")
    /\ \/ writes' = [writes EXCEPT ![r] = IF input[r].utm THEN @ \cup {"campaign"} ELSE @]
       \/ UNCHANGED writes
    /\ UNCHANGED <<input, plan, slug, links, campaigns, usage, rowLock>>

\* INSERT INTO link_campaigns, when the request carries utm fields.
InsertCampaign(r) ==
    /\ pc[r] = "inserted"
    /\ Goto(r, "tagged")
    /\ writes' = [writes EXCEPT ![r] = IF input[r].utm THEN @ \cup {"campaign"} ELSE @]
    /\ UNCHANGED <<input, plan, slug, links, campaigns, usage, rowLock>>

\* UPDATE plan_usage: takes the row lock if the transaction does not hold it yet.
CountLink(r) ==
    /\ pc[r] = "tagged"
    /\ rowLock[user(r)] \in {NoRequest, r}
    /\ Goto(r, "counted")
    /\ writes' = [writes EXCEPT ![r] = @ \cup {"usage"}]
    /\ rowLock' = [rowLock EXCEPT ![user(r)] = r]
    /\ UNCHANGED <<input, plan, slug, links, campaigns, usage>>

LinkRow(r) == [id |-> r, owner |-> user(r), slug |-> slug[r]]

\* What the statements of r's transaction make of the committed tables.
Apply(r) ==
    /\ links' = IF "link" \in writes[r] THEN links \cup {LinkRow(r)} ELSE links
    /\ campaigns' = IF "campaign" \in writes[r] THEN campaigns \cup {r} ELSE campaigns
    /\ usage' = IF "usage" \in writes[r]
                THEN [usage EXCEPT ![user(r)].count = @ + 1] ELSE usage

\* Mutant: the counter is written after the commit, in a statement of its own
\* that a broken connection skips.
CommitBeforeCount(r) ==
    /\ pc[r] = "counted"
    /\ Goto(r, "committed")
    /\ links' = links \cup {LinkRow(r)}
    /\ campaigns' = IF "campaign" \in writes[r] THEN campaigns \cup {r} ELSE campaigns
    /\ \/ usage' = [usage EXCEPT ![user(r)].count = @ + 1]
       \/ UNCHANGED usage
    /\ writes' = [writes EXCEPT ![r] = {}]
    /\ Unlock(r)
    /\ UNCHANGED <<input, plan, slug>>

\* tx.Commit takes effect in the database; its acknowledgement is still to come.
Commit(r) ==
    /\ pc[r] = "counted"
    /\ Goto(r, "committed")
    /\ Apply(r)
    /\ writes' = [writes EXCEPT ![r] = {}]
    /\ Unlock(r)
    /\ UNCHANGED <<input, plan, slug>>

\* The acknowledgement arrives, or the connection breaks and the handler reports a
\* failure for a link that exists.
Acknowledge(r) ==
    /\ pc[r] = "committed"
    /\ Goto(r, "created") \/ Goto(r, "failed")
    /\ UNCHANGED <<input, plan, slug, database>>

\* Begin, or any statement, returns an error, or the client hangs up and the
\* request's context cancels the statement the transaction is waiting in.
Abort(r) ==
    /\ pc[r] \in InTx \cup {"resolved"}
    /\ Rollback(r, "failed")
    /\ UNCHANGED <<input, plan, slug>>

-----------------------------------------------------------------------------

\* Operators move accounts between plans outside this program: no code writes
\* plan_code after registration.  The UPDATE waits for the row lock.
ChangePlan(u, p) ==
    /\ rowLock[u] = NoRequest
    /\ usage' = [usage EXCEPT ![u].plan = p]
    /\ UNCHANGED <<input, pc, plan, slug, links, campaigns, rowLock, writes>>

\* The process dies: PostgreSQL rolls every open transaction back, committed rows
\* stay, clients get no answer.
Crash ==
    /\ \E r \in Requests : pc[r] \in Working
    /\ pc' = [r \in Requests |-> IF pc[r] \in Working THEN "lost" ELSE pc[r]]
    /\ writes' = [r \in Requests |-> {}]
    /\ rowLock' = [u \in Users |-> NoRequest]
    /\ UNCHANGED <<input, plan, slug, links, campaigns, usage>>

\* Statements that wait for nobody, and the two that wait for another transaction.
Step(r) ==
    \/ Validate(r) \/ ResolveSlug(r) \/ InsertCampaign(r) \/ CountLink(r)
    \/ Commit(r) \/ Acknowledge(r)

Handle(r) == Authenticate(r) \/ Step(r) \/ LockUsage(r) \/ InsertLink(r) \/ Abort(r)

Next ==
    \/ \E r \in Requests : Handle(r)
    \/ \E u \in Users, p \in Plans : ChangePlan(u, p)
    \/ Crash

Spec == Init /\ [][Next]_vars

\* A goroutine that can run does run, and PostgreSQL serves the waiters of a row
\* lock or of a unique key in turn: a waiter whose lock keeps becoming free gets it.
Fairness ==
    \A r \in Requests :
        /\ WF_vars(Step(r))
        /\ SF_vars(LockUsage(r))
        /\ SF_vars(InsertLink(r))

FairSpec == Spec /\ Fairness

-----------------------------------------------------------------------------

\* The quota counter of a user is exactly the number of links the user owns: no
\* interleaving, failed statement, broken commit or crash of CreateLinkAtomic
\* separates the two tables (repository.go:27-85).
QuotaExact == \A u \in Users : usage[u].count = Cardinality(LinksOf(u))

\* Two links never share a slug, although IsSlugAvailable is an unlocked read that
\* two requests for the same alias both pass (service.go:168-180).
SlugUnique == \A k, l \in links : k.slug = l.slug => k = l

\* A step that adds a link to an account whose plan is FREE at that moment leaves
\* it with at most FreeLimit links, whatever the plan was when the request was
\* authenticated (repository.go:45-47).
FreeQuotaRespected ==
    [][\A u \in Users :
        usage'[u].count > usage[u].count /\ usage[u].plan = "FREE"
            => usage'[u].count <= FreeLimit]_vars

Stored(r) ==
    /\ LinkRow(r) \in links
    /\ r \in campaigns <=> input[r].utm

Absent(r) == r \notin campaigns /\ \A l \in links : l.id # r

\* The answer tells the truth: 201 means that the link is stored under the slug the
\* handler chose, with its campaign exactly if one was sent; 400, 401 and 403 mean
\* that nothing was stored; and a 500 never leaves part of a link behind
\* (handler.go:43-61).
AnswerTruthful ==
    \A r \in Requests :
        /\ pc[r] \in {"committed", "created"} => Stored(r)
        /\ pc[r] \in {"unauthorized", "invalid", "forbidden"} => Absent(r)
        /\ pc[r] \in {"failed", "lost"} => Stored(r) \/ Absent(r)

\* Aliases, expiry dates and custom domains never reach the links table for a
\* request that was authenticated on a plan without them (service.go:168-190).
PaidFeaturesOnly ==
    \A l \in links :
        LET r == l.id IN
        /\ l.slug = input[r].alias \/ input[r].alias = NoSlug
        /\ plan[r] = "FREE" => input[r].alias = NoSlug /\ ~input[r].expiry
        /\ plan[r] # "BUSINESS" => ~input[r].domain

\* Every request that passed the middleware is answered, or dies with the process:
\* no wait for a row lock or for a pending slug lasts for ever.
EventuallyAnswered ==
    \A r \in Requests : pc[r] = "authenticated" ~> pc[r] \in Answers

-----------------------------------------------------------------------------

\* The links and link_campaigns tables joined, as LinkQuota sees them.
JoinedLinks ==
    {[id |-> l.id, owner |-> l.owner, slug |-> l.slug, tagged |-> l.id \in campaigns] :
        l \in links}

Quota == INSTANCE LinkQuota WITH links <- JoinedLinks, Ids <- Requests

\* The handlers together implement the one-step specification LinkQuota.
ImplementsQuota == Quota!Spec

-----------------------------------------------------------------------------

\* Why the properties hold.  A transaction past its limit check holds the lock of
\* its own user's row, and only such a transaction holds it ...
LocksHeld ==
    /\ \A r \in Requests : pc[r] \in InTx => rowLock[user(r)] = r
    /\ \A u \in Users, r \in Requests : rowLock[u] = r => pc[r] \in InTx /\ user(r) = u

\* ... so the room it saw is still there when it commits ...
RoomKept == \A r \in Requests : pc[r] \in InTx => HasRoom(user(r))

\* ... it has executed exactly the statements its stage says ...
WritesMatch ==
    \A r \in Requests :
        /\ "link" \in writes[r] <=> pc[r] \in {"inserted", "tagged", "counted"}
        /\ "campaign" \in writes[r] <=> pc[r] \in {"tagged", "counted"} /\ input[r].utm
        /\ "usage" \in writes[r] <=> pc[r] = "counted"

\* ... its slug is chosen, and once inserted belongs to it alone ...
SlugsReserved ==
    /\ \A r \in Requests : pc[r] \in InTx \cup {"resolved"} => slug[r] \in Slugs
    /\ \A r \in Requests : "link" \in writes[r] =>
        ~SlugTaken(slug[r]) /\ ~SlugPending(r, slug[r])

\* ... and the link of a request that has not committed is not in the tables.
RowsMatch ==
    \A r \in Requests :
        \/ Absent(r)
        \/ /\ pc[r] \in {"committed", "created", "failed", "lost"}
           /\ Stored(r)
           /\ \A l \in links : l.id = r => l = LinkRow(r)

\* The inductive invariant.
IInv ==
    /\ TypeOK
    /\ LocksHeld
    /\ RoomKept
    /\ WritesMatch
    /\ SlugsReserved
    /\ RowsMatch
    /\ IsFiniteSet(links)
    /\ QuotaExact
    /\ SlugUnique
    /\ \A r \in Requests : pc[r] \in {"committed", "created"} => Stored(r)
=============================================================================
