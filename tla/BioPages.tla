------------------------------ MODULE BioPages ------------------------------
(***************************************************************************)
(* internal/bio: creating bio pages and putting links on them.             *)
(*                                                                         *)
(* A FREE user may have one page: CreateFreePage locks the user's row,     *)
(* counts pages and inserts, in one transaction.  Everybody else inserts   *)
(* in a single statement, which also has steps another transaction can     *)
(* see: the row enters the unique index on slug, then the foreign key      *)
(* takes a shared lock on the owner's row, then the statement commits.     *)
(* Which of the two paths a handler takes depends on the plan it read in   *)
(* the middleware, so both may run for one user at the same time: the row  *)
(* lock and the index may then wait for each other, and PostgreSQL fails   *)
(* one of the two.                                                         *)
(***************************************************************************)
EXTENDS Naturals, FiniteSets

CONSTANTS
    Users,
    Slugs,      \* slugs of pages
    Links,      \* links, which exist and keep their owner
    LinkOwner,  \* links.owner_user_id
    Requests,   \* requests; each doubles as the id of the page it creates
    Inputs,     \* what a request may be
    Plans,
    None        \* nobody holds the lock

Input == [op : {"create"}, user : Users, slug : Slugs]
    \cup [op : {"attach"}, user : Users, page : Requests, link : Links]

ASSUME BioPagesAssumption ==
    /\ IsFiniteSet(Requests)
    /\ Inputs \subseteq Input
    /\ LinkOwner \in [Links -> Users]
    /\ "FREE" \in Plans
    /\ None \notin Requests

VARIABLES
    input,      \* what each client asks, fixed beforehand
    plan,       \* users.plan_code
    pc,         \* where each handler is, or its answer
    pages,      \* committed rows of bio_pages, by id
    pageLinks,  \* rows of bio_page_links
    ownerLock   \* FOR UPDATE lock on each users row

vars == <<input, plan, pc, pages, pageLinks, ownerLock>>

-----------------------------------------------------------------------------

\* A FREE transaction before and after it has the row lock; the other INSERT; attach.
FreeTx  == {"locked", "counted", "inserted"}
PaidTx  == {"entered", "shared"}
Working == {"free", "paid", "stored", "attaching", "mine"} \cup FreeTx \cup PaidTx
Answers == {"unauthorized", "invalid", "limit", "notfound", "forbidden", "failed",
            "created", "attached"}

TypeOK ==
    /\ input \in [Requests -> Inputs]
    /\ plan \in [Users -> Plans]
    /\ pc \in [Requests -> {"idle"} \cup Working \cup Answers]
    /\ pages \subseteq Requests
    /\ pageLinks \subseteq Requests \X Links
    /\ ownerLock \in [Users -> Requests \cup {None}]

Init ==
    /\ input \in [Requests -> Inputs]
    /\ plan \in [Users -> Plans]
    /\ pc = [r \in Requests |-> "idle"]
    /\ pages = {}
    /\ pageLinks = {}
    /\ ownerLock = [u \in Users |-> None]

user(r) == input[r].user

Goto(r, stage) == pc' = [pc EXCEPT ![r] = stage]

PagesOf(u) == {p \in pages : user(p) = u}

Creating(r) == input[r].op = "create"

SlugTaken(r) == \E p \in pages : input[p].slug = input[r].slug

\* Uncommitted rows with the same slug, which an insert waits for.
SlugHolders(r) ==
    {q \in Requests \ {r} : /\ pc[q] \in {"inserted", "entered", "shared"}
                            /\ input[q].slug = input[r].slug}

\* Foreign keys of uncommitted rows share the owner's row, which FOR UPDATE waits for.
Sharers(u) == {q \in Requests : pc[q] = "shared" /\ user(q) = u}

\* Mutant: the rollback forgets the row lock.
LeakLock(r) == UNCHANGED ownerLock

Unlock(r) == ownerLock' = [u \in Users |-> IF ownerLock[u] = r THEN None ELSE ownerLock[u]]

\* The end of a transaction or statement without a trace in the tables.
Rollback(r, answer) == Goto(r, answer) /\ Unlock(r) /\ UNCHANGED pages

-----------------------------------------------------------------------------
(* Creating a page *)

\* The middleware reads the user, and the service chooses a path by the plan it finds.
Authenticate(r) ==
    /\ pc[r] = "idle"
    /\ \/ Goto(r, "unauthorized")
       \/ Goto(r, "invalid")                  \* title, slug or link_id
       \/ Creating(r) /\ plan[user(r)] = "FREE" /\ Goto(r, "free")
       \/ Creating(r) /\ plan[user(r)] # "FREE" /\ Goto(r, "paid")
       \/ ~Creating(r) /\ Goto(r, "attaching")
    /\ UNCHANGED <<input, plan, pages, pageLinks, ownerLock>>

\* SELECT ... FOR UPDATE of the users row: waits for the row's locks of every kind.
LockOwner(r) ==
    /\ pc[r] = "free"
    /\ ownerLock[user(r)] = None /\ Sharers(user(r)) = {}
    /\ ownerLock' = [ownerLock EXCEPT ![user(r)] = r]
    /\ Goto(r, "locked")
    /\ UNCHANGED <<input, plan, pages, pageLinks>>

CountPages(r) ==
    /\ pc[r] = "locked"
    /\ \/ PagesOf(user(r)) = {} /\ Goto(r, "counted") /\ UNCHANGED <<pages, ownerLock>>
       \/ PagesOf(user(r)) # {} /\ Rollback(r, "limit")
    /\ UNCHANGED <<input, plan, pageLinks>>

\* insertPage in the FREE transaction, which already holds the owner's row.
InsertPage(r) ==
    /\ pc[r] = "counted"
    /\ SlugHolders(r) = {}
    /\ \/ ~SlugTaken(r) /\ Goto(r, "inserted") /\ UNCHANGED <<pages, ownerLock>>
       \/ SlugTaken(r) /\ Rollback(r, "failed")
    /\ UNCHANGED <<input, plan, pageLinks>>

CommitPage(r) ==
    /\ pc[r] = "inserted"
    /\ pages' = pages \cup {r}
    /\ Unlock(r)
    /\ Goto(r, "stored")
    /\ UNCHANGED <<input, plan, pageLinks>>

\* insertPage as a statement of its own: the row enters the table and its index ...
EnterPage(r) ==
    /\ pc[r] = "paid"
    /\ SlugHolders(r) = {}
    /\ \/ ~SlugTaken(r) /\ Goto(r, "entered")
       \/ SlugTaken(r) /\ Goto(r, "failed")
    /\ UNCHANGED <<input, plan, pages, pageLinks, ownerLock>>

\* Mutant: owner_user_id is no foreign key.
ShareNothing(r) ==
    /\ pc[r] = "entered"
    /\ Goto(r, "shared")
    /\ UNCHANGED <<input, plan, pages, pageLinks, ownerLock>>

\* ... the foreign key locks the owner's row FOR KEY SHARE ...
ShareOwner(r) ==
    /\ pc[r] = "entered"
    /\ ownerLock[user(r)] = None
    /\ Goto(r, "shared")
    /\ UNCHANGED <<input, plan, pages, pageLinks, ownerLock>>

\* ... and the statement commits by itself.
StorePage(r) ==
    /\ pc[r] = "shared"
    /\ pages' = pages \cup {r}
    /\ Goto(r, "stored")
    /\ UNCHANGED <<input, plan, pageLinks, ownerLock>>

\* The answer, or a connection broken after the commit.
Acknowledge(r) ==
    /\ pc[r] = "stored"
    /\ Goto(r, "created") \/ Goto(r, "failed")
    /\ UNCHANGED <<input, plan, pages, pageLinks, ownerLock>>

-----------------------------------------------------------------------------
(* Putting a link on a page *)

\* GetPage and the comparison of its owner.
GetPage(r) ==
    /\ pc[r] = "attaching"
    /\ \/ input[r].page \notin pages /\ Goto(r, "notfound")
       \/ input[r].page \in pages /\ user(input[r].page) # user(r) /\ Goto(r, "forbidden")
       \/ input[r].page \in pages /\ user(input[r].page) = user(r) /\ Goto(r, "mine")
    /\ UNCHANGED <<input, plan, pages, pageLinks, ownerLock>>

\* Mutant: INSERT ... VALUES, whoever owns the link.
AttachAnyLink(r) ==
    /\ pc[r] = "mine"
    /\ pageLinks' = pageLinks \cup {<<input[r].page, input[r].link>>}
    /\ Goto(r, "attached")
    /\ UNCHANGED <<input, plan, pages, ownerLock>>

\* INSERT ... WHERE EXISTS, one statement: no row for a link of somebody else, an error
\* for a link that is on the page already.
AttachLink(r) ==
    /\ pc[r] = "mine"
    /\ \/ /\ LinkOwner[input[r].link] = user(r)
          /\ <<input[r].page, input[r].link>> \notin pageLinks
          /\ pageLinks' = pageLinks \cup {<<input[r].page, input[r].link>>}
          /\ Goto(r, "attached") \/ Goto(r, "failed")     \* acknowledged or not
       \/ /\ LinkOwner[input[r].link] # user(r)
          /\ Goto(r, "forbidden")
          /\ UNCHANGED pageLinks
       \/ /\ <<input[r].page, input[r].link>> \in pageLinks
          /\ Goto(r, "failed")
          /\ UNCHANGED pageLinks
    /\ UNCHANGED <<input, plan, pages, ownerLock>>

-----------------------------------------------------------------------------
(* The rest *)

\* Any statement fails, the client hangs up, or the process dies.
Abort(r) ==
    /\ pc[r] \in Working \ {"stored"}
    /\ Rollback(r, "failed")
    /\ UNCHANGED <<input, plan, pageLinks>>

\* r cannot go on before q does.
WaitsFor(r, q) ==
    \/ pc[r] = "free" /\ (ownerLock[user(r)] = q \/ q \in Sharers(user(r)))
    \/ pc[r] = "entered" /\ ownerLock[user(r)] = q
    \/ pc[r] \in {"counted", "paid"} /\ q \in SlugHolders(r)

Deadlocked(r) ==
    \E S \in SUBSET Requests :
        /\ r \in S
        /\ \A q \in S : (\E p \in S : WaitsFor(q, p)) /\ (\E p \in S : WaitsFor(p, q))

\* PostgreSQL's detector fails one statement of a circle of waiters.
BreakDeadlock(r) ==
    /\ Deadlocked(r)
    /\ Rollback(r, "failed")
    /\ UNCHANGED <<input, plan, pageLinks>>

\* Plans change outside the program; the UPDATE waits for a FOR UPDATE lock.
ChangePlan(u, p) ==
    /\ ownerLock[u] = None
    /\ plan' = [plan EXCEPT ![u] = p]
    /\ UNCHANGED <<input, pc, pages, pageLinks, ownerLock>>

\* Steps that wait for nobody, and steps that wait for other transactions.
Step(r) ==
    \/ CountPages(r) \/ CommitPage(r) \/ StorePage(r) \/ Acknowledge(r)
    \/ GetPage(r) \/ AttachLink(r)

Locking(r) == LockOwner(r) \/ InsertPage(r) \/ EnterPage(r) \/ ShareOwner(r)

Next ==
    \/ \E r \in Requests : Authenticate(r) \/ Step(r) \/ Locking(r) \/ Abort(r) \/ BreakDeadlock(r)
    \/ \E u \in Users, p \in Plans : ChangePlan(u, p)

Spec == Init /\ [][Next]_vars

\* Goroutines run, PostgreSQL serves waiters in turn, and its deadlock detector fails
\* some statement of every circle.
FairSpec ==
    /\ Spec
    /\ \A r \in Requests : WF_vars(Step(r)) /\ SF_vars(Locking(r))
    /\ WF_vars(\E r \in Requests : BreakDeadlock(r))

-----------------------------------------------------------------------------

\* The state has its type, a user's row is locked only by a transaction of that user that
\* is still running; pages never share a slug, whichever path created them; and a link
\* is only on pages of its own owner, although page and link are checked by two
\* statements (repository.go:26-68, 81-91, service.go:49-61).
WellFormed ==
    /\ TypeOK
    /\ \A u \in Users, r \in Requests : ownerLock[u] = r => pc[r] \in FreeTx /\ user(r) = u
    /\ \A p, q \in pages : input[p].slug = input[q].slug => p = q
    /\ \A t \in pageLinks : t[1] \in pages /\ LinkOwner[t[2]] = user(t[1])

\* When a request that was authenticated on the FREE plan commits its page, the page is
\* the only one of its owner, even if a request that was authenticated on another plan
\* is inserting one at the same time (repository.go:26-52).
FreePageAlone ==
    [][\A r \in Requests :
        pc[r] = "inserted" /\ pc'[r] = "stored" => PagesOf(user(r))' = {r}]_vars

\* Every request for a page that passed the middleware is answered: the waits for the
\* owner's row and for the slug end, and where they form a circle PostgreSQL breaks it.
PageAnswered == \A r \in Requests : pc[r] \in {"free", "paid"} ~> pc[r] \in Answers
=============================================================================
