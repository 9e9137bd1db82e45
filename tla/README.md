# TLA+ specifications of the Trimly platform

Trimly is a URL shortener: one Go server over one PostgreSQL database. Handlers
run concurrently, each on a goroutine of its own; two background workers take
clicks and mails off bounded channels; everything that has to survive is a row
in a table. This directory models the parts of the server that keep or change
state, checks them with TLC on small instances, and proves the central ones with
TLAPS for every instance.

A property comment names the source file and lines it is about; paths are
relative to the package, e.g. `repository.go` in `LinkCreation.tla` is
`src/internal/link/repository.go`. `PROJECT.json` maps every definition that
models code to its lines.

## 1. Inventory

| Component (source) | State | Operations | Talks to | What is hard | What makes it correct |
|---|---|---|---|---|---|
| link creation (`internal/link`) | `links`, `link_campaigns`, `plan_usage` | create a link | middleware (snapshot of the user), blacklist, workspaces | a snapshot, an unlocked read, a transaction; lost commits; plan changes | exact quota counter, unique slugs, truthful answers, no paid feature on a lower plan |
| redirects (`internal/link`) | channel of 5000 clicks, `click_events` | redirect, worker | blacklist, shutdown of `main` | full channel, timeouts before and after the fact, INSERTs that outlive their call, shutdown | a click is stored at most once, in order while no call is given up; redirects never wait |
| registration (`internal/auth`, `internal/pkg/mail`, `cmd/api`) | `users`, `plan_usage`, `email_verification_tokens`, channel of 100 mails, `done` | register, worker, shutdown | SMTP server, `main` | two rows that belong together, send on a closed channel, drain and wait | whole and unique accounts, no lost mail at shutdown, shutdown returns |
| accounts and sessions (`internal/auth`) | `email_verification_tokens`, `users.email_verified_at`, `sessions` | verify, login, logout, middleware | every handler | token used twice, stale snapshot, expiry | one use per token, a session that is over stays over |
| workspaces (`internal/workspace`) | `workspaces`, `workspace_members` | create, add a member, leave, answer "is a member" | link creation (membership, through an adapter in `main`) | counts and roles read without locks | a workspace with members has an owner; a closed one stays closed |
| API keys (`internal/apikey`) | `api_keys`, `api_usage_daily`, map of limiters | create, revoke, middleware | link creation | race for the limiter, quota transaction, day boundary, crash | exact counter, quota and rate held |
| bio pages (`internal/bio`) | `bio_pages`, `bio_page_links` | create a page (two paths), attach a link | users' rows | two paths for one user, lock order | one page per FREE user, own links only |
| address rate limiter (`internal/pkg/httputil`) | two maps under a mutex | `Allow`, eviction | `main`'s routes | forgetting a bucket | eviction pays nobody, maps stay small |
| blacklist (`internal/admin`, `internal/link`) | `blacklist_domains` | add, remove, check | link creation, redirects | a walk of many reads, failing reads | an entry listed throughout is not missed |
| admin users and fraud flags | `click_events.fraud_status` | list, unflag | - | nothing: one idempotent UPDATE nobody reads | - |
| analytics, QR codes, CSV (`internal/link`) | - (three SELECTs, no transaction) | report, export, QR code | click worker, which writes meanwhile | torn reports, a moving cutoff, ignored errors | the parts of a report add up, an export has the newest clicks |
| scanner | fixed list | check a URL | link creation | string matching | - |
| downgrade check | - | `CheckDowngradeAllowed` | nobody calls it | check, then act | see plan |
| HTTP plumbing | - | headers, logs, client address | - | per request, no shared state | - |
| configuration and wiring (`cmd/api`) | the phase of the process | listen, shut down, the adapters | every component | the order of the shutdown | a request that is accepted is answered unless the server gave up or died |

Components interact in four ways only: through rows of the database (with its
row locks, unique indexes and foreign keys), through the two channels, through
the user that the middleware reads once and the handler then trusts, and through
the shutdown of `main`.
Calls between packages are plain function calls within one request.

## 2. How the code becomes a specification

* **A handler** has an identity (`Requests`, `Visits`, `Calls`) and a control
  state `pc`; its last value is the answer. What a client sends is fixed in the
  initial state, chosen from a set of inputs.
* **A statement of the database is one action**, and so is a decision between two
  statements. An open transaction holds what it has written until `Commit`.
  Nobody else sees it earlier.
* **Row locks and unique indexes** make a statement wait: the guard of its action
  is false meanwhile. `SELECT ... FOR UPDATE`, `UPDATE`, `INSERT ... ON CONFLICT`
  and inserts of a key that another open transaction has inserted are such
  statements; READ COMMITTED is what the pool uses, so each statement sees the
  rows committed when it runs.
* **Failures.** Each statement may fail, the client may hang up, a commit may take
  effect without its acknowledgement, a process may die. Errors the code ignores
  are alternatives with the same control flow.
* **A mutant** is a plausible bug of a definition, stated beside it and marked
  `Mutant:` in its comment. No specification uses it; it is there to show
  that a property would notice.
* **External actions** model what is not in this repository: operators who
  change a plan, PostgreSQL's deadlock detector, the clock, the death of the process.

## 3. Modules

| Module | Models | State and actions against the code |
|---|---|---|
| `LinkQuota` | abstract | a link, its tag and the counter in one step |
| `LinkCreation` | `link/service.go` `CreateLink`, `link/repository.go` `CreateLinkAtomic` | `plan[r]` is the snapshot of the middleware, `usage` is `plan_usage`, `writes[r]` the open transaction. `Authenticate`, `Validate`, `ResolveSlug`, then `LockUsage`, `InsertLink`, `InsertCampaign`, `CountLink`, `Commit`, `Acknowledge`, one per statement |
| `LinkCreationProofs` | - | the theorems about it |
| `ClickLog` | abstract | a lossy log: a click is written at most once, in the order of acceptance or, if its write was given up on, at any later time (`Land`). `ClickPipeline` implements it, `LinkReports` reads it |
| `Lifecycle` | abstract | what `main` and its server promise to requests: taken only while listening, answered unless given up on or killed. `ClickPipeline` and `Registration` both implement it, each with its own handlers |
| `ClickPipeline` | `ResolveAndRecordRedirect`, `startClickWorker`, the end of `main` | `clickChan`, the worker's `task`; `Enqueue` is the select with its default, `StoreClick` is an INSERT that takes effect while its call lasts, `FinishTask` is the return of the call, whatever it returns. The five seconds of the context end the call and not the statement, so `FinishTask` and `End` may leave an INSERT at work in the database (`GiveUp`, `abandoned`), and `LandLate` writes its row after later clicks or after the end of the process; `forced` remembers a `server.Shutdown` that gave up |
| `ClickPipelineProofs` | - | the theorems about it |
| `LinkReports` | `GetAnalytics`, `ExportCSVAnalytics`, `GenerateQRCode` and their handlers | composed with `ClickLog`: clicks are settled, and late ones land, between a report's statements. `BeginInsert` dates a click (`NOW()`), which may be long before it is visible: `begun` has the clicks in the order of `clicked_at`, `log` in that of their appearance. `FindLink`, `CountTotal`, `GroupByDay`, `BreakDown`, `Export`, one per statement; `cutoff[r]` is fixed once; `broken[r]` remembers an error the code went on after |
| `Registration` | `auth.Register`, `startEmailWorker`, `Shutdown`, the end of `main` | the worker's select and its drain loop are two control states; `main` is a program counter; `forced` remembers a `server.Shutdown` that gave up |
| `RegistrationProofs` | - | the theorems about it |
| `Accounts` | `VerifyEmail`, `Login`, `Logout`, the two middlewares | `rowLock` of a token, `sessions` as a function, `snapshot` is what the middleware read |
| `AccountsProofs` | - | the theorems about it |
| `Workspace` | `AddMember`, `LeaveOrRemoveMember`, the membership adapter and the link it lets in | one workspace; `owners[c]` is the count that a leaving call has read and will act on; `CheckMembership` and `StoreLink` are the two ends of a link creation, which is in detail in `LinkCreation` |
| `WorkspaceProofs` | - | the theorems about it |
| `DailyQuota` | abstract | a request is counted in one step, or refused when its day is full |
| `ApiKeys` | issuing and revoking keys, `APIKeyAuthMiddleware`, `getRateLimiter`, `IncrementAndCheckDailyQuota` | `limiters` is the `sync.Map`, `limiter[r]` the pointer a request holds, `day[r]` the date it formatted |
| `ApiKeysProofs` | - | the theorems about it |
| `BioPages` | `CreatePage`, `CreateFreePage`, `AddLink` | the FREE transaction, and the other insert split where another transaction can see it |
| `BioPagesProofs` | - | the theorems about it |
| `TokenBuckets` | abstract | buckets that fill every tick and are never forgotten |
| `RateLimiter` | `httputil/ratelimit.go` | `Allow` is one action because the code holds the mutex throughout; `Kept` is `evict`; `Filled` is the lazy refill of `golang.org/x/time/rate` |
| `Blacklist` | `isHostBlacklisted`, `isTargetBlocked`, the edits of `admin` | one action per read; `throughout` and `sometime` are history |
| `RequestProofs` | - | the theorems about `RateLimiter`, `Blacklist` and `LinkReports`: three parts of serving a request that write nothing in a transaction and have no variable in common. It extends all three, so the last two prefix `Init`, `Next`, `Spec`, `vars` and `TypeOK` with `BL` and `LR` |

`MC*.tla` extend a module with inputs and symmetry for TLC; each `MC*.cfg` is one
run.

## 4. Runs

Passing runs (every property has a mutant that the same run catches):

| Run | Instance | What it shows |
|---|---|---|
| `MCLinkCreation` | 3 requests, 2 users, limit 1, 2 slugs, 2 plans | the inductive invariant `IInv` (`SlugUnique` and the discipline of locks included); `QuotaExact`, `AnswerTruthful`, `PaidFeaturesOnly`, `FreeQuotaRespected`; `LinkQuota` is implemented |
| `MCLinkCreationLiveness` | 3 requests, 1 slug, fair | `EventuallyAnswered` |
| `MCClickPipeline` | 3 visits, 2 slots, INSERTs that land late, handlers fair | `OnlyRedirectsCount`; `ClickLog` (at most once; in order while no call is given up) and `Lifecycle` are implemented; `RedirectsNeverWait` with a worker that may hang; `ClicksAreSettled` if the worker runs |
| `MCRegistration` | 2 requests, 2 addresses, 1 slot, handlers fair | `AccountsWhole`, `AnswerTruthful`, `ShutdownDrains`; `Lifecycle` is implemented, so a send on the closed channel needs a `server.Shutdown` that gave up; `RegistrationsNeverWait` with a worker that may hang; `ShutdownReturns` if worker and `main` run |
| `MCWorkspace` | 3 overlapping calls (invitations, departures, link creations), 2 users, fair | locks end with their transactions (`WellFormed`), `DeletionIsFinal`, `CallsEnd`; `OrderlyIsSafe`: what holds when calls do not overlap and demote nobody |
| `MCApiKeys` | 3 requests, 1 key, burst 1, quota 1, two days, fair | `UsageExact`, `RateHeld`, `EventuallyAnswered`, and that the transactions implement `DailyQuota` |
| `MCBioPages` | 2 requests, 2 users, 2 slugs, 2 links, fair | `WellFormed` (unique slugs and own links only included), `FreePageAlone`; `PageAnswered`, through deadlocks |
| `MCAccounts` | 4 requests, 2 users with a token each, 1 session | `VerifiedByToken`, `TokenOnce`, `ServedAreVerified`, `LateCallsRefused` |
| `MCRateLimiter` | 2 clients, price 2, capacity 4, 10 ticks | `IInv`, `NeverOverdrawn`, `PatienceRewarded`, `IdleForgotten`; `TokenBuckets` is implemented |
| `MCBlacklist` | 2 checks, 4 domains, 2 edits | `VerdictsAreRight`: a host that passes was not listed throughout (unless a read failed), one that is refused was listed at some time |
| `MCLinkReports` | 1 report of any kind and plan, 3 visits on 2 links, clicks that land late and out of order, 3 days, exports of 1 row | `ReportsAddUp` |

The run that TLC refutes, about "sole owner cannot leave workspace with active
members; transfer ownership first" (`workspace/repository.go:145`):

| Run | What the code does |
|---|---|
| `MCWorkspaceLeave` | two owners who leave at the same time count each other; a member stays without an owner |

### Known deviations without a run

The code and a text disagree in a few more places. The
models contain the behaviour; no property states the text.

* The sole owner of a workspace cannot leave it (`workspace/repository.go:145`), but
  an administrator who adds the sole owner again with a lower role overwrites the
  row (`repository.go:119`), and nobody owns the workspace any more. `Workspace`
  contains the step (`UpsertMember`); `OrderlyIsSafe` has to exclude it, next to
  overlapping calls.
* Nobody reads `deleted_at`: a member or a link that was permitted before the last
  member left still enters the soft-deleted workspace. `DeletionIsFinal` states
  what does hold: nobody comes in with a check made afterwards.
* A departure that has set `deleted_at` does not look at the number of rows that its
  DELETE removes (`workspace/repository.go:155`). If another departure of the same
  member commits first and an invitation sent before brings the member back, the
  first one still commits, and the workspace is deleted around its member. It takes
  four calls, one more than `MCWorkspace` has; the attempt to prove that a workspace is
  deleted only when the departing member is gone showed it, and `DeletionIsFinal`
  claims that only for a departure that has deleted the row.
* An analytics report ignores the error of its first count, of a row in the middle
  of the days, and of the breakdown (`link/repository.go:129`, `145-150`, `166`), and
  answers 200 with a total of 0, fewer days, or no campaigns. `ReportsAddUp` claims
  completeness only for reports that met no such error.
* The redirect looks up the target's exact host (`isTargetBlocked`,
  `link/service.go:256-268`), the creation of a link the parent domains too
  (`isHostBlacklisted`, `link/service.go:66-75`, `161`): listing a domain blocks new links
  to its subdomains, and goes on redirecting to them by the links that exist.
  `VerdictsAreRight` asks of each check what that check looks up.
* `apikey/repository.go:78` does not look at the number of rows: revoking a key that
  is not there, or is somebody else's, changes nothing and succeeds.
* `main` returns without draining the click channel, although
  `project_context.md:42` has click events processed by background workers
  (`ClickPipeline`: `Exit`; `ClickLog` allows it as `Stop`).
* `auth/handler.go:72` answers "Please check your email for verification." also when
  the token could not be saved or the mail channel was full (`Registration`:
  `SaveToken`, `Enqueue`), and there is no route that sends another mail.
* `apikey/service.go:135` answers "Daily API quota of %d requests exceeded" to every
  database error (`ApiKeys`: `Abort`, `Acknowledge`); and a bucket of 60 with a refill of
  one a second lets up to 119 requests through in the first minute of "60 req/min"
  (`project_context.md:41`); `RateHeld` states the bound that does hold.
* `auth/handler.go:131` answers "Logged out successfully" also when the revocation
  failed (`Accounts`: `RevokeSession`).

### Bounds

Each bound is a constant of its module. They are small, and chosen so that the
case a property is about does happen: two requests are needed for a race, a third
for a race with somebody who comes afterwards; a limit, a quota or a channel of
one or two is full early and is full with requests still to come. `MaxTime` stops
the clock after every kind of expiry has happened (a token, a session, a
day, a full refill, an eviction); `LastDay` does so in `LinkReports`, where time is
counted in days, which is all that a cutoff fixed once and a GROUP BY DATE tell
apart (the server and PostgreSQL share that clock); `MaxCalls` and `MaxEdits` bound what
outsiders do. No other counter is cut:
the quota counters are bounded by the requests. The mutants show that the instances
are large enough to notice plausible bugs. Symmetry is declared for sets of
requests, clients, visits or checks in runs without liveness only.

`CHECK_DEADLOCK FALSE` stands where the system may stop: the process has ended,
or all requests are answered. In `LinkCreation` an operator may always change a
plan, so deadlock is checked, and says nothing; that nobody waits for ever is
what the liveness runs are for.

### Fairness

* Weak fairness of a handler's steps that wait for nobody: the Go scheduler runs
  a goroutine that can run, and the database answers.
* Strong fairness of the steps that wait for a lock or a pending key: PostgreSQL
  queues waiters, so a lock that keeps becoming free is granted at some time. Weak
  fairness would not do: the lock is taken and released over and over.
* The worker: weak fairness of `TakeTask` and `FinishTask` (the context ends every call
  after five seconds), none of `StoreClick` and `LandLate`: an INSERT that was sent may
  never take effect. In `Registration` fairness of
  `SendMail` says that the SMTP server answers or hangs up; `smtp.SendMail` has no
  timeout, so `ShutdownReturns` depends on it. `ClicksAreSettled` and
  `ShutdownReturns` name this fairness as their premise, and the specifications of the
  runs (`HandlersSpec`) do not contain it: `RedirectsNeverWait` and
  `RegistrationsNeverWait` assume nothing about the workers.
* `BioPages`: the deadlock detector runs. It has to: the run finds circles.
* No fairness of arrivals, of failures, of signals, or of a crash.

## 5. Proofs

Eight modules are checked by TLAPS for every value of the constants that the named
assumptions allow: any number of requests, users or keys, any capacity, limit or
quota. Seven are about one component each; `RequestProofs` is about the rate limiter, the
blacklist and the reports. Together they state every invariant and every action property
that the passing runs check, and every implementation. TLC has checked each inductive invariant on the
instance of the component's run before it was proved. Every proof has the same
shape: lemmas on what inputs and the helpers are, one on types, then one lemma per group
of conjuncts with a step per action; a lemma on a "quiet" step, one that moves one
request and touches nothing shared, takes care of most actions.

**Link creation.** `QuotaExact` is not inductive by itself: it needs to know that a
transaction past its check holds the lock of its own user's row (`LocksHeld`), so
that the room it saw is still there (`RoomKept`); that it has executed just the
statements of its stage (`WritesMatch`); that a slug it has inserted is its own
(`SlugsReserved`); and that the link of a request that has not committed is in no
table (`RowsMatch`). Their conjunction is `IInv`, proved action by action. From it
follow `QuotaExact`, `SlugUnique` and `AnswerTruthful`. `FreeQuotaRespected` and
the refinement of `LinkQuota` look at a step and use `IInv` before it: `Commit` is
the abstract `AddLink`, `ChangePlan` is itself, everything else stutters.
`PaidFeaturesOnly` has a small invariant of its own, because it relates links to
the snapshots of their requests. Assumptions: finitely many requests, `FREE` is a
plan, the two "none" values are not requests or slugs.

**Rate limiter.** The refinement has to cope with a bucket that is dropped and made
anew. The heart is the lemma `EvictedAreFull`: a bucket is used only when its
client calls, so a client that evict drops has been idle for longer than the idle
time, in which its bucket has filled. The assumption `IdleTTL + 1 >= Cap` is what
`NewIPRateLimiter`'s ten minutes give every limiter of `main.go`, the slowest of
which takes twenty seconds to fill. `IInv` ties each bucket's time of use to its
client's last call and bounds the age of whoever is in the maps; with it
`NeverOverdrawn`, `PatienceRewarded`, `IdleForgotten` and the refinement of
`TokenBuckets` follow. `MaxTime` and `MaxCalls` stay in the specification and are
arbitrary naturals in the proof.

**API keys.** `UsageExact` rests on the row lock, like the quota of links: a usage row is
locked by exactly the transaction that has upserted it (`LocksHeld`), so the room it saw
stays (`RoomKept`); and since the counter of a day never falls, a day that refused
somebody stays full (`RefusedAreFull`). In the refinement of `DailyQuota` a `Commit` is an
`Admit` because of `RoomKept`, an `UpsertUsage` without room is a `Refuse`, and everything else
stutters, a crash too: `Entries` keeps a request whose answer was lost. `RateHeld` speaks of
every interval at once and is not inductive. `OneLimiter` says that whoever is past the
`LoadOrStore` holds the limiter that is in the map; `Balanced` is the potential argument
for it: what was admitted since any moment, plus what the limiter still holds, is
at most a burst plus the time since; `HeldBefore` keeps the result for intervals that are over.
Assumptions: finitely many requests, positive burst, quota and length of a day.

**Accounts and sessions.** A token's row is locked by exactly the verification that
has it open, which finds it unused until it commits (`TokensHeld`); from this follow
`TokenOnce` and, with the routes kept apart (`OpsMatch`), `VerifiedByToken`.
`ServedAreVerified` needs that what a snapshot said is still so (`SnapshotsHold`): nobody
becomes unverified. `LateCallsRefused` needs that a session that is over stays over
(`OverIsOver`), for which the clock must not go back and no second row may take a
session's name (`SessionsKept`). Assumptions: the lifetimes and the horizon are naturals.

**Registration.** `RowsInv` (an account is its two rows, the address of an open
transaction is free) gives `AccountsWhole` its rows and `AnswerTruthful`; `MailInv` keeps
the mails that were sent, the one in hand and those in the channel apart, all of
handlers that have passed the channel, which is why no mail is queued twice.
`ShutdownDrains` is about the last step of `main` and needs the order of the shutdown
before it (`ShutdownInv`): the worker returns from an empty closed channel only, and
`main` goes on after it has. `LifecycleInv` (after `server.Shutdown` a handler is left
only if it gave up) makes every step map to a step of `Lifecycle` or a stutter; the proof
goes through what the mapping makes of a handler (`FateOf`) and of `main` (`Phase`).
What of `ShutdownReturns` is no liveness is proved too: while `main` is in `wg.Wait`, the worker
can go on (`WaitBounded`), and a count of its remaining steps, at most three for each slot of
the channel and three more, falls with each of its steps and never rises (`WaitShortens`).
Assumptions: a channel of at least one slot, nothing of the number of registrations.

**Redirects and click pipeline.** `ClickInv`: whoever's click was accepted, waits, is
in hand or is stored has passed every check. It gives `OnlyRedirectsCount`, and that
a click is accepted once, which the refinement of `ClickLog` needs: `Enqueue` is its
acceptance or, with a full channel, a stutter; `StoreClick` settles a click as written,
a `FinishTask` of a click that is not stored settles it as lost or as given up on,
`LandLate` is the log's `Land`, and `TakeTask`
stutters because the mapping counts the click in hand as pending. What is promised is at
most once; order is promised only among clicks that are stored while their calls last,
since nothing in the code stops an INSERT that was sent. The refinement
of `Lifecycle` needs the types only.

**Bio pages.** A user's row is locked by exactly the FREE transaction that runs, and no
statement of the other path has the shared lock meanwhile (`LocksHeld`): so no page of the
user has appeared since they were counted (`FindingsHold`), which is `FreePageAlone`.
That the slug of an uncommitted row is its own (`SlugsHeld`) gives unique slugs, and that
a page stays with its owner gives "own links only" (`WellFormed`). The proofs assume
nothing of the deadlock detector.

**Workspaces.** `WellFormed` needs that a call is in a stage of its own operation, and that
the row a transaction has deleted is its target's (`Matched`). `ClosedForGood`
(`DeletionIsFinal`) follows from types: in a workspace without members no
check succeeds, and a step without a permission adds nothing. `OrderlyIsSafe` is an
implication between two temporal formulas; under `[]Orderly` the invariant is what a
departing call knows (`Known`): its own row is there, its count is still right, and once it
will leave, an owner stays behind or it was the last member. `OthersRest` is the heart:
in an orderly step everybody else is between calls. Assumption: finitely many users.

**Domain blacklist.** `VerdictIsRight` is about two moments that a check never sees: the
host was covered at some time during it, or was not covered throughout. The invariant is
what the walk knows so far (`ReadingIsRight`): what was listed throughout is listed now, what
is listed now was listed at some time, and no suffix it has passed was listed
throughout, unless the read of it failed. An edit moves one name in or out and so takes
`throughout` down and `sometime` up; a read looks at one suffix. That the walk passes
every suffix that could cover the host is `CoveringIsWalked`. Assumption: the walk of a host
starts with the host.

**Reports.** A report is four statements outside a transaction while the worker writes
clicks and days pass. Two facts carry `ReportsAddUp`: a click is written at most once and by an
INSERT that has begun, and what is written keeps its place and its date (`ClicksOK`;
`SettleGrows`, `LandGrows`, `BeginGrows`); and the cutoff is fixed before the first statement.
So each count of an earlier statement is at most the same count
over the log that a later one sees (`ReportInv`, one conjunct per statement, kept by
`PartsKeep` when the log grows and by `FileKeeps` when days pass). That the days
add up to the young visits relates a set of visits to a set of pairs (a day and a number
up to its count). `CountedByClass` proves the two equally large with a bijection
built from one for each day, so no induction over the days is needed. `NewestAreLast` does the export: the rows
under the limit are the last of the written clicks in the order of their dates (`begun`), and a
click that lands later changes neither the file nor the dates in it (`FileKeeps`). Assumption: `LinkReportsAssumption`, nothing
of the number of visits or reports.

**Deadlocks.** That a wait ends is liveness and stays with TLC, but that waits form no circle is
an invariant, and a circle may be longer than the runs are wide. Each `WaitsFor` reads the guards of
the statements that wait. Link creation (the row of the user, then the slug) and departures (the
row of the workspace, then the member's) take their locks in one order: in every set of
requests somebody waits for none of the others (`NoCircularWait`, from the conjunct on locks of each
invariant). Page creation does form circles, which TLC finds in six steps and
`BreakDeadlock` breaks; `DeadlocksTakeBothPaths` says that each of them, of whatever length,
passes through a user who has a FREE transaction and an insert of the other path at the
same time, so that without a change of plan there is none.

**Model-checked only.**

* Liveness, since fairness and `ENABLED` are beyond the prover: both
  `EventuallyAnswered`, `RedirectsNeverWait`, `ClicksAreSettled`,
  `RegistrationsNeverWait`, `ShutdownReturns`, `CallsEnd`, `PageAnswered`. What of
  them is an invariant or a variant is proved (deadlocks and the shutdown, above).
* What a fold computes, which is an induction that takes an operator as a parameter. No
  property needs one: sums are stated as sizes of sets, as in `DaySum`.

## 6. Not modelled, and why

* Passwords, digests and random tokens are identities; collisions do not happen.
* What is read and formatted only: lists, the public bio page, health endpoints,
  logs, headers, the client's address; of the reports, the encoding of PNG and CSV.
* A request that has been accepted on its connection and waits in the kernel's
  queue: a request begins when the server takes it.
* The scanner and the matching of names: pure functions; their verdict is a choice.
* Fraud flags: nothing in the code sets one.
* Which links are active or expired: a choice at the redirect; the counter's name
  (`active_link_count`) and what the code does with it is the planned `PlanLimits`.
* `LeaveOrRemoveMember` is modelled although `main.go` does not route it: it is
  in the service's interface and its tests.
* The pool's size: a handler that waits for a connection is a handler that has
  not taken its next step.

## 7. Plan

Done, in this order: `LinkQuota`, `LinkCreation`, its proofs, `ClickLog`,
`ClickPipeline`, `Registration`, `Workspace`, `TokenBuckets`, `RateLimiter`, its
proofs, `ApiKeys`, `BioPages`, `Accounts`, `Blacklist`; then `Lifecycle` with its two
refinements, the links of a workspace (in `Workspace`), the issue and revocation of
keys (in `ApiKeys`), `LinkReports`, and `DailyQuota`.

Left of the model, each of little weight:

1. `PlanLimits`: links that expire, the counter that does not know, and the
   downgrade check, which nobody calls and after which nobody changes a plan.
2. `TxLocks`: the lock order across packages. Inserting a link or a page shares the
   owner's row that `CreateFreePage` locks; `BioPages` has the one circle that is
   possible within a package.
3. An abstract specification for `Registration` (an account appears whole), which would
   add to `AccountsWhole` only that an account stays.

Proved, each along an inductive invariant that TLC had checked: `LinkCreation` and
`RateLimiter`; then `ApiKeys`, `Accounts`, `Registration`, `ClickPipeline`, `BioPages`,
`Workspace`, the implementations of `ClickLog` and `Lifecycle` included; then `Blacklist`
and `LinkReports`, the implementation of `DailyQuota`, and the absence of circular waits.

Left to prove:

1. With the abstract specification for `Registration` above: that it is implemented.
2. With `TxLocks` above: which circles of waiters cross packages.
