------------------------------ MODULE ApiKeys ------------------------------
(***************************************************************************)
(* internal/apikey: the middleware in front of POST /v1/api/links.  A      *)
(* request validates its key, finds the key's rate limiter in a sync.Map   *)
(* (or makes one: two first requests race), takes a token, and counts      *)
(* itself in api_usage_daily, in a transaction that is rolled back beyond  *)
(* the daily quota.                                                        *)
(*                                                                         *)
(* A tick is a second: every limiter gains one token.  rate.Limiter is     *)
(* external; it is modelled eagerly, as TokenBuckets does, because its     *)
(* lazy form is the subject of RateLimiter.                                *)
(***************************************************************************)
EXTENDS Naturals, FiniteSets

CONSTANTS
    Keys,       \* rows of api_keys
    Requests,   \* requests; each doubles as the identity of a limiter it makes
    Burst,      \* tokens of a full limiter (60 in the code)
    Quota,      \* requests per key and day (5000 in the code)
    DayLength,  \* ticks of a day
    MaxTime,    \* bound: the clock stops
    None        \* no limiter, no holder of a lock, no time

ASSUME ApiKeysAssumption ==
    /\ Burst \in Nat \ {0}
    /\ Quota \in Nat \ {0}
    /\ DayLength \in Nat \ {0}
    /\ MaxTime \in Nat
    /\ None \notin Requests \cup Nat
    /\ IsFiniteSet(Requests)

Times == 0..MaxTime
Days  == {t \div DayLength : t \in Times}

VARIABLES
    now,      \* seconds
    key,      \* the key each request carries, fixed beforehand
    status,   \* rows of api_keys
    pc,       \* where each request is, or how it ended
    limiter,  \* the limiter a request holds a pointer to
    limiters, \* the sync.Map
    tokens,   \* what each limiter holds, by the request that made it
    day,      \* the date a request has formatted
    count,    \* committed rows of api_usage_daily; no row is 0
    rowLock,  \* the transaction that has upserted a row and has not ended
    taken     \* history: when each request of this process got its token

vars == <<now, key, status, pc, limiter, limiters, tokens, day, count, rowLock, taken>>

limits == <<limiter, limiters, tokens, taken>>
quotas == <<day, count, rowLock>>

-----------------------------------------------------------------------------

Stages  == {"valid", "missing", "limited", "admitted", "dated", "counted", "committed"}
Answers == {"unauthorized", "ratelimited", "exhausted", "unsaved", "accepted",
            "unacknowledged", "lost", "lostCounted"}

TypeOK ==
    /\ now \in Times
    /\ key \in [Requests -> Keys]
    /\ status \in [Keys -> {"absent", "live", "revoked"}]
    /\ pc \in [Requests -> {"idle"} \cup Stages \cup Answers]
    /\ limiter \in [Requests -> Requests \cup {None}]
    /\ limiters \in [Keys -> Requests \cup {None}]
    /\ tokens \in [Requests -> 0..Burst]
    /\ day \in [Requests -> Days]
    /\ count \in [Keys -> [Days -> 0..Quota]]
    /\ rowLock \in [Keys -> [Days -> Requests \cup {None}]]
    /\ taken \in [Requests -> Times \cup {None}]

Init ==
    /\ now = 0
    /\ key \in [Requests -> Keys]
    /\ status = [k \in Keys |-> "absent"]
    /\ pc = [r \in Requests |-> "idle"]
    /\ limiter = [r \in Requests |-> None]
    /\ limiters = [k \in Keys |-> None]
    /\ tokens = [r \in Requests |-> Burst]
    /\ day = [r \in Requests |-> 0]
    /\ count = [k \in Keys |-> [d \in Days |-> 0]]
    /\ rowLock = [k \in Keys |-> [d \in Days |-> None]]
    /\ taken = [r \in Requests |-> None]

Goto(r, stage) == pc' = [pc EXCEPT ![r] = stage]

-----------------------------------------------------------------------------
(* Keys *)

\* CreateAPIKey: a user on the Business plan gets a new key; others and errors change
\* nothing.
CreateKey(k) ==
    /\ status[k] = "absent"
    /\ status' = [status EXCEPT ![k] = "live"]
    /\ UNCHANGED <<now, key, pc, limits, quotas>>

\* RevokeAPIKey, of a key of the caller's: the answer is the same when no row matched.
RevokeKey(k) ==
    /\ status[k] = "live"
    /\ status' = [status EXCEPT ![k] = "revoked"]
    /\ UNCHANGED <<now, key, pc, limits, quotas>>

-----------------------------------------------------------------------------
(* The middleware *)

\* ValidateAPIKey: a live key of a Business account.  The account may have left the
\* plan or be deleted, and every error counts as an invalid key.
ValidateAPIKey(r) ==
    /\ pc[r] = "idle"
    /\ \/ status[key[r]] = "live" /\ Goto(r, "valid")
       \/ Goto(r, "unauthorized")
    /\ UNCHANGED <<now, key, status, limits, quotas>>

\* getRateLimiter: limiters.Load, and rate.NewLimiter when there is none.
LoadLimiter(r) ==
    /\ pc[r] = "valid"
    /\ \/ /\ limiters[key[r]] # None
          /\ limiter' = [limiter EXCEPT ![r] = limiters[key[r]]]
          /\ Goto(r, "limited")
       \/ /\ limiters[key[r]] = None
          /\ limiter' = [limiter EXCEPT ![r] = r]
          /\ Goto(r, "missing")
    /\ UNCHANGED <<now, key, status, limiters, tokens, taken, quotas>>

\* Mutant: Store instead of LoadOrStore.
StoreLimiter(r) ==
    /\ pc[r] = "missing"
    /\ limiters' = [limiters EXCEPT ![key[r]] = r]
    /\ Goto(r, "limited")
    /\ UNCHANGED <<now, key, status, limiter, tokens, taken, quotas>>

\* limiters.LoadOrStore: whoever is second uses the limiter of the first.
LoadOrStoreLimiter(r) ==
    /\ pc[r] = "missing"
    /\ IF limiters[key[r]] = None
       THEN limiters' = [limiters EXCEPT ![key[r]] = r] /\ UNCHANGED limiter
       ELSE limiter' = [limiter EXCEPT ![r] = limiters[key[r]]] /\ UNCHANGED limiters
    /\ Goto(r, "limited")
    /\ UNCHANGED <<now, key, status, tokens, taken, quotas>>

\* limiter.Allow.
Allow(r) ==
    /\ pc[r] = "limited"
    /\ \/ /\ tokens[limiter[r]] > 0
          /\ tokens' = [tokens EXCEPT ![limiter[r]] = @ - 1]
          /\ taken' = [taken EXCEPT ![r] = now]
          /\ Goto(r, "admitted")
       \/ /\ tokens[limiter[r]] = 0
          /\ Goto(r, "ratelimited")
          /\ UNCHANGED <<tokens, taken>>
    /\ UNCHANGED <<now, key, status, limiter, limiters, quotas>>

\* IncrementAndCheckDailyQuota formats the date, then begins its transaction: the
\* count may wait for others and go to a day that is over.
FormatDate(r) ==
    /\ pc[r] = "admitted"
    /\ day' = [day EXCEPT ![r] = now \div DayLength]
    /\ Goto(r, "dated")
    /\ UNCHANGED <<now, key, status, limits, count, rowLock>>

Lock(r, holder) == rowLock' = [rowLock EXCEPT ![key[r]][day[r]] = holder]

\* Mutant: the limit is compared with a count that was read before the upsert.
Unlocked(r) == TRUE

\* No open transaction has written the row.
RowFree(r) == rowLock[key[r]][day[r]] = None

\* Mutant: the quota is compared with >=.
FitsStrictly(r) == count[key[r]][day[r]] + 1 < Quota

\* The returned count is within the quota.
Fits(r) == count[key[r]][day[r]] + 1 <= Quota

\* INSERT ... ON CONFLICT DO UPDATE ... RETURNING: waits for an open transaction that
\* has written the row, and is rolled back when it returns more than the quota.
UpsertUsage(r) ==
    /\ pc[r] = "dated"
    /\ RowFree(r)
    /\ \/ Fits(r) /\ Lock(r, r) /\ Goto(r, "counted")
       \/ ~Fits(r) /\ Goto(r, "exhausted") /\ UNCHANGED rowLock
    /\ UNCHANGED <<now, key, status, limits, day, count>>

\* tx.Commit takes effect.
Commit(r) ==
    /\ pc[r] = "counted"
    /\ count' = [count EXCEPT ![key[r]][day[r]] = @ + 1]
    /\ Lock(r, None)
    /\ Goto(r, "committed")
    /\ UNCHANGED <<now, key, status, limits, day>>

\* The acknowledgement arrives and the handler runs; or the connection breaks, and a
\* request that is counted is answered 429.
Acknowledge(r) ==
    /\ pc[r] = "committed"
    /\ Goto(r, "accepted") \/ Goto(r, "unacknowledged")
    /\ UNCHANGED <<now, key, status, limits, quotas>>

\* Mutant: an error leaves the transaction open.
LeaveOpen(r) == UNCHANGED rowLock

Unlock(r) ==
    rowLock' = [k \in Keys |-> [d \in Days |->
                  IF rowLock[k][d] = r THEN None ELSE rowLock[k][d]]]

\* Begin or the upsert or the commit fails: rollback, and the answer is 429 too.
Abort(r) ==
    /\ pc[r] \in {"dated", "counted"}
    /\ Goto(r, "unsaved")
    /\ Unlock(r)
    /\ UNCHANGED <<now, key, status, limits, day, count>>

-----------------------------------------------------------------------------

Tick ==
    /\ now < MaxTime
    /\ now' = now + 1
    /\ tokens' = [r \in Requests |-> IF tokens[r] < Burst THEN tokens[r] + 1 ELSE Burst]
    /\ UNCHANGED <<key, status, pc, limiter, limiters, taken, quotas>>

\* The process dies and starts again: limiters are gone, transactions rolled back,
\* what was committed stays.
Crash ==
    /\ \E r \in Requests : pc[r] \in Stages
    /\ pc' = [r \in Requests |->
                CASE pc[r] = "committed" -> "lostCounted"
                  [] pc[r] \in Stages \ {"committed"} -> "lost"
                  [] OTHER -> pc[r]]
    /\ limiter' = [r \in Requests |-> None]
    /\ limiters' = [k \in Keys |-> None]
    /\ tokens' = [r \in Requests |-> Burst]
    /\ taken' = [r \in Requests |-> None]
    /\ rowLock' = [k \in Keys |-> [d \in Days |-> None]]
    /\ UNCHANGED <<now, key, status, day, count>>

Step(r) ==
    \/ LoadLimiter(r) \/ LoadOrStoreLimiter(r) \/ Allow(r) \/ FormatDate(r)
    \/ Commit(r) \/ Acknowledge(r)

Next ==
    \/ \E k \in Keys : CreateKey(k) \/ RevokeKey(k)
    \/ \E r \in Requests : ValidateAPIKey(r) \/ Step(r) \/ UpsertUsage(r) \/ Abort(r)
    \/ Tick
    \/ Crash

Spec == Init /\ [][Next]_vars

\* Goroutines run and PostgreSQL serves the waiters of a row in turn.
FairSpec == Spec /\ \A r \in Requests : WF_vars(Step(r)) /\ SF_vars(UpsertUsage(r))

-----------------------------------------------------------------------------

\* Where a request is once it is in the count.
CountedPc == {"committed", "accepted", "unacknowledged", "lostCounted"}

\* Requests of k that are counted for day d.
Counted(k, d) == {r \in Requests : key[r] = k /\ day[r] = d /\ pc[r] \in CountedPc}

\* The state has its type, and the counter of a key and a day is exactly the number of
\* requests that were accepted, or whose acknowledgement got lost, and at most Quota: no
\* race, rollback or crash counts a request twice, lets one pass uncounted or admits one
\* beyond the last (repository.go:111-138).
UsageExact ==
    /\ TypeOK
    /\ \A k \in Keys, d \in Days : count[k][d] = Cardinality(Counted(k, d))

\* What DailyQuota sees of the requests in some of the stages.
Entries(stages) ==
    {[id |-> r, key |-> key[r], day |-> day[r]] : r \in {q \in Requests : pc[q] \in stages}}

Daily == INSTANCE DailyQuota WITH
    Ids      <- Requests,
    admitted <- Entries(CountedPc),
    refused  <- Entries({"exhausted"})

\* The transactions of all requests together implement DailyQuota: a request is counted
\* and let through in one step and at most once, on whatever day it has formatted, and is
\* refused for the quota only when that day is full (repository.go:111-138).
ImplementsDailyQuota == Daily!Spec

\* In any interval a key gets at most a burst and a token a second, although its first
\* requests race to make the limiter: there is one limiter per key.  And the map, from
\* which nothing is ever removed, grows with the keys that were issued and not with
\* those that are tried (service.go:52-59, 121-127).
RateHeld ==
    \A k \in Keys :
        /\ limiters[k] # None => status[k] # "absent"
        /\ \A from, to \in Times : from <= to =>
            Cardinality({r \in Requests : key[r] = k /\ taken[r] \in from..to})
                <= Burst + (to - from)

\* A request that has a valid key is answered: nobody keeps a usage row for ever.
EventuallyAnswered == \A r \in Requests : pc[r] = "valid" ~> pc[r] \in Answers
=============================================================================
