---------------------------- MODULE RateLimiter ----------------------------
(***************************************************************************)
(* internal/pkg/httputil/ratelimit.go: one token bucket per client address *)
(* in two maps under one mutex, and the eviction that keeps the maps from  *)
(* growing for ever.                                                       *)
(*                                                                         *)
(* Allow holds the mutex from its first line to its last and reads the     *)
(* clock inside, so a call is one step.  A bucket is lazy, as in           *)
(* golang.org/x/time/rate: the level at its last use, filled up on the     *)
(* next.  Time is in ticks in which a bucket gains one unit, and a request *)
(* costs Cost units: Cost = 1 s and Cap = burst * Cost for a limiter of one*)
(* request a second whose tick is a second.                                *)
(***************************************************************************)
EXTENDS Integers

CONSTANTS
    IPs,       \* client addresses
    Cost,      \* units of a request
    Cap,       \* units of a full bucket
    IdleTTL,   \* ticks after which an idle client may be forgotten
    MaxTime,   \* bound: the clock stops
    MaxCalls   \* bound: calls per client

\* NewIPRateLimiter's ten minutes fill every bucket of main.go, whose slowest one
\* needs twenty seconds.
ASSUME RateLimiterAssumption ==
    /\ Cost \in Nat \ {0}
    /\ Cap \in Nat /\ Cap >= Cost
    /\ IdleTTL \in Nat /\ IdleTTL + 1 >= Cap
    /\ MaxTime \in Nat /\ MaxCalls \in Nat

VARIABLES
    now,          \* the monotonic clock
    limiters,     \* the buckets in memory: level and time of the last use that took one
    lastSeen,     \* when each client in memory called last
    lastCleanup,  \* when evict ran last
    answers       \* history: calls allowed and denied, per client

vars == <<now, limiters, lastSeen, lastCleanup, answers>>

-----------------------------------------------------------------------------

Bucket == [level : 0..Cap, at : Nat]

TypeOK ==
    /\ now \in Nat
    /\ DOMAIN limiters \subseteq IPs
    /\ \A ip \in DOMAIN limiters : limiters[ip] \in Bucket /\ limiters[ip].at <= now
    /\ DOMAIN lastSeen = DOMAIN limiters
    /\ \A ip \in DOMAIN lastSeen : lastSeen[ip] \in 0..now
    /\ lastCleanup \in Int /\ lastCleanup <= now
    /\ answers \in [IPs -> [allowed : Nat, denied : Nat]]

\* lastCleanup is the zero time: the first call evicts from empty maps.
Init ==
    /\ now = 0
    /\ limiters = [ip \in {} |-> [level |-> Cap, at |-> 0]]
    /\ lastSeen = [ip \in {} |-> 0]
    /\ lastCleanup = -(IdleTTL + 1)
    /\ answers = [ip \in IPs |-> [allowed |-> 0, denied |-> 0]]

-----------------------------------------------------------------------------

\* Mutant: evict never runs.
KeepAll == DOMAIN lastSeen

\* Mutant: evict drops every client, not only the idle ones.
KeepFresh ==
    IF now - lastCleanup > IdleTTL THEN {} ELSE DOMAIN lastSeen

\* The clients evict leaves in the maps, all of them when it is not yet time to.
Kept ==
    IF now - lastCleanup > IdleTTL
    THEN {ip \in DOMAIN lastSeen : now - lastSeen[ip] <= IdleTTL}
    ELSE DOMAIN lastSeen

\* Mutant: a bucket is never filled up.
Unfilled(b) == b.level

\* rate.Limiter.advance: the level now of a bucket used last at b.at.
Filled(b) == IF b.level + (now - b.at) < Cap THEN b.level + (now - b.at) ELSE Cap

\* The bucket the call finds: the client's, or a new and full one.
LevelOf(ip) == IF ip \in Kept THEN Filled(limiters[ip]) ELSE Cap

\* Mutant: a request is allowed as long as anything is left.
Overdraw(ip) ==
    LET kept == Kept
        paid == LevelOf(ip) > 0
    IN
    /\ lastCleanup' = IF now - lastCleanup > IdleTTL THEN now ELSE lastCleanup
    /\ lastSeen' = [i \in kept \cup {ip} |-> IF i = ip THEN now ELSE lastSeen[i]]
    /\ limiters' = [i \in kept \cup {ip} |->
          IF i = ip THEN [level |-> LevelOf(ip) - Cost, at |-> now] ELSE limiters[i]]
    /\ IF paid THEN answers' = [answers EXCEPT ![ip].allowed = @ + 1]
               ELSE answers' = [answers EXCEPT ![ip].denied = @ + 1]
    /\ UNCHANGED now

\* A call of Allow: evict when it is time, find or make the bucket, note the call,
\* and take a request's price if it is there.  A refused call leaves its bucket alone.
Allow(ip) ==
    LET kept == Kept
        paid == LevelOf(ip) >= Cost
    IN
    /\ answers[ip].allowed + answers[ip].denied < MaxCalls
    /\ lastCleanup' = IF now - lastCleanup > IdleTTL THEN now ELSE lastCleanup
    /\ lastSeen' = [i \in kept \cup {ip} |-> IF i = ip THEN now ELSE lastSeen[i]]
    /\ limiters' = [i \in kept \cup {ip} |->
          IF i # ip THEN limiters[i]
          ELSE IF paid THEN [level |-> LevelOf(ip) - Cost, at |-> now]
          ELSE limiters[i]]
    /\ IF paid THEN answers' = [answers EXCEPT ![ip].allowed = @ + 1]
               ELSE answers' = [answers EXCEPT ![ip].denied = @ + 1]
    /\ UNCHANGED now

Tick ==
    /\ now < MaxTime
    /\ now' = now + 1
    /\ UNCHANGED <<limiters, lastSeen, lastCleanup, answers>>

Next == Tick \/ \E ip \in IPs : Allow(ip)

Spec == Init /\ [][Next]_vars

-----------------------------------------------------------------------------

\* What the bucket of a client holds, whether it is in memory or forgotten.
Level(ip) == IF ip \in DOMAIN limiters THEN Filled(limiters[ip]) ELSE Cap

\* Since the start, a client got no more requests than a full bucket and the time
\* since then pay for: being forgotten and remembered anew buys nothing
\* (ratelimit.go:54-80).
NeverOverdrawn == \A ip \in IPs : answers[ip].allowed * Cost + Level(ip) <= Cap + now

\* Why forgetting is harmless: a bucket is used only when its client calls, so when a
\* client has been idle for longer than IdleTTL its bucket is full again.  And why the
\* maps stay small: evict left nobody who was idle at the time.
IInv ==
    /\ TypeOK
    /\ \A ip \in DOMAIN limiters :
        /\ limiters[ip].at <= lastSeen[ip]
        /\ lastCleanup - lastSeen[ip] <= IdleTTL
    /\ NeverOverdrawn

\* A client that lets the price of a request accumulate between two calls is never
\* refused, whatever other clients do and whatever is evicted (ratelimit.go:54-70).
PatienceRewarded ==
    [][\A ip \in IPs : answers'[ip].denied > answers[ip].denied =>
        /\ ip \in DOMAIN lastSeen
        /\ now - lastSeen[ip] < Cost]_vars

\* Every call leaves in memory only clients seen within twice the idle time
\* (ratelimit.go:59-61, 72-80).
IdleForgotten ==
    [][answers' # answers => \A ip \in DOMAIN lastSeen' : now - lastSeen'[ip] <= 2 * IdleTTL]_vars

\* The lazy buckets and their eviction implement buckets that are filled every tick
\* and never forgotten.
Buckets == INSTANCE TokenBuckets WITH level <- [ip \in IPs |-> Level(ip)]
ImplementsBuckets == Buckets!Spec
=============================================================================
