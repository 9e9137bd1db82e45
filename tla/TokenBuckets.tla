--------------------------- MODULE TokenBuckets ---------------------------
(***************************************************************************)
(* What a rate limiter promises: every client has a bucket that gains one  *)
(* unit a tick until it is full, and a request is allowed exactly when the *)
(* bucket of its client holds the price of a request.  There is no memory  *)
(* to manage.  RateLimiter is the program that has to keep the promise.    *)
(***************************************************************************)
EXTENDS Naturals

CONSTANTS
    IPs,    \* clients
    Cost,   \* price of a request, in units
    Cap     \* units of a full bucket

VARIABLES
    level,   \* units in each client's bucket
    answers  \* requests allowed and denied so far, per client

vars == <<level, answers>>

Init ==
    /\ level = [ip \in IPs |-> Cap]
    /\ answers = [ip \in IPs |-> [allowed |-> 0, denied |-> 0]]

\* A tick passes.
Refill ==
    /\ level' = [ip \in IPs |-> IF level[ip] < Cap THEN level[ip] + 1 ELSE Cap]
    /\ UNCHANGED answers

Allow(ip) ==
    /\ level[ip] >= Cost
    /\ level' = [level EXCEPT ![ip] = @ - Cost]
    /\ answers' = [answers EXCEPT ![ip].allowed = @ + 1]

Deny(ip) ==
    /\ level[ip] < Cost
    /\ answers' = [answers EXCEPT ![ip].denied = @ + 1]
    /\ UNCHANGED level

Next == Refill \/ \E ip \in IPs : Allow(ip) \/ Deny(ip)

Spec == Init /\ [][Next]_vars
=============================================================================
