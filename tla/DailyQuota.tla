----------------------------- MODULE DailyQuota -----------------------------
(***************************************************************************)
(* What internal/apikey promises about the daily quota of a key, with no   *)
(* middleware, date, row lock or transaction in sight: a request is        *)
(* decided once, it is admitted and counted in one step while its day has  *)
(* room, and refused for the quota only when the day has none.  ApiKeys is *)
(* the program that has to keep the promise.                               *)
(***************************************************************************)
EXTENDS Naturals

CONSTANTS
    Ids,        \* the requests that may ever be made
    Keys,       \* API keys
    Days,       \* the days of the counters
    Quota       \* requests per key and day

VARIABLES
    admitted,   \* the requests that were let through, with key and day
    refused,    \* the requests that were refused for the quota
    count       \* per key and day, the counter

vars == <<admitted, refused, count>>

Init ==
    /\ admitted = {}
    /\ refused = {}
    /\ count = [k \in Keys |-> [d \in Days |-> 0]]

Undecided(id) == \A c \in admitted \cup refused : c.id # id

Entry(id, k, d) == [id |-> id, key |-> k, day |-> d]

\* A request takes one of the places that are left.
Admit(id, k, d) ==
    /\ Undecided(id)
    /\ count[k][d] < Quota
    /\ admitted' = admitted \cup {Entry(id, k, d)}
    /\ count' = [count EXCEPT ![k][d] = @ + 1]
    /\ UNCHANGED refused

\* No place is left, and there never will be one again.
Refuse(id, k, d) ==
    /\ Undecided(id)
    /\ count[k][d] = Quota
    /\ refused' = refused \cup {Entry(id, k, d)}
    /\ UNCHANGED <<admitted, count>>

Next == \E id \in Ids, k \in Keys, d \in Days : Admit(id, k, d) \/ Refuse(id, k, d)

Spec == Init /\ [][Next]_vars
=============================================================================
