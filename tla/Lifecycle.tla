----------------------------- MODULE Lifecycle -----------------------------
(***************************************************************************)
(* What main and its HTTP server promise to requests, whatever a handler   *)
(* does.  A request is taken only while the server listens; one that is    *)
(* taken gets an answer, unless the server gave up on it when its ten      *)
(* seconds were over, or the process died; and once main goes on after     *)
(* server.Shutdown no handler is left, unless the server gave up.          *)
(***************************************************************************)

CONSTANT Requests

VARIABLES
    phase,   \* "serving", "stopping" (in server.Shutdown), "stopped" or "down"
    fate,    \* of each request: "new", "open", "answered" or "broken"
    forced   \* server.Shutdown gave up on an open request

vars == <<phase, fate, forced>>

Init ==
    /\ phase = "serving"
    /\ fate = [r \in Requests |-> "new"]
    /\ forced = FALSE

SomeOpen == \E r \in Requests : fate[r] = "open"

Accept(r) ==
    /\ phase = "serving" /\ fate[r] = "new"
    /\ \E f \in {"open", "answered"} : fate' = [fate EXCEPT ![r] = f]
    /\ UNCHANGED <<phase, forced>>

Answer(r) ==
    /\ phase # "down" /\ fate[r] = "open"
    /\ fate' = [fate EXCEPT ![r] = "answered"]
    /\ UNCHANGED <<phase, forced>>

\* A handler that main did not wait for meets what main has closed.
Break(r) ==
    /\ forced /\ fate[r] = "open"
    /\ fate' = [fate EXCEPT ![r] = "broken"]
    /\ UNCHANGED <<phase, forced>>

Signal ==
    /\ phase = "serving" /\ phase' = "stopping"
    /\ UNCHANGED <<fate, forced>>

\* server.Shutdown returns: nil when nobody is left, its context's error otherwise.
StopServer ==
    /\ phase = "stopping" /\ phase' = "stopped"
    /\ forced' = SomeOpen
    /\ UNCHANGED fate

\* main returns, or the process is killed.
Down ==
    /\ phase # "down" /\ phase' = "down"
    /\ fate' = [r \in Requests |-> IF fate[r] = "open" THEN "broken" ELSE fate[r]]
    /\ UNCHANGED forced

Next == (\E r \in Requests : Accept(r) \/ Answer(r) \/ Break(r)) \/ Signal \/ StopServer \/ Down

Spec == Init /\ [][Next]_vars
=============================================================================
