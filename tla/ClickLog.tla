------------------------------ MODULE ClickLog ------------------------------
(***************************************************************************)
(* What the click pipeline of internal/link promises: a lossy log.  An     *)
(* accepted click is written at most once.  Clicks that are written in     *)
(* time are written in the order in which they were accepted; one whose    *)
(* write was given up on may still appear, at any later time and even      *)
(* after the process has ended.  A click may be lost only one at a time    *)
(* (its write failed) or together with the process.                        *)
(***************************************************************************)
EXTENDS Naturals, Sequences

CONSTANT Visits

VARIABLES
    accepted,   \* every click ever accepted, in order
    pending,    \* accepted clicks whose fate is open, in order
    late,       \* clicks given up on that may still be written
    log         \* clicks written, in order

vars == <<accepted, pending, late, log>>

Init ==
    /\ accepted = <<>>
    /\ pending = <<>>
    /\ late = {}
    /\ log = <<>>

Accept(v) ==
    /\ \A i \in DOMAIN accepted : accepted[i] # v
    /\ accepted' = Append(accepted, v)
    /\ pending' = Append(pending, v)
    /\ UNCHANGED <<late, log>>

\* The oldest pending click is written, lost, or given up on.
Settle ==
    /\ pending # <<>>
    /\ pending' = Tail(pending)
    /\ \/ log' \in {log, Append(log, Head(pending))} /\ UNCHANGED late
       \/ late' = late \cup {Head(pending)} /\ UNCHANGED log
    /\ UNCHANGED accepted

\* A click that was given up on is written after all.  Nothing says that it ever is.
Land(v) ==
    /\ v \in late
    /\ late' = late \ {v}
    /\ log' = Append(log, v)
    /\ UNCHANGED <<accepted, pending>>

\* The process ends, and what was pending with it, but for a write under way.
Stop ==
    /\ pending # <<>>
    /\ pending' = <<>>
    /\ late' \in {late, late \cup {Head(pending)}}
    /\ UNCHANGED <<accepted, log>>

Next == (\E v \in Visits : Accept(v) \/ Land(v)) \/ Settle \/ Stop

Spec == Init /\ [][Next]_vars
=============================================================================
