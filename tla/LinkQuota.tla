----------------------------- MODULE LinkQuota -----------------------------
(***************************************************************************)
(* What internal/link promises about a user's links, with no handler, lock *)
(* or transaction in sight: a link, its slug, its campaign tag and the     *)
(* quota counter of its owner appear together, in one step, and a FREE     *)
(* account that is at its limit gets none.  LinkCreation is the program    *)
(* that has to keep the promise.                                           *)
(***************************************************************************)
EXTENDS Naturals, FiniteSets

CONSTANTS
    Users,      \* accounts
    Slugs,      \* the unique names of links
    Ids,        \* the identities of the links that may ever exist
    Plans,      \* plan codes
    FreeLimit   \* links a FREE account may hold

VARIABLES
    links,      \* the links, with their campaign tag
    usage       \* per user, the plan and the link counter

vars == <<links, usage>>

Init ==
    /\ links = {}
    /\ usage \in [Users -> [plan : Plans, count : {0}]]

HasRoom(u) == usage[u].plan = "FREE" => usage[u].count < FreeLimit

\* One new link of u: all of its rows and the counter, or nothing.
AddLink(id, u, s, tagged) ==
    /\ HasRoom(u)
    /\ \A l \in links : l.id # id /\ l.slug # s
    /\ links' = links \cup {[id |-> id, owner |-> u, slug |-> s, tagged |-> tagged]}
    /\ usage' = [usage EXCEPT ![u].count = @ + 1]

\* An operator moves u to plan p; the counter is kept.
ChangePlan(u, p) ==
    /\ usage' = [usage EXCEPT ![u].plan = p]
    /\ UNCHANGED links

Next ==
    \/ \E id \in Ids, u \in Users, s \in Slugs, tagged \in BOOLEAN : AddLink(id, u, s, tagged)
    \/ \E u \in Users, p \in Plans : ChangePlan(u, p)

Spec == Init /\ [][Next]_vars
=============================================================================
