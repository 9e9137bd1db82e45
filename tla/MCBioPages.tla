----------------------------- MODULE MCBioPages -----------------------------
(* An instance of BioPages for TLC. *)
EXTENDS BioPages, TLC

CONSTANTS u1, u2, s1, s2, r1, l1, l2

Create(u, s) == [op |-> "create", user |-> u, slug |-> s]
Attach(u, p, l) == [op |-> "attach", user |-> u, page |-> p, link |-> l]

Owners == (l1 :> u1) @@ (l2 :> u2)

\* Pages of two users who meet in a slug, a second page of the first, and links of both
\* for the page of r1.
PageInputs ==
    {Create(u1, s1), Create(u2, s1), Create(u1, s2),
     Attach(u1, r1, l1), Attach(u1, r1, l2), Attach(u2, r1, l1)}
=============================================================================
