--------------------------- MODULE MCLinkCreation ---------------------------
(* Instances of LinkCreation for TLC. *)
EXTENDS LinkCreation, TLC

CONSTANTS u1, u2, s1, s2, r1, r2, r3

Body(u, alias, expiry, domain, utm) ==
    [user |-> u, alias |-> alias, expiry |-> expiry, domain |-> domain, utm |-> utm]

\* A plain link, one with everything a BUSINESS plan allows, and an expiring one of
\* another user: all may meet in the slug s1.
ContendingInputs ==
    {Body(u1, NoSlug, FALSE, FALSE, FALSE),
     Body(u1, s1, FALSE, TRUE, TRUE),
     Body(u2, NoSlug, TRUE, FALSE, FALSE)}

\* One plain request body per user; a single slug makes them contend for it.
PlainInputs == {Body(u, NoSlug, FALSE, FALSE, FALSE) : u \in Users}

RequestSymmetry == Permutations(Requests)
=============================================================================
