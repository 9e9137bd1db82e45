---------------------------- MODULE MCBlacklist ----------------------------
(* An instance of Blacklist for TLC. *)
EXTENDS Blacklist, TLC

CONSTANTS sub, site, other, com

\* Two hosts below the same top-level domain: sub.site.com and other.com.
WalkOf == (sub :> <<sub, site, com>>) @@ (other :> <<other, com>>)

CheckSymmetry == Permutations(Checks)
=============================================================================
