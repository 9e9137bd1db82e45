----------------------------- MODULE MCApiKeys -----------------------------
(* An instance of ApiKeys for TLC. *)
EXTENDS ApiKeys
=============================================================================
