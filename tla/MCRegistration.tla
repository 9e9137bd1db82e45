--------------------------- MODULE MCRegistration ---------------------------
(* An instance of Registration for TLC. *)
EXTENDS Registration
=============================================================================
