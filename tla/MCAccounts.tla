----------------------------- MODULE MCAccounts -----------------------------
(* An instance of Accounts for TLC. *)
EXTENDS Accounts, TLC

CONSTANTS u1, u2, t1, t2, r1, r2

Owners == (t1 :> u1) @@ (t2 :> u2)

\* One session of one user: its login, its logout, its calls, and the verification of
\* this user and of another one.
SessionInputs ==
    {[op |-> "login", user |-> u1]}
    \cup [op : {"verify"}, token : {t1, t2}]
    \cup [op : {"logout", "call", "verifiedcall"}, session : {r1}]
=============================================================================
