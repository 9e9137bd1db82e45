---------------------------- MODULE MCWorkspace ----------------------------
(* Instances of Workspace for TLC. *)
EXTENDS Workspace, TLC

CONSTANTS u1, u2, u3

Add(c, t, r) == [op |-> "add", caller |-> c, target |-> t, role |-> r]
Leave(t) == [op |-> "leave", target |-> t]
Link(c) == [op |-> "link", caller |-> c]

\* Two users who invite each other in several roles, create links, and leave.
MixedInputs ==
    {Add(u1, u2, "OWNER"), Add(u1, u2, "ADMIN"), Add(u2, u1, "MEMBER"), Leave(u1), Leave(u2),
     Link(u1), Link(u2)}

\* A second owner and a plain member are invited; then both owners leave.
TwoOwnersLeave == {Add(u1, u2, "OWNER"), Add(u1, u3, "MEMBER"), Leave(u1), Leave(u2)}

CallSymmetry == Permutations(Calls)
=============================================================================
