------------------------------ MODULE Workspace ------------------------------
(***************************************************************************)
(* internal/workspace: the members of one workspace (every statement names *)
(* its workspace, so workspaces do not meet).                              *)
(*                                                                         *)
(* AddMember reads the caller's role and then upserts the target's row, in *)
(* two statements of their own.  LeaveOrRemoveMember is a READ COMMITTED   *)
(* transaction that reads the role, counts owners, counts members, and     *)
(* then deletes the row: it locks no row before it decides, so what it     *)
(* counted may be out of date when it deletes.  (The service offers        *)
(* LeaveOrRemoveMember; main.go does not route it yet.)                    *)
(*                                                                         *)
(* internal/link asks, through the adapter in main.go, whether the creator *)
(* of a link is a member, and stores the link in a later transaction.      *)
(***************************************************************************)
EXTENDS Naturals, FiniteSets

CONSTANTS
    Users,
    Calls,        \* calls of the service
    Inputs,       \* what a call may be
    NoCall        \* nobody holds the lock

Roles == {"OWNER", "ADMIN", "MEMBER"}

Input == [op : {"add"}, caller : Users, target : Users, role : Roles]
    \cup [op : {"leave"}, target : Users]
    \cup [op : {"link"}, caller : Users]

ASSUME WorkspaceAssumption ==
    /\ Inputs \subseteq Input
    /\ NoCall \notin Calls
    /\ IsFiniteSet(Users)       \* rows of a table

VARIABLES
    input,    \* what each call asks, fixed beforehand
    pc,       \* where each call is, or its result
    role,     \* committed rows of workspace_members; "NONE" is no row
    deleted,  \* workspaces.deleted_at is set
    links,    \* calls whose link is stored in the workspace
    owners,   \* the owner count a leaving call has read
    rowLock,  \* the transaction that deleted a user's row and has not ended
    wsLock    \* the transaction that updated the workspaces row and has not ended

vars == <<input, pc, role, deleted, links, owners, rowLock, wsLock>>

-----------------------------------------------------------------------------

Stages  == {"permitted", "member", "owner", "counted", "emptying", "deleting", "removed"}
Results == {"added", "left", "forbidden", "refused", "notmember", "linked", "failed"}

TypeOK ==
    /\ input \in [Calls -> Inputs]
    /\ pc \in [Calls -> {"idle"} \cup Stages \cup Results]
    /\ role \in [Users -> Roles \cup {"NONE"}]
    /\ deleted \in BOOLEAN
    /\ links \subseteq Calls
    /\ owners \in [Calls -> 0..Cardinality(Users)]
    /\ rowLock \in [Users -> Calls \cup {NoCall}]
    /\ wsLock \in Calls \cup {NoCall}

\* CreateWorkspace has committed both of its rows: one user, its owner.
Init ==
    /\ input \in [Calls -> Inputs]
    /\ pc = [c \in Calls |-> "idle"]
    /\ \E u \in Users : role = [v \in Users |-> IF v = u THEN "OWNER" ELSE "NONE"]
    /\ deleted = FALSE
    /\ links = {}
    /\ owners = [c \in Calls |-> 0]
    /\ rowLock = [u \in Users |-> NoCall]
    /\ wsLock = NoCall

Goto(c, stage) == pc' = [pc EXCEPT ![c] = stage]

target(c) == input[c].target

Members == {u \in Users : role[u] # "NONE"}
Owners  == {u \in Users : role[u] = "OWNER"}

-----------------------------------------------------------------------------
(* AddMember *)

\* CheckPermission: the caller is an owner or an administrator now.
CheckPermission(c) ==
    /\ pc[c] = "idle" /\ input[c].op = "add"
    /\ \/ role[input[c].caller] \in {"OWNER", "ADMIN"} /\ Goto(c, "permitted")
       \/ role[input[c].caller] \notin {"OWNER", "ADMIN"} /\ Goto(c, "forbidden")
       \/ Goto(c, "failed")                                  \* the read failed
    /\ UNCHANGED <<input, role, deleted, links, owners, rowLock, wsLock>>

\* AddMemberByEmail: INSERT ... ON CONFLICT DO UPDATE SET role.  It waits for a
\* transaction that has deleted the row, and gives every target the new role.
UpsertMember(c) ==
    /\ pc[c] = "permitted"
    /\ \/ /\ rowLock[target(c)] = NoCall
          /\ role' = [role EXCEPT ![target(c)] = input[c].role]
          /\ Goto(c, "added")
       \/ Goto(c, "failed") /\ UNCHANGED role                \* no such user, or an error
    /\ UNCHANGED <<input, deleted, links, owners, rowLock, wsLock>>

-----------------------------------------------------------------------------
(* CreateLink in the workspace *)

\* IsMember of the adapter: a read that fails is a no.
CheckMembership(c) ==
    /\ pc[c] = "idle" /\ input[c].op = "link"
    /\ \/ role[input[c].caller] # "NONE" /\ Goto(c, "member")
       \/ Goto(c, "forbidden")
    /\ UNCHANGED <<input, role, deleted, links, owners, rowLock, wsLock>>

\* CreateLinkAtomic, or its failure.  The foreign key asks only that the workspaces row
\* exists, which a soft delete leaves, and its lock does not conflict with that update.
StoreLink(c) ==
    /\ pc[c] = "member"
    /\ \/ links' = links \cup {c} /\ Goto(c, "linked")
       \/ Goto(c, "failed") /\ UNCHANGED links
    /\ UNCHANGED <<input, role, deleted, owners, rowLock, wsLock>>

-----------------------------------------------------------------------------
(* LeaveOrRemoveMember *)

\* SELECT role: only an owner is counted.
ReadRole(c) ==
    /\ pc[c] = "idle" /\ input[c].op = "leave"
    /\ Goto(c, CASE role[target(c)] = "NONE"  -> "notmember"
                 [] role[target(c)] = "OWNER" -> "owner"
                 [] OTHER                     -> "deleting")
    /\ UNCHANGED <<input, role, deleted, links, owners, rowLock, wsLock>>

CountOwners(c) ==
    /\ pc[c] = "owner"
    /\ owners' = [owners EXCEPT ![c] = Cardinality(Owners)]
    /\ Goto(c, "counted")
    /\ UNCHANGED <<input, role, deleted, links, rowLock, wsLock>>

\* Mutant: the sole-owner check is missing.
Unchecked(c) == FALSE

SoleOwner(c) == owners[c] = 1 /\ Cardinality(Members) > 1

\* The second COUNT, and what follows from the two.
Decide(c) ==
    /\ pc[c] = "counted"
    /\ Goto(c, CASE SoleOwner(c)             -> "refused"
                 [] Cardinality(Members) = 1 -> "emptying"
                 [] OTHER                    -> "deleting")
    /\ UNCHANGED <<input, role, deleted, links, owners, rowLock, wsLock>>

\* Mutant: deleted_at is set outside the transaction.
SoftDeleteAtOnce(c) ==
    /\ pc[c] = "emptying"
    /\ deleted' = TRUE
    /\ Goto(c, "deleting")
    /\ UNCHANGED <<input, role, links, owners, rowLock, wsLock>>

\* UPDATE workspaces SET deleted_at, visible at the commit.
SoftDelete(c) ==
    /\ pc[c] = "emptying" /\ wsLock = NoCall
    /\ wsLock' = c
    /\ Goto(c, "deleting")
    /\ UNCHANGED <<input, role, deleted, links, owners, rowLock>>

\* DELETE the member's row: waits for another transaction that has deleted it, and then
\* finds no row.
DeleteRow(c) ==
    /\ pc[c] = "deleting" /\ rowLock[target(c)] = NoCall
    /\ rowLock' = [rowLock EXCEPT ![target(c)] = IF role[target(c)] = "NONE" THEN NoCall ELSE c]
    /\ Goto(c, "removed")
    /\ UNCHANGED <<input, role, deleted, links, owners, wsLock>>

\* Mutant: the end of a transaction forgets the row lock.
KeepRowLocks(c) ==
    /\ wsLock' = IF wsLock = c THEN NoCall ELSE wsLock
    /\ UNCHANGED rowLock

EndTx(c) ==
    /\ rowLock' = [u \in Users |-> IF rowLock[u] = c THEN NoCall ELSE rowLock[u]]
    /\ wsLock' = IF wsLock = c THEN NoCall ELSE wsLock

Commit(c) ==
    /\ pc[c] = "removed"
    /\ role' = [u \in Users |-> IF rowLock[u] = c THEN "NONE" ELSE role[u]]
    /\ deleted' = (deleted \/ wsLock = c)
    /\ EndTx(c)
    /\ Goto(c, "left")
    /\ UNCHANGED <<input, links, owners>>

\* Any statement fails, or the process dies: rollback.
Abort(c) ==
    /\ pc[c] \in Stages \ {"permitted", "member"}
    /\ EndTx(c)
    /\ Goto(c, "failed")
    /\ UNCHANGED <<input, role, deleted, links, owners>>

-----------------------------------------------------------------------------

\* Steps that wait for nobody.
Step(c) ==
    \/ CheckPermission(c) \/ CheckMembership(c) \/ StoreLink(c)
    \/ ReadRole(c) \/ CountOwners(c) \/ Decide(c) \/ Commit(c)

\* Steps that may wait for a lock.
Locking(c) == UpsertMember(c) \/ SoftDelete(c) \/ DeleteRow(c)

Next == \E c \in Calls : Step(c) \/ Locking(c) \/ Abort(c)

Spec == Init /\ [][Next]_vars

\* Goroutines run and PostgreSQL serves the waiters of a row in turn.
FairSpec == Spec /\ \A c \in Calls : WF_vars(Step(c)) /\ SF_vars(Locking(c))

-----------------------------------------------------------------------------

\* The state has its type, and no lock outlives the transaction that took it: a row is
\* locked between its DELETE and the end of the transaction, the workspace between its
\* UPDATE and that end (repository.go:126-130, 148-160).
WellFormed ==
    /\ TypeOK
    /\ \A u \in Users : rowLock[u] # NoCall => pc[rowLock[u]] = "removed"
    /\ wsLock # NoCall => pc[wsLock] \in {"deleting", "removed"}

\* A workspace that still has members has an owner among them: "sole owner cannot
\* leave workspace with active members; transfer ownership first" (repository.go:145).
OwnerRemains == ~deleted /\ Members # {} => Owners # {}

\* A deleted workspace has no members.
DeletedIsEmpty == deleted => Members = {}

\* No two calls overlap, and none is about to give an owner a lower role.
Orderly ==
    /\ \A c, d \in Calls : pc[c] \in Stages /\ pc[d] \in Stages => c = d
    /\ \A c \in Calls :
        pc[c] = "permitted" /\ role[target(c)] = "OWNER" => input[c].role = "OWNER"

\* As long as the calls are orderly, with departures and rollbacks of every kind among
\* them, a workspace with members keeps an owner and a deleted one stays empty
\* (repository.go:139-152).
OrderlyIsSafe == []Orderly => [](OwnerRemains /\ DeletedIsEmpty)

\* Deleted, without members, and no call holds a permission it has not used.
Closed ==
    /\ deleted /\ Members = {}
    /\ \A c \in Calls : pc[c] \notin {"permitted", "member"}

\* The workspace disappears only when a departure commits, never for one that is rolled
\* back, and the row which that departure has deleted is gone with it.  And once the
\* workspace is closed, it stays so: however the calls overlap, nobody enters it again and
\* no further link is stored in it, although no statement looks at deleted_at
\* (repository.go:89-123, 148-160, link/service.go:199).
DeletionIsFinal ==
    [][/\ deleted' # deleted =>
              \E c \in Calls : /\ wsLock = c /\ pc[c] = "removed" /\ pc'[c] = "left"
                               /\ rowLock[target(c)] = c => role'[target(c)] = "NONE"
       /\ Closed => Closed' /\ links' = links]_vars

\* Every call ends: no two of them wait for each other's row.
CallsEnd == \A c \in Calls : pc[c] \in Stages ~> pc[c] \in Results
=============================================================================
