--------------------------- MODULE WorkspaceProofs ---------------------------
(***************************************************************************)
(* Theorems about Workspace, for any finite set of users and any calls.    *)
(***************************************************************************)
EXTENDS Workspace, FiniteSetTheorems, TLAPS

Departing == Stages \ {"permitted", "member"}

\* A call is in a stage of its own operation, and the row a transaction has deleted is
\* the one of its target.
Matched ==
    /\ \A c \in Calls :
        /\ pc[c] = "permitted" => input[c].op = "add"
        /\ pc[c] = "member" => input[c].op = "link"
        /\ pc[c] \in Departing => input[c].op = "leave"
    /\ \A u \in Users : rowLock[u] # NoCall => target(rowLock[u]) = u

WorkspaceInv == WellFormed /\ Matched

\* What a departing call knows of the members as long as nobody interferes: its own row is
\* there and, once it will leave, an owner stays behind or it was the last member.
Known(c) ==
    /\ pc[c] = "permitted" => Members # {}
    /\ pc[c] \in Departing => role[target(c)] # "NONE"
    /\ pc[c] \in {"owner", "counted"} => role[target(c)] = "OWNER"
    /\ pc[c] = "counted" => owners[c] = Cardinality(Owners)
    /\ pc[c] = "emptying" \/ wsLock = c => Members = {target(c)}
    /\ pc[c] \in {"deleting", "removed"} /\ wsLock # c => Owners \ {target(c)} # {}
    /\ pc[c] = "removed" => rowLock[target(c)] = c

SafeInv == OwnerRemains /\ DeletedIsEmpty /\ \A c \in Calls : Known(c)

-----------------------------------------------------------------------------

\* What a call asks has the fields of its operation.
LEMMA InputFields ==
    ASSUME TypeOK, NEW c \in Calls
    PROVE  /\ input[c].op \in {"add", "leave", "link"}
           /\ input[c].op = "add" => /\ input[c].caller \in Users /\ target(c) \in Users
                                     /\ input[c].role \in Roles
           /\ input[c].op = "leave" => target(c) \in Users
           /\ input[c].op = "link" => input[c].caller \in Users
<1>1. input[c] \in Input
  BY WorkspaceAssumption DEF TypeOK
<1>2. CASE input[c] \in [op : {"add"}, caller : Users, target : Users, role : Roles]
  BY <1>2 DEF target
<1>3. CASE input[c] \in [op : {"leave"}, target : Users]
  BY <1>3 DEF target
<1>4. CASE input[c] \in [op : {"link"}, caller : Users]
  BY <1>4
<1> QED
  BY <1>1, <1>2, <1>3, <1>4 DEF Input

\* There are no more owners or members than users.
LEMMA Counts ==
    /\ IsFiniteSet(Members) /\ IsFiniteSet(Owners)
    /\ Cardinality(Members) \in Nat
    /\ Cardinality(Owners) \in 0..Cardinality(Users)
<1>1. Members \in SUBSET Users /\ Owners \in SUBSET Users
  BY DEF Members, Owners
<1>2. /\ IsFiniteSet(Members) /\ Cardinality(Members) <= Cardinality(Users)
      /\ IsFiniteSet(Owners) /\ Cardinality(Owners) <= Cardinality(Users)
  BY <1>1, FS_Subset, WorkspaceAssumption
<1>3. Cardinality(Users) \in Nat /\ Cardinality(Members) \in Nat /\ Cardinality(Owners) \in Nat
  BY <1>2, FS_CardinalityType, WorkspaceAssumption
<1> QED
  BY <1>2, <1>3

LEMMA TypeInit ==
    ASSUME Init
    PROVE  TypeOK
<1>1. Cardinality(Users) \in Nat
  BY FS_CardinalityType, WorkspaceAssumption
<1>2. PICK u \in Users : role = [v \in Users |-> IF v = u THEN "OWNER" ELSE "NONE"]
  BY DEF Init
<1>3. role \in [Users -> Roles \cup {"NONE"}]
  BY <1>2 DEF Roles
<1>4. owners \in [Calls -> 0..Cardinality(Users)]
  BY <1>1 DEF Init
<1> QED
  BY <1>3, <1>4 DEF Init, TypeOK

\* A transaction ends and releases what it has locked.
LEMMA LocksReleased ==
    ASSUME TypeOK, NEW c \in Calls, EndTx(c)
    PROVE  /\ rowLock' \in [Users -> Calls \cup {NoCall}] /\ wsLock' \in Calls \cup {NoCall}
           /\ \A u \in Users : rowLock'[u] # NoCall => rowLock'[u] = rowLock[u] /\ rowLock[u] # c
           /\ wsLock' # NoCall => wsLock' = wsLock /\ wsLock # c
           /\ wsLock' # c
BY WorkspaceAssumption DEF TypeOK, EndTx

\* Every variable keeps its type.
LEMMA TypeStep ==
    ASSUME TypeOK, Matched, [Next]_vars
    PROVE  TypeOK'
<1> USE DEF TypeOK, Stages, Results, Goto
<1>1. ASSUME NEW c \in Calls, CheckPermission(c) PROVE TypeOK'
  BY <1>1 DEF CheckPermission
<1>2. ASSUME NEW c \in Calls, CheckMembership(c) PROVE TypeOK'
  BY <1>2 DEF CheckMembership
<1>3. ASSUME NEW c \in Calls, StoreLink(c) PROVE TypeOK'
  <2>1. pc' \in [Calls -> {"idle"} \cup Stages \cup Results]
    BY <1>3 DEF StoreLink
  <2>2. links' \subseteq Calls
    BY <1>3 DEF StoreLink
  <2> QED
    BY <1>3, <2>1, <2>2 DEF StoreLink
<1>4. ASSUME NEW c \in Calls, ReadRole(c) PROVE TypeOK'
  BY <1>4 DEF ReadRole
<1>5. ASSUME NEW c \in Calls, CountOwners(c) PROVE TypeOK'
  BY <1>5, Counts DEF CountOwners
<1>6. ASSUME NEW c \in Calls, Decide(c) PROVE TypeOK'
  BY <1>6 DEF Decide
<1>7. ASSUME NEW c \in Calls, Commit(c) PROVE TypeOK'
  <2>1. pc' \in [Calls -> {"idle"} \cup Stages \cup Results]
    BY <1>7 DEF Commit
  <2>2. role' \in [Users -> Roles \cup {"NONE"}]
    BY <1>7 DEF Commit
  <2>3. deleted' \in BOOLEAN
    BY <1>7 DEF Commit
  <2>4. rowLock' \in [Users -> Calls \cup {NoCall}] /\ wsLock' \in Calls \cup {NoCall}
    BY <1>7, LocksReleased DEF Commit
  <2> QED
    BY <1>7, <2>1, <2>2, <2>3, <2>4 DEF Commit
<1>8. ASSUME NEW c \in Calls, UpsertMember(c) PROVE TypeOK'
  <2>1. pc' \in [Calls -> {"idle"} \cup Stages \cup Results]
    BY <1>8 DEF UpsertMember
  <2>2. input[c].role \in Roles
    BY <1>8, InputFields DEF UpsertMember, Matched
  <2>3. role' \in [Users -> Roles \cup {"NONE"}]
    BY <1>8, <2>2 DEF UpsertMember
  <2> QED
    BY <1>8, <2>1, <2>3 DEF UpsertMember
<1>9. ASSUME NEW c \in Calls, SoftDelete(c) PROVE TypeOK'
  BY <1>9 DEF SoftDelete
<1>10. ASSUME NEW c \in Calls, DeleteRow(c) PROVE TypeOK'
  BY <1>10 DEF DeleteRow
<1>11. ASSUME NEW c \in Calls, Abort(c) PROVE TypeOK'
  <2>1. pc' \in [Calls -> {"idle"} \cup Stages \cup Results]
    BY <1>11 DEF Abort
  <2>2. rowLock' \in [Users -> Calls \cup {NoCall}] /\ wsLock' \in Calls \cup {NoCall}
    BY <1>11, LocksReleased DEF Abort
  <2> QED
    BY <1>11, <2>1, <2>2 DEF Abort
<1>12. CASE UNCHANGED vars
  BY <1>12 DEF vars
<1> QED
  BY <1>1, <1>2, <1>3, <1>4, <1>5, <1>6, <1>7, <1>8, <1>9, <1>10, <1>11, <1>12
  DEF Next, Step, Locking

-----------------------------------------------------------------------------

\* What WellFormed says of the locks.
LocksMatch ==
    /\ \A u \in Users : rowLock[u] # NoCall => pc[rowLock[u]] = "removed"
    /\ wsLock # NoCall => pc[wsLock] \in {"deleting", "removed"}

\* A stage that c may be in, by its operation.
Fits(c, stage) ==
    /\ stage = "permitted" => input[c].op = "add"
    /\ stage = "member" => input[c].op = "link"
    /\ stage \in Departing => input[c].op = "leave"

\* A step of c that touches no lock, taken while c holds none.
LEMMA QuietStep ==
    ASSUME TypeOK, LocksMatch, Matched, NEW c \in Calls, NEW s, Goto(c, s), Fits(c, s),
           pc[c] \notin {"deleting", "removed"}, UNCHANGED <<input, rowLock, wsLock>>
    PROVE  LocksMatch' /\ Matched'
<1>1. \A d \in Calls : pc'[d] = IF d = c THEN s ELSE pc[d]
  BY DEF Goto, TypeOK
<1>2. LocksMatch'
  BY <1>1 DEF LocksMatch, TypeOK
<1>3. Matched'
  BY <1>1 DEF Matched, Fits, Departing, Stages, target, TypeOK
<1> QED
  BY <1>2, <1>3

\* The end of a transaction leaves only the locks of others.
LEMMA EndStep ==
    ASSUME TypeOK, LocksMatch, Matched, NEW c \in Calls, NEW s \in Results, Goto(c, s),
           EndTx(c), input' = input
    PROVE  LocksMatch' /\ Matched'
<1>1. \A d \in Calls : pc'[d] = IF d = c THEN s ELSE pc[d]
  BY DEF Goto, TypeOK
<1>2. LocksMatch'
  <2>1. ASSUME NEW u \in Users, rowLock'[u] # NoCall PROVE pc'[rowLock'[u]] = "removed"
    <3>1. rowLock'[u] = rowLock[u] /\ rowLock[u] # c /\ rowLock[u] \in Calls
      BY <2>1, LocksReleased DEF TypeOK
    <3> QED
      BY <1>1, <2>1, <3>1 DEF LocksMatch
  <2>2. ASSUME wsLock' # NoCall PROVE pc'[wsLock'] \in {"deleting", "removed"}
    <3>1. wsLock' = wsLock /\ wsLock # c /\ wsLock \in Calls
      BY <2>2, LocksReleased DEF TypeOK
    <3> QED
      BY <1>1, <2>2, <3>1 DEF LocksMatch
  <2> QED
    BY <2>1, <2>2 DEF LocksMatch
<1>3. Matched'
  <2>1. \A d \in Calls : Fits(d, pc[d]) => Fits(d, pc[d])'
    BY <1>1 DEF Fits, Results, Departing, Stages
  <2>2. ASSUME NEW u \in Users, rowLock'[u] # NoCall PROVE input'[rowLock'[u]].target = u
    BY <2>2, LocksReleased DEF Matched, target
  <2> QED
    BY <2>1, <2>2 DEF Matched, Fits, target
<1> QED
  BY <1>2, <1>3

\* No lock outlives its transaction, and calls stay with their operation.
LEMMA MatchStep ==
    ASSUME TypeOK, LocksMatch, Matched, [Next]_vars
    PROVE  LocksMatch' /\ Matched'
<1>1. ASSUME NEW c \in Calls, CheckPermission(c) PROVE LocksMatch' /\ Matched'
  <2>1. PICK s \in {"permitted", "forbidden", "failed"} : Goto(c, s)
    BY <1>1 DEF CheckPermission
  <2>2. Fits(c, s)
    BY <1>1 DEF CheckPermission, Fits, Departing, Stages
  <2> QED
    BY <1>1, <2>1, <2>2, QuietStep DEF CheckPermission
<1>2. ASSUME NEW c \in Calls, CheckMembership(c) PROVE LocksMatch' /\ Matched'
  <2>1. PICK s \in {"member", "forbidden"} : Goto(c, s)
    BY <1>2 DEF CheckMembership
  <2>2. Fits(c, s)
    BY <1>2 DEF CheckMembership, Fits, Departing, Stages
  <2> QED
    BY <1>2, <2>1, <2>2, QuietStep DEF CheckMembership
<1>3. ASSUME NEW c \in Calls, StoreLink(c) PROVE LocksMatch' /\ Matched'
  <2>1. PICK s \in {"linked", "failed"} : Goto(c, s)
    BY <1>3 DEF StoreLink
  <2>2. Fits(c, s)
    BY DEF Fits, Departing, Stages
  <2> QED
    BY <1>3, <2>1, <2>2, QuietStep DEF StoreLink
<1>4. ASSUME NEW c \in Calls, ReadRole(c) PROVE LocksMatch' /\ Matched'
  <2>1. PICK s \in {"notmember", "owner", "deleting"} : Goto(c, s)
    BY <1>4 DEF ReadRole
  <2>2. Fits(c, s)
    BY <1>4 DEF ReadRole, Fits, Departing, Stages
  <2> QED
    BY <1>4, <2>1, <2>2, QuietStep DEF ReadRole
<1>5. ASSUME NEW c \in Calls, CountOwners(c) PROVE LocksMatch' /\ Matched'
  <2>1. Fits(c, "counted")
    BY <1>5 DEF CountOwners, Matched, Fits, Departing, Stages
  <2> QED
    BY <1>5, <2>1, QuietStep DEF CountOwners
<1>6. ASSUME NEW c \in Calls, Decide(c) PROVE LocksMatch' /\ Matched'
  <2>1. PICK s \in {"refused", "emptying", "deleting"} : Goto(c, s)
    BY <1>6 DEF Decide
  <2>2. Fits(c, s)
    BY <1>6 DEF Decide, Matched, Fits, Departing, Stages
  <2> QED
    BY <1>6, <2>1, <2>2, QuietStep DEF Decide
<1>7. ASSUME NEW c \in Calls, Commit(c) PROVE LocksMatch' /\ Matched'
  BY <1>7, EndStep DEF Commit, Results
<1>8. ASSUME NEW c \in Calls, UpsertMember(c) PROVE LocksMatch' /\ Matched'
  <2>1. PICK s \in {"added", "failed"} : Goto(c, s)
    BY <1>8 DEF UpsertMember
  <2>2. Fits(c, s)
    BY DEF Fits, Departing, Stages
  <2> QED
    BY <1>8, <2>1, <2>2, QuietStep DEF UpsertMember
<1>9. ASSUME NEW c \in Calls, SoftDelete(c) PROVE LocksMatch' /\ Matched'
  <2>1. \A d \in Calls : pc'[d] = IF d = c THEN "deleting" ELSE pc[d]
    BY <1>9 DEF SoftDelete, Goto, TypeOK
  <2>2. LocksMatch'
    BY <1>9, <2>1 DEF SoftDelete, LocksMatch, TypeOK
  <2>3. Matched'
    BY <1>9, <2>1 DEF SoftDelete, Matched, Departing, Stages, target, TypeOK
  <2> QED
    BY <2>2, <2>3
<1>10. ASSUME NEW c \in Calls, DeleteRow(c) PROVE LocksMatch' /\ Matched'
  <2>1. \A d \in Calls : pc'[d] = IF d = c THEN "removed" ELSE pc[d]
    BY <1>10 DEF DeleteRow, Goto, TypeOK
  <2>2. \A u \in Users : rowLock'[u] # NoCall =>
            \/ rowLock'[u] = c /\ u = target(c)
            \/ rowLock'[u] = rowLock[u] /\ rowLock[u] \in Calls
    BY <1>10 DEF DeleteRow, TypeOK
  <2>3. LocksMatch'
    BY <1>10, <2>1, <2>2 DEF DeleteRow, LocksMatch, TypeOK
  <2>4. Matched'
    <3>1. \A d \in Calls : Fits(d, pc[d]) => Fits(d, pc[d])'
      BY <1>10, <2>1 DEF DeleteRow, Fits, Departing, Stages
    <3>2. ASSUME NEW u \in Users, rowLock'[u] # NoCall PROVE input'[rowLock'[u]].target = u
      BY <1>10, <2>2, <3>2 DEF DeleteRow, Matched, target
    <3> QED
      BY <3>1, <3>2 DEF Matched, Fits, target
  <2> QED
    BY <2>3, <2>4
<1>11. ASSUME NEW c \in Calls, Abort(c) PROVE LocksMatch' /\ Matched'
  BY <1>11, EndStep DEF Abort, Results
<1>12. CASE UNCHANGED vars
  BY <1>12 DEF vars, LocksMatch, Matched, target
<1> QED
  BY <1>1, <1>2, <1>3, <1>4, <1>5, <1>6, <1>7, <1>8, <1>9, <1>10, <1>11, <1>12
  DEF Next, Step, Locking

\* WorkspaceInv is an invariant.
THEOREM WorkspaceInvariance == Spec => []WorkspaceInv
<1>1. Init => WorkspaceInv
  <2> SUFFICES ASSUME Init PROVE WorkspaceInv
    OBVIOUS
  <2>1. LocksMatch /\ Matched
    BY DEF Init, LocksMatch, Matched, Departing, Stages
  <2> QED
    BY <2>1, TypeInit DEF WorkspaceInv, WellFormed, LocksMatch
<1>2. WorkspaceInv /\ [Next]_vars => WorkspaceInv'
  BY TypeStep, MatchStep DEF WorkspaceInv, WellFormed, LocksMatch
<1> QED
  BY <1>1, <1>2, PTL DEF Spec

\* However the calls overlap, fail or die, no lock outlives the transaction that took it
\* (repository.go:126-160).
THEOREM LocksEnd == Spec => []WellFormed
<1>1. WorkspaceInv => WellFormed
  BY DEF WorkspaceInv
<1> QED
  BY <1>1, WorkspaceInvariance, PTL

-----------------------------------------------------------------------------

\* The step that DeletionIsFinal asks for.
FinalStep ==
    /\ deleted' # deleted =>
        \E c \in Calls : /\ wsLock = c /\ pc[c] = "removed" /\ pc'[c] = "left"
                         /\ rowLock[target(c)] = c => role'[target(c)] = "NONE"
    /\ Closed => Closed' /\ links' = links

\* A step to a stage without a permission changes nothing in a closed workspace.
LEMMA StaysClosed ==
    ASSUME TypeOK, NEW c \in Calls, NEW s, Goto(c, s), s \notin {"permitted", "member"},
           UNCHANGED <<role, deleted, links>>
    PROVE  FinalStep
BY DEF FinalStep, Closed, Members, Goto, TypeOK

LEMMA FinalSteps ==
    ASSUME WorkspaceInv, [Next]_vars
    PROVE  FinalStep
<1>0. TypeOK /\ Matched
  BY DEF WorkspaceInv, WellFormed
<1>0a. Closed => \A u \in Users : role[u] = "NONE"
  BY DEF Closed, Members
<1>1. ASSUME NEW c \in Calls, CheckPermission(c) PROVE FinalStep
  <2>1. input[c].caller \in Users
    BY <1>0, <1>1, InputFields DEF CheckPermission
  <2>2. CASE Goto(c, "permitted") /\ role[input[c].caller] # "NONE"
    <3>1. ~Closed
      BY <1>0a, <2>1, <2>2
    <3> QED
      BY <1>1, <3>1 DEF CheckPermission, FinalStep
  <2>3. CASE \E s \in {"forbidden", "failed"} : Goto(c, s)
    BY <1>0, <1>1, <2>3, StaysClosed DEF CheckPermission
  <2> QED
    BY <1>1, <2>2, <2>3 DEF CheckPermission
<1>2. ASSUME NEW c \in Calls, CheckMembership(c) PROVE FinalStep
  <2>1. input[c].caller \in Users
    BY <1>0, <1>2, InputFields DEF CheckMembership
  <2>2. CASE Goto(c, "member") /\ role[input[c].caller] # "NONE"
    <3>1. ~Closed
      BY <1>0a, <2>1, <2>2
    <3> QED
      BY <1>2, <3>1 DEF CheckMembership, FinalStep
  <2>3. CASE Goto(c, "forbidden")
    BY <1>0, <1>2, <2>3, StaysClosed DEF CheckMembership
  <2> QED
    BY <1>2, <2>2, <2>3 DEF CheckMembership
<1>3. ASSUME NEW c \in Calls, StoreLink(c) PROVE FinalStep
  BY <1>3 DEF StoreLink, FinalStep, Closed
<1>4. ASSUME NEW c \in Calls, ReadRole(c) PROVE FinalStep
  <2>1. PICK s \in {"notmember", "owner", "deleting"} : Goto(c, s)
    BY <1>4 DEF ReadRole
  <2> QED
    BY <1>0, <1>4, <2>1, StaysClosed DEF ReadRole
<1>5. ASSUME NEW c \in Calls, CountOwners(c) PROVE FinalStep
  BY <1>0, <1>5, StaysClosed DEF CountOwners
<1>6. ASSUME NEW c \in Calls, Decide(c) PROVE FinalStep
  <2>1. PICK s \in {"refused", "emptying", "deleting"} : Goto(c, s)
    BY <1>6 DEF Decide
  <2> QED
    BY <1>0, <1>6, <2>1, StaysClosed DEF Decide
<1>7. ASSUME NEW c \in Calls, Commit(c) PROVE FinalStep
  <2>1. \A d \in Calls : pc'[d] = IF d = c THEN "left" ELSE pc[d]
    BY <1>0, <1>7 DEF Commit, Goto, TypeOK
  <2>2. ASSUME deleted' # deleted
        PROVE  /\ wsLock = c /\ pc[c] = "removed" /\ pc'[c] = "left"
               /\ rowLock[target(c)] = c => role'[target(c)] = "NONE"
    <3>1. pc[c] = "removed" /\ pc'[c] = "left"
      BY <1>7, <2>1 DEF Commit
    <3>2. wsLock = c
      BY <1>0, <1>7, <2>2 DEF Commit, TypeOK
    <3>3. target(c) \in Users
      BY <1>0, <3>1, InputFields DEF Matched, Departing, Stages
    <3> QED
      BY <1>7, <3>1, <3>2, <3>3 DEF Commit
  <2>3. ASSUME Closed PROVE Closed' /\ links' = links
    <3>1. deleted' /\ \A u \in Users : role'[u] = "NONE"
      BY <1>0a, <1>7, <2>3 DEF Commit, Closed
    <3> QED
      BY <1>7, <2>1, <2>3, <3>1 DEF Commit, Closed, Members
  <2> QED
    BY <2>2, <2>3 DEF FinalStep
<1>8. ASSUME NEW c \in Calls, UpsertMember(c) PROVE FinalStep
  BY <1>8 DEF UpsertMember, FinalStep, Closed
<1>9. ASSUME NEW c \in Calls, SoftDelete(c) PROVE FinalStep
  BY <1>0, <1>9, StaysClosed DEF SoftDelete
<1>10. ASSUME NEW c \in Calls, DeleteRow(c) PROVE FinalStep
  BY <1>0, <1>10, StaysClosed DEF DeleteRow
<1>11. ASSUME NEW c \in Calls, Abort(c) PROVE FinalStep
  BY <1>0, <1>11, StaysClosed DEF Abort
<1>12. CASE UNCHANGED vars
  BY <1>12 DEF vars, FinalStep, Closed, Members
<1> QED
  BY <1>1, <1>2, <1>3, <1>4, <1>5, <1>6, <1>7, <1>8, <1>9, <1>10, <1>11, <1>12
  DEF Next, Step, Locking

\* However the calls overlap, the workspace is deleted only by a departure that commits,
\* and a closed one is never entered again and stores no further link
\* (repository.go:89-123, 148-160, link/service.go:199).
THEOREM ClosedForGood == Spec => DeletionIsFinal
<1>1. WorkspaceInv /\ [Next]_vars =>
        [/\ deleted' # deleted =>
              \E c \in Calls : /\ wsLock = c /\ pc[c] = "removed" /\ pc'[c] = "left"
                               /\ rowLock[target(c)] = c => role'[target(c)] = "NONE"
         /\ Closed => Closed' /\ links' = links]_vars
  BY FinalSteps DEF FinalStep
<1> QED
  BY <1>1, WorkspaceInvariance, PTL DEF Spec, DeletionIsFinal

-----------------------------------------------------------------------------

\* In an orderly step of c into or out of a stage, everybody else is between calls and
\* has nothing to know.
LEMMA OthersRest ==
    ASSUME TypeOK, LocksMatch', Orderly, Orderly', NEW c \in Calls, NEW s, Goto(c, s),
           pc[c] \in Stages \/ s \in Stages, Known(c)', NEW d \in Calls
    PROVE  Known(d)'
<1>1. pc'[c] = s /\ (d # c => pc'[d] = pc[d])
  BY DEF Goto, TypeOK
<1>2. CASE d # c
  <2>1. pc'[d] \notin Stages
    BY <1>1, <1>2 DEF Orderly
  <2>2. wsLock' # d
    BY <2>1, WorkspaceAssumption DEF LocksMatch, Stages
  <2> QED
    BY <2>1, <2>2 DEF Known, Departing, Stages
<1> QED
  BY <1>2

\* A call that is answered at once changes nothing that anybody knows.
LEMMA AnsweredAtOnce ==
    ASSUME TypeOK, LocksMatch, SafeInv, NEW c \in Calls, NEW s \in Results, Goto(c, s),
           pc[c] = "idle", UNCHANGED <<input, role, deleted, owners, rowLock, wsLock>>
    PROVE  SafeInv'
<1>1. \A d \in Calls : pc'[d] = IF d = c THEN s ELSE pc[d]
  BY DEF Goto, TypeOK
<1>2. Members' = Members /\ Owners' = Owners
  BY DEF Members, Owners
<1>3. wsLock # c
  BY WorkspaceAssumption DEF LocksMatch
<1>4. ASSUME NEW d \in Calls PROVE Known(d)'
  <2>1. CASE d = c
    BY <1>1, <1>3, <2>1 DEF Known, Departing, Stages, Results
  <2>2. CASE d # c
    BY <1>1, <1>2, <2>2 DEF SafeInv, Known, target
  <2> QED
    BY <2>1, <2>2
<1> QED
  BY <1>2, <1>4 DEF SafeInv, OwnerRemains, DeletedIsEmpty

\* A step into or out of a stage that leaves the members alone, and after which c knows
\* what its stage needs.
LEMMA MembersAlone ==
    ASSUME TypeOK, LocksMatch', Orderly, Orderly', SafeInv, NEW c \in Calls, NEW s, Goto(c, s),
           pc[c] \in Stages \/ s \in Stages, UNCHANGED <<role, deleted>>, Known(c)'
    PROVE  SafeInv'
<1>1. Members' = Members /\ Owners' = Owners
  BY DEF Members, Owners
<1> QED
  BY <1>1, OthersRest DEF SafeInv, OwnerRemains, DeletedIsEmpty

\* Two owners are two members, and a member alone is all there is.
LEMMA WhoRemains ==
    ASSUME NEW u \in Users
    PROVE  /\ u \in Owners /\ Cardinality(Owners) # 1 => Owners \ {u} # {}
           /\ u \in Members /\ Cardinality(Members) = 1 => Members = {u}
           /\ u \in Members => Cardinality(Members) >= 1
<1>1. ASSUME u \in Owners, Owners \ {u} = {} PROVE Cardinality(Owners) = 1
  <2>1. Owners = {u}
    BY <1>1
  <2> QED
    BY <2>1, FS_Singleton
<1>2. ASSUME u \in Members, Cardinality(Members) = 1 PROVE Members = {u}
  BY <1>2, Counts, FS_Singleton
<1>3. ASSUME u \in Members PROVE Cardinality(Members) >= 1
  <2>1. Cardinality(Members) # 0
    BY <1>3, Counts, FS_EmptySet
  <2> QED
    BY <2>1, Counts
<1> QED
  BY <1>1, <1>2, <1>3

\* An orderly step keeps what the calls know: whatever a departing call has counted is
\* still so when it deletes and when it commits.
LEMMA SafeStep ==
    ASSUME WorkspaceInv, WorkspaceInv', Orderly, Orderly', SafeInv, [Next]_vars
    PROVE  SafeInv'
<1>0. TypeOK /\ LocksMatch /\ LocksMatch' /\ Matched
  BY DEF WorkspaceInv, WellFormed, LocksMatch
<1>0a. \A c \in Calls : Known(c)
  BY DEF SafeInv
<1>0b. \A c \in Calls : \A s : Goto(c, s) => pc'[c] = s
  BY <1>0 DEF Goto, TypeOK
<1>0c. \A c \in Calls : pc[c] \notin {"deleting", "removed"} => wsLock # c
  BY <1>0, WorkspaceAssumption DEF LocksMatch
<1>0d. \A c \in Calls : pc[c] \in Departing \/ input[c].op = "leave" => target(c) \in Users
  BY <1>0, InputFields DEF Matched
<1>1. ASSUME NEW c \in Calls, CheckPermission(c) PROVE SafeInv'
  <2>1. CASE \E s \in {"forbidden", "failed"} : Goto(c, s)
    BY <1>0, <1>1, <2>1, AnsweredAtOnce DEF CheckPermission, Results
  <2>2. CASE role[input[c].caller] \in {"OWNER", "ADMIN"} /\ Goto(c, "permitted")
    <3>1. input[c].caller \in Users
      BY <1>0, <1>1, InputFields DEF CheckPermission
    <3>2. Members' # {}
      BY <1>1, <2>2, <3>1 DEF CheckPermission, Members
    <3>3. Known(c)'
      BY <1>0b, <1>0c, <1>1, <2>2, <3>2 DEF CheckPermission, Known, Departing, Stages
    <3> QED
      BY <1>0, <1>1, <2>2, <3>3, MembersAlone DEF CheckPermission, Stages
  <2> QED
    BY <1>1, <2>1, <2>2 DEF CheckPermission
<1>2. ASSUME NEW c \in Calls, CheckMembership(c) PROVE SafeInv'
  <2>1. CASE Goto(c, "forbidden")
    BY <1>0, <1>2, <2>1, AnsweredAtOnce DEF CheckMembership, Results
  <2>2. CASE Goto(c, "member")
    <3>1. Known(c)'
      BY <1>0b, <1>0c, <1>2, <2>2 DEF CheckMembership, Known, Departing, Stages
    <3> QED
      BY <1>0, <1>2, <2>2, <3>1, MembersAlone DEF CheckMembership, Stages
  <2> QED
    BY <1>2, <2>1, <2>2 DEF CheckMembership
<1>3. ASSUME NEW c \in Calls, StoreLink(c) PROVE SafeInv'
  <2>1. PICK s \in {"linked", "failed"} : Goto(c, s)
    BY <1>3 DEF StoreLink
  <2>2. Known(c)'
    BY <1>0b, <1>0c, <1>3, <2>1 DEF StoreLink, Known, Departing, Stages
  <2> QED
    BY <1>0, <1>3, <2>1, <2>2, MembersAlone DEF StoreLink, Stages
<1>4. ASSUME NEW c \in Calls, ReadRole(c) PROVE SafeInv'
  <2>0. target(c) \in Users
    BY <1>0d, <1>4 DEF ReadRole
  <2>1. CASE role[target(c)] = "NONE"
    <3>1. Goto(c, "notmember")
      BY <1>4, <2>1 DEF ReadRole
    <3> QED
      BY <1>0, <1>4, <3>1, AnsweredAtOnce DEF ReadRole, Results
  <2>2. CASE role[target(c)] = "OWNER"
    <3>1. Goto(c, "owner")
      BY <1>4, <2>2 DEF ReadRole
    <3>2. Known(c)'
      BY <1>0b, <1>0c, <1>4, <2>2, <3>1 DEF ReadRole, Known, Departing, Stages, target
    <3> QED
      BY <1>0, <1>4, <3>1, <3>2, MembersAlone DEF ReadRole, Stages
  <2>3. CASE role[target(c)] \notin {"NONE", "OWNER"}
    <3>1. Goto(c, "deleting")
      BY <1>4, <2>3 DEF ReadRole
    <3>2. Owners \ {target(c)} # {}
      BY <2>0, <2>3 DEF SafeInv, OwnerRemains, DeletedIsEmpty, Members, Owners
    <3>3. Owners' = Owners /\ target(c)' = target(c)
      BY <1>4 DEF ReadRole, Owners, target
    <3>4. Known(c)'
      BY <1>0b, <1>0c, <1>4, <2>3, <3>1, <3>2, <3>3 DEF ReadRole, Known, Departing, Stages
    <3> QED
      BY <1>0, <1>4, <3>1, <3>4, MembersAlone DEF ReadRole, Stages
  <2> QED
    BY <2>1, <2>2, <2>3
<1>5. ASSUME NEW c \in Calls, CountOwners(c) PROVE SafeInv'
  <2>1. owners'[c] = Cardinality(Owners) /\ role[target(c)] = "OWNER"
    BY <1>0, <1>0a, <1>5 DEF CountOwners, Known, TypeOK
  <2>2. Owners' = Owners /\ target(c)' = target(c)
    BY <1>5 DEF CountOwners, Owners, target
  <2>3. Known(c)'
    BY <1>0b, <1>0c, <1>5, <2>1, <2>2 DEF CountOwners, Known, Departing, Stages
  <2> QED
    BY <1>0, <1>5, <2>3, MembersAlone DEF CountOwners, Stages
<1>6. ASSUME NEW c \in Calls, Decide(c) PROVE SafeInv'
  <2>0. /\ target(c) \in Users /\ target(c) \in Owners /\ target(c) \in Members
        /\ owners[c] = Cardinality(Owners)
    BY <1>0a, <1>0d, <1>6 DEF Decide, Known, Owners, Members, Departing, Stages
  <2>1. Owners' = Owners /\ Members' = Members /\ target(c)' = target(c)
    BY <1>6 DEF Decide, Owners, Members, target
  <2>2. PICK s \in {"refused", "emptying", "deleting"} :
            /\ Goto(c, s)
            /\ s = "emptying" => Cardinality(Members) = 1
            /\ s = "deleting" => ~SoleOwner(c) /\ Cardinality(Members) # 1
    BY <1>6 DEF Decide
  <2>3. s = "emptying" => Members = {target(c)}
    BY <2>0, <2>2, WhoRemains
  <2>4. s = "deleting" => Owners \ {target(c)} # {}
    <3>1. Cardinality(Members) \in Nat /\ Cardinality(Members) >= 1
      BY <2>0, WhoRemains, Counts
    <3>2. s = "deleting" => Cardinality(Owners) # 1
      BY <2>0, <2>2, <3>1 DEF SoleOwner
    <3> QED
      BY <2>0, <3>2, WhoRemains
  <2>5. Known(c)'
    BY <1>0b, <1>0c, <1>6, <2>0, <2>1, <2>2, <2>3, <2>4
    DEF Decide, Known, Departing, Stages, Owners
  <2> QED
    BY <1>0, <1>6, <2>2, <2>5, MembersAlone DEF Decide, Stages
<1>7. ASSUME NEW c \in Calls, Commit(c) PROVE SafeInv'
  <2>0. target(c) \in Users /\ rowLock[target(c)] = c
    BY <1>0a, <1>0d, <1>7 DEF Commit, Known, Departing, Stages
  <2>1. \A u \in Users : rowLock[u] = c <=> u = target(c)
    BY <1>0, <2>0, WorkspaceAssumption DEF Matched
  <2>2. Members' = Members \ {target(c)} /\ Owners' = Owners \ {target(c)}
    BY <1>7, <2>1 DEF Commit, Members, Owners
  <2>3. ~deleted /\ target(c) \in Members
    BY <1>0a, <1>7, <2>0 DEF Commit, Known, SafeInv, DeletedIsEmpty, Members, Departing, Stages
  <2>4. OwnerRemains' /\ DeletedIsEmpty'
    <3>1. CASE wsLock = c
      BY <1>0a, <1>7, <2>2, <2>3, <3>1 DEF Commit, Known, OwnerRemains, DeletedIsEmpty
    <3>2. CASE wsLock # c
      BY <1>0a, <1>7, <2>2, <2>3, <3>2 DEF Commit, Known, OwnerRemains, DeletedIsEmpty
    <3> QED
      BY <3>1, <3>2
  <2>5. wsLock' # c
    BY <1>0, <1>7, LocksReleased DEF Commit
  <2>6. Known(c)'
    BY <1>0b, <1>7, <2>5 DEF Commit, Known, Departing, Stages
  <2>7. \A d \in Calls : Known(d)'
    BY <1>0, <1>7, <2>6, OthersRest DEF Commit, Stages
  <2> QED
    BY <2>4, <2>7 DEF SafeInv
<1>8. ASSUME NEW c \in Calls, UpsertMember(c) PROVE SafeInv'
  <2>0. target(c) \in Users /\ input[c].role \in Roles
    BY <1>0, <1>8, InputFields DEF UpsertMember, Matched
  <2>1. PICK s \in {"added", "failed"} : Goto(c, s)
    BY <1>8 DEF UpsertMember
  <2>2. Known(c)'
    BY <1>0b, <1>0c, <1>8, <2>1 DEF UpsertMember, Known, Departing, Stages
  <2>3. \A d \in Calls : Known(d)'
    BY <1>0, <1>8, <2>1, <2>2, OthersRest DEF UpsertMember, Stages
  <2>4. CASE UNCHANGED role
    BY <1>0, <1>8, <2>1, <2>2, <2>4, MembersAlone DEF UpsertMember, Stages
  <2>5. CASE role' = [role EXCEPT ![target(c)] = input[c].role]
    <3>1. ~deleted /\ Owners # {}
      BY <1>0a, <1>8 DEF UpsertMember, Known, SafeInv, OwnerRemains, DeletedIsEmpty
    <3>2. PICK o \in Users : role[o] = "OWNER"
      BY <3>1 DEF Owners
    <3>3. role'[o] = "OWNER"
      BY <1>0, <1>8, <2>0, <2>5, <3>2 DEF UpsertMember, Orderly, TypeOK
    <3>4. Owners' # {} /\ ~deleted'
      BY <1>8, <3>1, <3>2, <3>3 DEF UpsertMember, Owners
    <3> QED
      BY <2>3, <3>4 DEF SafeInv, OwnerRemains, DeletedIsEmpty
  <2> QED
    BY <1>8, <2>4, <2>5 DEF UpsertMember
<1>9. ASSUME NEW c \in Calls, SoftDelete(c) PROVE SafeInv'
  <2>1. Members' = Members /\ target(c)' = target(c)
    BY <1>9 DEF SoftDelete, Members, target
  <2>2. Known(c)'
    BY <1>0a, <1>0b, <1>9, <2>1 DEF SoftDelete, Known, Departing, Stages
  <2> QED
    BY <1>0, <1>9, <2>2, MembersAlone DEF SoftDelete, Stages
<1>10. ASSUME NEW c \in Calls, DeleteRow(c) PROVE SafeInv'
  <2>0. target(c) \in Users /\ role[target(c)] # "NONE"
    BY <1>0a, <1>0d, <1>10 DEF DeleteRow, Known, Departing, Stages
  <2>1. Members' = Members /\ Owners' = Owners /\ target(c)' = target(c)
    BY <1>10 DEF DeleteRow, Members, Owners, target
  <2>2. rowLock'[target(c)] = c
    BY <1>0, <1>10, <2>0 DEF DeleteRow, TypeOK
  <2>3. Known(c)'
    BY <1>0a, <1>0b, <1>10, <2>0, <2>1, <2>2 DEF DeleteRow, Known, Departing, Stages
  <2> QED
    BY <1>0, <1>10, <2>3, MembersAlone DEF DeleteRow, Stages
<1>11. ASSUME NEW c \in Calls, Abort(c) PROVE SafeInv'
  <2>1. wsLock' # c
    BY <1>0, <1>11, LocksReleased DEF Abort
  <2>2. Known(c)'
    BY <1>0b, <1>11, <2>1 DEF Abort, Known, Departing, Stages
  <2> QED
    BY <1>0, <1>11, <2>2, MembersAlone DEF Abort, Stages
<1>12. CASE UNCHANGED vars
  BY <1>12 DEF vars, SafeInv, Known, OwnerRemains, DeletedIsEmpty, Members, Owners, target
<1> QED
  BY <1>1, <1>2, <1>3, <1>4, <1>5, <1>6, <1>7, <1>8, <1>9, <1>10, <1>11, <1>12
  DEF Next, Step, Locking

LEMMA SafeInit ==
    ASSUME Init
    PROVE  SafeInv
<1>1. PICK u \in Users : role = [v \in Users |-> IF v = u THEN "OWNER" ELSE "NONE"]
  BY DEF Init
<1>2. Owners # {} /\ ~deleted
  BY <1>1 DEF Init, Owners
<1>3. \A c \in Calls : pc[c] = "idle" /\ wsLock # c
  BY WorkspaceAssumption DEF Init
<1> QED
  BY <1>2, <1>3 DEF SafeInv, OwnerRemains, DeletedIsEmpty, Known, Departing, Stages

\* Whatever users and calls there are: as long as no two calls overlap and no owner is
\* about to get a lower role, a workspace with members keeps an owner, and a deleted one
\* has no members, whichever statements fail (repository.go:139-152).
THEOREM OrderlyCallsAreSafe == Spec => OrderlyIsSafe
<1>1. Init => SafeInv
  BY SafeInit
<1>2. WorkspaceInv /\ WorkspaceInv' /\ Orderly /\ Orderly' /\ SafeInv /\ [Next]_vars => SafeInv'
  BY SafeStep
<1>3. SafeInv => OwnerRemains /\ DeletedIsEmpty
  BY DEF SafeInv
<1> QED
  BY <1>1, <1>2, <1>3, WorkspaceInvariance, PTL DEF Spec, OrderlyIsSafe


-----------------------------------------------------------------------------

\* c's next statement waits for the end of d's transaction: for the row of c's target, or
\* for the row of the workspace.
WaitsFor(c, d) ==
    /\ d # c
    /\ \/ pc[c] \in {"permitted", "deleting"} /\ rowLock[target(c)] = d
       \/ pc[c] = "emptying" /\ wsLock = d

\* In every set of calls there is one that waits for none of the others.
NoCircularWait ==
    \A S \in SUBSET Calls : S # {} => \E c \in S : \A d \in S : ~WaitsFor(c, d)

\* Whoever waits, waits for a transaction that is further on: the row of the workspace
\* comes before the row of the member.
LEMMA WaitsForward ==
    ASSUME WorkspaceInv, NEW c \in Calls, NEW d \in Calls, WaitsFor(c, d)
    PROVE  \/ pc[c] = "emptying" /\ pc[d] \in {"deleting", "removed"}
           \/ pc[c] \in {"permitted", "deleting"} /\ pc[d] = "removed"
<1>1. d # NoCall
  BY WorkspaceAssumption
<1>2. CASE pc[c] = "emptying" /\ wsLock = d
  BY <1>1, <1>2 DEF WorkspaceInv, WellFormed
<1>3. CASE pc[c] \in {"permitted", "deleting"} /\ rowLock[target(c)] = d
  <2>1. input[c].op \in {"add", "leave"}
    BY <1>3 DEF WorkspaceInv, Matched, Departing, Stages
  <2>2. target(c) \in Users
    BY <2>1, InputFields DEF WorkspaceInv, WellFormed
  <2> QED
    BY <1>1, <1>3, <2>2 DEF WorkspaceInv, WellFormed
<1> QED
  BY <1>2, <1>3 DEF WaitsFor

\* No set of calls, however large, waits in a circle for the rows that they delete: a
\* departure takes the row of the workspace before its own, and needs nothing after that
\* (repository.go:89-160).
THEOREM NobodyWaitsInACircle == Spec => []NoCircularWait
<1>1. ASSUME WorkspaceInv PROVE NoCircularWait
  <2> SUFFICES ASSUME NEW S \in SUBSET Calls, S # {}
               PROVE  \E c \in S : \A d \in S : ~WaitsFor(c, d)
    BY DEF NoCircularWait
  <2>1. CASE \E c \in S : pc[c] \notin {"emptying", "permitted", "deleting"}
    BY <1>1, <2>1, WaitsForward
  <2>2. CASE /\ \A c \in S : pc[c] \in {"emptying", "permitted", "deleting"}
             /\ \E c \in S : pc[c] \in {"permitted", "deleting"}
    BY <1>1, <2>2, WaitsForward
  <2>3. CASE \A c \in S : pc[c] = "emptying"
    BY <1>1, <2>3, WaitsForward
  <2> QED
    BY <2>1, <2>2, <2>3
<1> QED
  BY WorkspaceInvariance, <1>1, PTL
=============================================================================
