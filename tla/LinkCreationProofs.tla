------------------------ MODULE LinkCreationProofs ------------------------
(***************************************************************************)
(* Theorems about LinkCreation, for any number of users, slugs, requests,  *)
(* plans and any limit.                                                    *)
(***************************************************************************)
EXTENDS LinkCreation, FiniteSetTheorems, TLAPS

\* What the type of a request's input says of its fields.
LEMMA InputFields ==
    ASSUME TypeOK, NEW r \in Requests
    PROVE  user(r) \in Users /\ input[r].alias \in Slugs \cup {NoSlug}
BY LinkCreationAssumption DEF TypeOK, Input, user

\* Every variable keeps its type.  A commit needs the slug to be chosen.
LEMMA TypeStep ==
    ASSUME TypeOK, SlugsReserved, [Next]_vars
    PROVE  TypeOK'
<1> USE LinkCreationAssumption DEF TypeOK, Working, Preparing, InTx, Answers, Statements, Goto, user
<1>1. ASSUME NEW r \in Requests, Authenticate(r) PROVE TypeOK'
  BY <1>1, InputFields DEF Authenticate, database, Usage
<1>2. ASSUME NEW r \in Requests, Validate(r) PROVE TypeOK'
  BY <1>2 DEF Validate, database
<1>3. ASSUME NEW r \in Requests, ResolveSlug(r) PROVE TypeOK'
  BY <1>3, InputFields DEF ResolveSlug, database
<1>4. ASSUME NEW r \in Requests, LockUsage(r) PROVE TypeOK'
  BY <1>4 DEF LockUsage
<1>5. ASSUME NEW r \in Requests, InsertLink(r) PROVE TypeOK'
  BY <1>5 DEF InsertLink, Rollback, Unlock
<1>6. ASSUME NEW r \in Requests, InsertCampaign(r) PROVE TypeOK'
  BY <1>6 DEF InsertCampaign
<1>7. ASSUME NEW r \in Requests, CountLink(r) PROVE TypeOK'
  BY <1>7 DEF CountLink
<1>8. ASSUME NEW r \in Requests, Commit(r) PROVE TypeOK'
  <2>1. LinkRow(r) \in Link
    BY <1>8, InputFields DEF Commit, SlugsReserved, LinkRow, Link
  <2>2. links' \subseteq Link /\ campaigns' \subseteq Requests
    BY <1>8, <2>1 DEF Commit, Apply
  <2>3. usage' \in [Users -> Usage]
    BY <1>8, InputFields, SMTT(30) DEF Commit, Apply, Usage
  <2> QED
    BY <1>8, <2>2, <2>3 DEF Commit, Unlock
<1>9. ASSUME NEW r \in Requests, Acknowledge(r) PROVE TypeOK'
  BY <1>9 DEF Acknowledge, database
<1>10. ASSUME NEW r \in Requests, Abort(r) PROVE TypeOK'
  BY <1>10 DEF Abort, Rollback, Unlock
<1>11. ASSUME NEW u \in Users, NEW p \in Plans, ChangePlan(u, p) PROVE TypeOK'
  BY <1>11 DEF ChangePlan, Usage
<1>12. ASSUME Crash PROVE TypeOK'
  BY <1>12 DEF Crash
<1>13. ASSUME UNCHANGED vars PROVE TypeOK'
  BY <1>13 DEF vars
<1> QED
  BY <1>1, <1>2, <1>3, <1>4, <1>5, <1>6, <1>7, <1>8, <1>9, <1>10, <1>11, <1>12, <1>13
  DEF Next, Handle, Step

-----------------------------------------------------------------------------

\* The part of the invariant about locks, open transactions and pending slugs.
TxInv == TypeOK /\ LocksHeld /\ RoomKept /\ WritesMatch /\ SlugsReserved

\* The part about the committed tables.
TableInv ==
    /\ RowsMatch
    /\ IsFiniteSet(links)
    /\ QuotaExact
    /\ SlugUnique
    /\ \A r \in Requests : pc[r] \in {"committed", "created"} => Stored(r)

\* Leaving the transaction and releasing its lock go together.
LEMMA UnlockStep ==
    ASSUME TypeOK, LocksHeld, NEW r \in Requests, NEW stage, stage \notin InTx,
           Goto(r, stage), Unlock(r), UNCHANGED input
    PROVE  LocksHeld'
<1> USE LinkCreationAssumption, InputFields DEF TypeOK, LocksHeld, Goto, Unlock, user
<1>1. ASSUME NEW q \in Requests, pc'[q] \in InTx PROVE rowLock'[user(q)] = q
  BY <1>1
<1>2. ASSUME NEW u \in Users, NEW q \in Requests, rowLock'[u] = q
      PROVE  pc'[q] \in InTx /\ user(q) = u
  BY <1>2
<1> QED
  BY <1>1, <1>2 DEF InTx

\* A rollback from any stage of the transaction, or before it, keeps that part.
LEMMA RollbackStep ==
    ASSUME TxInv, TypeOK', NEW r \in Requests, pc[r] \in InTx \cup {"resolved"},
           Rollback(r, "failed"), UNCHANGED <<input, plan, slug>>
    PROVE  TxInv'
<1> USE DEF TxInv, TypeOK, Rollback, Goto, user, InTx
<1>1. LocksHeld'
  BY UnlockStep
<1>2. RoomKept'
  BY DEF RoomKept, HasRoom
<1>3. WritesMatch'
  BY DEF WritesMatch
<1>4. SlugsReserved'
  BY DEF SlugsReserved, SlugTaken, SlugPending
<1> QED
  BY <1>1, <1>2, <1>3, <1>4

LEMMA TxStep ==
    ASSUME TxInv, [Next]_vars
    PROVE  TxInv'
<1> USE LinkCreationAssumption
    DEF TxInv, LocksHeld, RoomKept, WritesMatch, SlugsReserved, TypeOK, Working,
        Preparing, InTx, Answers, Statements, Goto, user, HasRoom, SlugTaken, SlugPending
<1>0. TypeOK'
  BY TypeStep
<1>1. ASSUME NEW r \in Requests, Authenticate(r) PROVE TxInv'
  BY <1>0, <1>1 DEF Authenticate, database
<1>2. ASSUME NEW r \in Requests, Validate(r) PROVE TxInv'
  BY <1>0, <1>2 DEF Validate, database
<1>3. ASSUME NEW r \in Requests, ResolveSlug(r) PROVE TxInv'
  BY <1>0, <1>3, InputFields DEF ResolveSlug, database
<1>4. ASSUME NEW r \in Requests, LockUsage(r) PROVE TxInv'
  BY <1>0, <1>4, InputFields DEF LockUsage
<1>5. ASSUME NEW r \in Requests, InsertLink(r) PROVE TxInv'
  <2>1. CASE ~SlugTaken(slug[r]) /\ Goto(r, "inserted") /\ UNCHANGED rowLock
    BY <1>0, <1>5, <2>1 DEF InsertLink, Rollback
  <2>2. CASE Rollback(r, "failed")
    BY <1>0, <1>5, <2>2, RollbackStep DEF InsertLink
  <2> QED
    BY <1>5, <2>1, <2>2 DEF InsertLink
<1>6. ASSUME NEW r \in Requests, InsertCampaign(r) PROVE TxInv'
  BY <1>0, <1>6 DEF InsertCampaign
<1>7. ASSUME NEW r \in Requests, CountLink(r) PROVE TxInv'
  BY <1>0, <1>7 DEF CountLink
<1>8. ASSUME NEW r \in Requests, Commit(r) PROVE TxInv'
  <2>1. LocksHeld'
    BY <1>8, UnlockStep DEF Commit
  <2>2. RoomKept'
    <3> SUFFICES ASSUME NEW q \in Requests, pc'[q] \in InTx PROVE HasRoom(user(q))'
      OBVIOUS
    <3>1. q # r /\ user(q) # user(r)
      BY <1>8 DEF Commit
    <3> QED
      BY <1>8, <3>1, InputFields DEF Commit, Apply
  <2>3. WritesMatch'
    BY <1>0, <1>8 DEF Commit
  <2>4. SlugsReserved'
    <3>1. ASSUME NEW q \in Requests, "link" \in writes'[q]
          PROVE  (~SlugTaken(slug[q]) /\ ~SlugPending(q, slug[q]))'
      <4>1. q # r /\ "link" \in writes[q] /\ "link" \in writes[r]
        BY <1>8, <3>1 DEF Commit
      <4>2. slug[q] # slug[r]
        BY <4>1
      <4>3. (~SlugTaken(slug[q]))'
        BY <1>8, <4>1, <4>2 DEF Commit, Apply, LinkRow
      <4>4. (~SlugPending(q, slug[q]))'
        BY <1>8, <4>1 DEF Commit
      <4> QED
        BY <4>3, <4>4
    <3> QED
      BY <1>0, <1>8, <3>1 DEF Commit
  <2> QED
    BY <1>0, <2>1, <2>2, <2>3, <2>4
<1>9. ASSUME NEW r \in Requests, Acknowledge(r) PROVE TxInv'
  BY <1>0, <1>9 DEF Acknowledge, database
<1>10. ASSUME NEW r \in Requests, Abort(r) PROVE TxInv'
  BY <1>0, <1>10, RollbackStep DEF Abort
<1>11. ASSUME NEW u \in Users, NEW p \in Plans, ChangePlan(u, p) PROVE TxInv'
  BY <1>0, <1>11 DEF ChangePlan
<1>12. ASSUME Crash PROVE TxInv'
  BY <1>0, <1>12 DEF Crash
<1>13. ASSUME UNCHANGED vars PROVE TxInv'
  BY <1>0, <1>13 DEF vars
<1> QED
  BY <1>1, <1>2, <1>3, <1>4, <1>5, <1>6, <1>7, <1>8, <1>9, <1>10, <1>11, <1>12, <1>13
  DEF Next, Handle, Step
-----------------------------------------------------------------------------

\* A step other than a commit leaves the tables' part of the invariant alone, because
\* it neither writes a table nor revises the slug of a stored link.
LEMMA QuietStep ==
    ASSUME TypeOK, TableInv,
           UNCHANGED <<input, links, campaigns>>,
           \A u \in Users : usage'[u].count = usage[u].count,
           \A r \in Requests : slug'[r] = slug[r] \/ Absent(r),
           \A r \in Requests : pc[r] \in {"committed", "created", "failed", "lost"}
                                => pc'[r] \in {"committed", "created", "failed", "lost"},
           \A r \in Requests : pc'[r] \in {"committed", "created"}
                                => pc[r] \in {"committed", "created"}
    PROVE  TableInv'
<1> USE DEF TableInv
<1>1. ASSUME NEW r \in Requests, Absent(r) PROVE Absent(r)'
  BY <1>1 DEF Absent
<1>2. ASSUME NEW r \in Requests, ~Absent(r) PROVE LinkRow(r)' = LinkRow(r)
  BY <1>2 DEF LinkRow, user
<1>3. RowsMatch'
  BY <1>1, <1>2 DEF RowsMatch, Stored
<1>4. QuotaExact'
  BY DEF QuotaExact, LinksOf
<1>5. ASSUME NEW r \in Requests, pc'[r] \in {"committed", "created"} PROVE Stored(r)'
  <2>1. Stored(r)
    BY <1>5
  <2>2. ~Absent(r)
    BY <2>1 DEF Stored, Absent, LinkRow
  <2> QED
    BY <2>1, <2>2, <1>2 DEF Stored
<1> QED
  BY <1>3, <1>4, <1>5 DEF SlugUnique

\* A commit adds one link to its owner and to nobody else.
LEMMA CommitStep ==
    ASSUME TxInv, TableInv, NEW r \in Requests, Commit(r)
    PROVE  TableInv'
<1> USE DEF TxInv, TableInv
<1>1. /\ pc[r] = "counted"
      /\ Absent(r)
      /\ links' = links \cup {LinkRow(r)}
      /\ r \in campaigns' <=> input[r].utm
      /\ campaigns' \in {campaigns, campaigns \cup {r}}
      /\ usage' = [usage EXCEPT ![user(r)].count = @ + 1]
      /\ pc' = [pc EXCEPT ![r] = "committed"]
      /\ UNCHANGED <<input, slug>>
  BY DEF Commit, Apply, Goto, WritesMatch, RowsMatch, Absent
<1>2. LinkRow(r) \notin links /\ LinkRow(r)' = LinkRow(r)
  BY <1>1 DEF Absent, LinkRow, user
<1>3. ASSUME NEW q \in Requests, q # r
      PROVE  /\ Absent(q) => Absent(q)'
             /\ Stored(q) => Stored(q)'
             /\ \A l \in links' : l.id = q => l \in links
             /\ LinkRow(q)' = LinkRow(q)
  BY <1>1, <1>3 DEF Absent, Stored, LinkRow, user
<1>4. Stored(r)' /\ \A l \in links' : l.id = r => l = LinkRow(r)'
  BY <1>1, <1>2 DEF Stored, Absent
<1>5. RowsMatch'
  BY <1>1, <1>3, <1>4 DEF RowsMatch, TypeOK
<1>6. IsFiniteSet(links')
  BY <1>1, FS_AddElement
<1>7. QuotaExact'
  <2> SUFFICES ASSUME NEW u \in Users PROVE usage'[u].count = Cardinality(LinksOf(u)')
    BY DEF QuotaExact
  <2>1. IsFiniteSet(LinksOf(u)) /\ usage[u].count = Cardinality(LinksOf(u))
    BY FS_Subset DEF LinksOf, QuotaExact
  <2>2. CASE u = user(r)
    <3>1. LinksOf(u)' = LinksOf(u) \cup {LinkRow(r)} /\ LinkRow(r) \notin LinksOf(u)
      BY <1>1, <1>2, <2>2 DEF LinksOf, LinkRow
    <3>2. Cardinality(LinksOf(u)') = Cardinality(LinksOf(u)) + 1
      BY <2>1, <3>1, FS_AddElement
    <3> QED
      BY <1>1, <2>1, <2>2, <3>2 DEF TypeOK, Usage
  <2>3. CASE u # user(r)
    <3>1. LinksOf(u)' = LinksOf(u)
      BY <1>1, <2>3 DEF LinksOf, LinkRow
    <3> QED
      BY <1>1, <2>1, <2>3, <3>1 DEF TypeOK, Usage
  <2> QED
    BY <2>2, <2>3
<1>8. SlugUnique'
  BY <1>1 DEF SlugUnique, WritesMatch, SlugsReserved, SlugTaken, LinkRow
<1>9. ASSUME NEW q \in Requests, pc'[q] \in {"committed", "created"} PROVE Stored(q)'
  BY <1>1, <1>3, <1>4, <1>9 DEF TypeOK
<1> QED
  BY <1>5, <1>6, <1>7, <1>8, <1>9

LEMMA TableStep ==
    ASSUME TxInv, TableInv, [Next]_vars
    PROVE  TableInv'
<1> USE DEF TxInv, TypeOK, Working, Preparing, InTx, Answers, Goto
<1>1. ASSUME NEW r \in Requests, Authenticate(r) PROVE TableInv'
  BY <1>1, QuietStep DEF Authenticate, database
<1>2. ASSUME NEW r \in Requests, Validate(r) PROVE TableInv'
  BY <1>2, QuietStep DEF Validate, database
<1>3. ASSUME NEW r \in Requests, ResolveSlug(r) PROVE TableInv'
  <2>1. Absent(r)
    BY <1>3 DEF TableInv, RowsMatch, ResolveSlug
  <2> QED
    BY <1>3, <2>1, QuietStep DEF ResolveSlug, database
<1>4. ASSUME NEW r \in Requests, LockUsage(r) PROVE TableInv'
  BY <1>4, QuietStep DEF LockUsage
<1>5. ASSUME NEW r \in Requests, InsertLink(r) PROVE TableInv'
  BY <1>5, QuietStep DEF InsertLink, Rollback
<1>6. ASSUME NEW r \in Requests, InsertCampaign(r) PROVE TableInv'
  BY <1>6, QuietStep DEF InsertCampaign
<1>7. ASSUME NEW r \in Requests, CountLink(r) PROVE TableInv'
  BY <1>7, QuietStep DEF CountLink
<1>8. ASSUME NEW r \in Requests, Commit(r) PROVE TableInv'
  BY <1>8, CommitStep
<1>9. ASSUME NEW r \in Requests, Acknowledge(r) PROVE TableInv'
  BY <1>9, QuietStep DEF Acknowledge, database
<1>10. ASSUME NEW r \in Requests, Abort(r) PROVE TableInv'
  BY <1>10, QuietStep DEF Abort, Rollback
<1>11. ASSUME NEW u \in Users, NEW p \in Plans, ChangePlan(u, p) PROVE TableInv'
  BY <1>11, QuietStep DEF ChangePlan, Usage
<1>12. ASSUME Crash PROVE TableInv'
  BY <1>12, QuietStep DEF Crash
<1>13. ASSUME UNCHANGED vars PROVE TableInv'
  BY <1>13, QuietStep DEF vars
<1> QED
  BY <1>1, <1>2, <1>3, <1>4, <1>5, <1>6, <1>7, <1>8, <1>9, <1>10, <1>11, <1>12, <1>13
  DEF Next, Handle, Step

-----------------------------------------------------------------------------

LEMMA InitInv ==
    ASSUME Init
    PROVE  IInv
<1> USE LinkCreationAssumption DEF Init
<1>1. TypeOK
  BY DEF TypeOK, Usage, Statements
<1>2. LocksHeld /\ RoomKept /\ WritesMatch /\ SlugsReserved
  BY DEF LocksHeld, RoomKept, WritesMatch, SlugsReserved, InTx
<1>3. RowsMatch /\ SlugUnique
  BY DEF RowsMatch, Absent, SlugUnique
<1>4. \A u \in Users : LinksOf(u) = {} /\ usage[u].count = 0
  BY DEF LinksOf
<1>5. QuotaExact
  BY <1>4, FS_EmptySet DEF QuotaExact
<1> QED
  BY <1>1, <1>2, <1>3, <1>5, FS_EmptySet DEF IInv

\* The inductive invariant holds in every reachable state.
THEOREM Invariance == Spec => []IInv
<1>1. IInv /\ [Next]_vars => IInv'
  BY TxStep, TableStep DEF IInv, TxInv, TableInv
<1> QED
  BY InitInv, <1>1, PTL DEF Spec

\* The counter of plan_usage equals the number of the user's rows in links, for any
\* number of concurrent requests, failures and crashes.
THEOREM QuotaIsExact == Spec => []QuotaExact
<1>1. IInv => QuotaExact
  BY DEF IInv
<1> QED
  BY Invariance, <1>1, PTL

\* Slugs stay unique although their availability is checked without a lock.
THEOREM SlugsAreUnique == Spec => []SlugUnique
<1>1. IInv => SlugUnique
  BY DEF IInv
<1> QED
  BY Invariance, <1>1, PTL

\* Answers tell the truth about the tables.
THEOREM AnswersAreTruthful == Spec => []AnswerTruthful
<1>1. IInv => AnswerTruthful
  BY DEF IInv, RowsMatch, AnswerTruthful
<1> QED
  BY Invariance, <1>1, PTL

\* While the plan is FREE no commit takes the counter over the limit: the room seen
\* under the row lock is still there at the commit.
THEOREM FreeQuotaIsRespected == Spec => FreeQuotaRespected
<1> DEFINE Within == \A u \in Users :
        usage'[u].count > usage[u].count /\ usage[u].plan = "FREE"
            => usage'[u].count <= FreeLimit
<1>1. ASSUME IInv, [Next]_vars PROVE [Within]_vars
  <2> USE LinkCreationAssumption, <1>1 DEF IInv, TypeOK, Usage
  <2>1. \A u \in Users : ~(usage[u].count > usage[u].count)
    OBVIOUS
  <2>2. ASSUME NEW r \in Requests, Commit(r) PROVE Within
    <3>1. HasRoom(user(r)) /\ user(r) \in Users
      BY <2>2, InputFields DEF Commit, RoomKept, InTx
    <3> QED
      BY <2>2, <3>1 DEF Commit, Apply, HasRoom
  <2>3. ASSUME NEW u \in Users, NEW p \in Plans, ChangePlan(u, p) PROVE Within
    BY <2>3 DEF ChangePlan
  <2>4. CASE UNCHANGED usage
    BY <2>1, <2>4
  <2> QED
    BY <2>2, <2>3, <2>4 DEF Next, Handle, Step, Crash, Authenticate, Validate, ResolveSlug,
       LockUsage, InsertLink, InsertCampaign, CountLink, Acknowledge, Abort, Rollback,
       database, vars
<1> QED
  BY Invariance, <1>1, PTL DEF Spec, FreeQuotaRespected

-----------------------------------------------------------------------------

\* The handlers implement the one-step specification: a commit is LinkQuota's AddLink,
\* an operator's change is its ChangePlan, everything else stutters.
LEMMA RefinesInit == Init => Quota!Init
BY DEF Init, Quota!Init, JoinedLinks

LEMMA RefinesCommit ==
    ASSUME IInv, NEW r \in Requests, Commit(r)
    PROVE  Quota!Next
<1> USE DEF IInv
<1>1. /\ links' = links \cup {LinkRow(r)}
      /\ Absent(r)
      /\ campaigns' \in {campaigns, campaigns \cup {r}}
      /\ usage' = [usage EXCEPT ![user(r)].count = @ + 1]
      /\ ~SlugTaken(slug[r])
  BY DEF Commit, Apply, WritesMatch, RowsMatch, SlugsReserved, Absent
<1>2. HasRoom(user(r)) /\ user(r) \in Users /\ slug[r] \in Slugs
  BY InputFields DEF Commit, RoomKept, SlugsReserved, InTx
<1> DEFINE Row(l) == [id |-> l.id, owner |-> l.owner, slug |-> l.slug,
                      tagged |-> l.id \in campaigns]
           Next1(l) == [id |-> l.id, owner |-> l.owner, slug |-> l.slug,
                        tagged |-> l.id \in campaigns']
           New == [id |-> r, owner |-> user(r), slug |-> slug[r], tagged |-> r \in campaigns']
<1>3. \A l \in links : l.id # r /\ (l.id \in campaigns' <=> l.id \in campaigns)
  BY <1>1 DEF Absent
<1>4. \A l \in links : Next1(l) = Row(l)
  BY <1>3
<1>5. Next1(LinkRow(r)) = New
  BY DEF LinkRow
<1>6. JoinedLinks = {Row(l) : l \in links} /\ JoinedLinks' = {Next1(l) : l \in links'}
  BY DEF JoinedLinks
<1>7. \A l \in links : Row(l).id = l.id /\ Row(l).slug = l.slug
  OBVIOUS
<1>8. New = [id |-> r, owner |-> user(r), slug |-> slug[r], tagged |-> r \in campaigns']
  OBVIOUS
<1> HIDE DEF Row, Next1, New
<1>9. JoinedLinks' = JoinedLinks \cup {New}
  BY <1>1, <1>4, <1>5, <1>6
<1>10. \A k \in JoinedLinks : k.id # r /\ k.slug # slug[r]
  BY <1>1, <1>3, <1>6, <1>7 DEF SlugTaken
<1>11. Quota!AddLink(r, user(r), slug[r], r \in campaigns')
  BY <1>1, <1>2, <1>8, <1>9, <1>10 DEF Quota!AddLink, Quota!HasRoom, HasRoom
<1>12. (r \in campaigns') \in BOOLEAN
  OBVIOUS
<1> QED
  BY <1>2, <1>11, <1>12, Zenon DEF Quota!Next

\* LinkCreation implements LinkQuota.
THEOREM Implementation == Spec => ImplementsQuota
<1>1. ASSUME IInv, [Next]_vars PROVE [Quota!Next]_Quota!vars
  <2>1. ASSUME NEW r \in Requests, Commit(r) PROVE Quota!Next
    BY <1>1, <2>1, RefinesCommit
  <2>2. ASSUME NEW u \in Users, NEW p \in Plans, ChangePlan(u, p) PROVE Quota!Next
    BY <2>2 DEF ChangePlan, Quota!Next, Quota!ChangePlan, JoinedLinks
  <2>3. CASE UNCHANGED <<links, campaigns, usage>>
    BY <2>3 DEF Quota!vars, JoinedLinks
  <2> QED
    BY <1>1, <2>1, <2>2, <2>3 DEF Next, Handle, Step, Crash, Authenticate, Validate,
       ResolveSlug, LockUsage, InsertLink, InsertCampaign, CountLink, Acknowledge, Abort,
       Rollback, database, vars
<1> QED
  BY RefinesInit, Invariance, <1>1, PTL DEF Spec, ImplementsQuota, Quota!Spec

-----------------------------------------------------------------------------

\* The gates a request has passed, and those a stored link has passed.
Gated(r) == DomainAllowed(r) /\ ExpiryAllowed(r)
Named(r) == input[r].alias # NoSlug => slug[r] = input[r].alias /\ plan[r] # "FREE"

FeatureInv ==
    \A r \in Requests :
        /\ pc[r] \in InTx \cup {"permitted", "resolved"} \/ ~Absent(r) => Gated(r)
        /\ pc[r] \in InTx \cup {"resolved"} \/ ~Absent(r) => Named(r)

\* Aliases, expiry dates and custom domains are stored only for requests whose
\* authenticated plan includes them.
THEOREM PaidFeaturesAreGated == Spec => []PaidFeaturesOnly
<1>1. Init => FeatureInv
  BY DEF Init, FeatureInv, Absent, InTx
<1>2. ASSUME IInv, FeatureInv, [Next]_vars PROVE FeatureInv'
  <2> USE <1>2 DEF IInv, TypeOK, FeatureInv, Gated, Named, DomainAllowed, ExpiryAllowed,
          Goto, InTx
  <2>1. ASSUME NEW r \in Requests, Authenticate(r) PROVE FeatureInv'
    BY <2>1 DEF Authenticate, database, RowsMatch, Absent
  <2>2. ASSUME NEW r \in Requests, Validate(r) PROVE FeatureInv'
    BY <2>2 DEF Validate, database, Absent
  <2>3. ASSUME NEW r \in Requests, ResolveSlug(r) PROVE FeatureInv'
    BY <2>3 DEF ResolveSlug, database, RowsMatch, Absent
  <2>4. ASSUME NEW r \in Requests, LockUsage(r) PROVE FeatureInv'
    BY <2>4 DEF LockUsage, Absent
  <2>5. ASSUME NEW r \in Requests, InsertLink(r) PROVE FeatureInv'
    BY <2>5 DEF InsertLink, Rollback, Absent
  <2>6. ASSUME NEW r \in Requests, InsertCampaign(r) \/ CountLink(r) PROVE FeatureInv'
    BY <2>6 DEF InsertCampaign, CountLink, Absent
  <2>7. ASSUME NEW r \in Requests, Commit(r) PROVE FeatureInv'
    BY <2>7 DEF Commit, Apply, LinkRow, Absent
  <2>8. ASSUME NEW r \in Requests, Acknowledge(r) \/ Abort(r) PROVE FeatureInv'
    BY <2>8 DEF Acknowledge, Abort, Rollback, database, Absent
  <2>9. ASSUME Crash \/ UNCHANGED vars \/ \E u \in Users, p \in Plans : ChangePlan(u, p)
        PROVE FeatureInv'
    BY <2>9 DEF Crash, vars, ChangePlan, Absent, Working
  <2> QED
    BY <2>1, <2>2, <2>3, <2>4, <2>5, <2>6, <2>7, <2>8, <2>9 DEF Next, Handle, Step
<1>3. ASSUME IInv, FeatureInv PROVE PaidFeaturesOnly
  <2> SUFFICES ASSUME NEW l \in links PROVE
        /\ l.slug = input[l.id].alias \/ input[l.id].alias = NoSlug
        /\ plan[l.id] = "FREE" => input[l.id].alias = NoSlug /\ ~input[l.id].expiry
        /\ plan[l.id] # "BUSINESS" => ~input[l.id].domain
    BY DEF PaidFeaturesOnly
  <2>1. l.id \in Requests /\ ~Absent(l.id)
    BY <1>3 DEF IInv, TypeOK, Link, Absent
  <2>2. l = LinkRow(l.id)
    BY <1>3, <2>1 DEF IInv, RowsMatch
  <2>3. l.slug = slug[l.id]
    BY <2>2 DEF LinkRow
  <2> QED
    BY <1>3, <2>1, <2>3 DEF FeatureInv, Gated, Named, DomainAllowed, ExpiryAllowed
<1> QED
  BY Invariance, <1>1, <1>2, <1>3, PTL DEF Spec

-----------------------------------------------------------------------------

\* r's next statement waits for the end of q's transaction: for the row of r's user, in the
\* SELECT or in the UPDATE, or for the slug that q has inserted.
WaitsFor(r, q) ==
    /\ q # r
    /\ \/ pc[r] \in {"resolved", "tagged"} /\ rowLock[user(r)] = q
       \/ pc[r] = "locked" /\ "link" \in writes[q] /\ slug[q] = slug[r]

\* In every set of requests there is one that waits for none of the others.
NoCircularWait ==
    \A S \in SUBSET Requests : S # {} => \E r \in S : \A q \in S : ~WaitsFor(r, q)

\* Whoever waits, waits for a transaction that is further on: the row of a user comes
\* before the slug, and the second use of the row never waits.
LEMMA WaitsForward ==
    ASSUME IInv, NEW r \in Requests, NEW q \in Requests, WaitsFor(r, q)
    PROVE  \/ pc[r] = "resolved" /\ pc[q] \in InTx
           \/ pc[r] = "locked" /\ pc[q] \in {"inserted", "tagged", "counted"}
<1>1. CASE pc[r] = "tagged" /\ rowLock[user(r)] = q
  BY <1>1 DEF WaitsFor, IInv, LocksHeld, InTx
<1>2. CASE pc[r] = "resolved" /\ rowLock[user(r)] = q
  <2>1. user(r) \in Users
    BY InputFields DEF IInv
  <2> QED
    BY <1>2, <2>1 DEF IInv, LocksHeld
<1>3. CASE pc[r] = "locked" /\ "link" \in writes[q]
  BY <1>3 DEF IInv, WritesMatch
<1> QED
  BY <1>1, <1>2, <1>3 DEF WaitsFor

\* No set of concurrent creations, however large and whatever slugs they want, waits in a
\* circle: a transaction locks its user's row before it inserts its slug, and after that
\* needs nothing that another one has (repository.go:35-82).
THEOREM NobodyWaitsInACircle == Spec => []NoCircularWait
<1>1. ASSUME IInv PROVE NoCircularWait
  <2> SUFFICES ASSUME NEW S \in SUBSET Requests, S # {}
               PROVE  \E r \in S : \A q \in S : ~WaitsFor(r, q)
    BY DEF NoCircularWait
  <2>1. CASE \E r \in S : pc[r] \notin {"resolved", "locked"}
    BY <1>1, <2>1, WaitsForward
  <2>2. CASE /\ \A r \in S : pc[r] \in {"resolved", "locked"}
             /\ \E r \in S : pc[r] = "locked"
    BY <1>1, <2>2, WaitsForward
  <2>3. CASE \A r \in S : pc[r] = "resolved"
    BY <1>1, <2>3, WaitsForward DEF InTx
  <2> QED
    BY <2>1, <2>2, <2>3
<1> QED
  BY Invariance, <1>1, PTL
=============================================================================
