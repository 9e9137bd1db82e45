--------------------------- MODULE BioPagesProofs ---------------------------
(***************************************************************************)
(* Theorems about BioPages, for any number of users, links, requests and   *)
(* plans.                                                                  *)
(***************************************************************************)
EXTENDS BioPages, TLAPS

\* Stages in which an uncommitted row holds its slug.
Holding == {"inserted", "entered", "shared"}

\* A user's row is locked by exactly the FREE transaction of that user that runs, and no
\* statement on the other path has the row's shared lock meanwhile.
LocksHeld ==
    /\ \A u \in Users, r \in Requests :
        ownerLock[u] = r <=> pc[r] \in FreeTx /\ user(r) = u
    /\ \A r \in Requests : pc[r] = "shared" => ownerLock[user(r)] = None

\* The slug of an uncommitted row is its own.
SlugsHeld ==
    \A r \in Requests : pc[r] \in Holding => ~SlugTaken(r) /\ SlugHolders(r) = {}

\* A page is committed by its own request.
PagesStored ==
    /\ \A p \in pages : pc[p] \in {"stored", "created", "failed"}
    /\ \A r \in Requests : pc[r] = "stored" => r \in pages

\* What a handler has found out is still so: no page of a FREE user has appeared since
\* they were counted; a page stays, and stays with its owner.
FindingsHold ==
    /\ \A r \in Requests : pc[r] \in {"counted", "inserted"} => PagesOf(user(r)) = {}
    /\ \A r \in Requests :
        pc[r] = "mine" => input[r].page \in pages /\ user(input[r].page) = user(r)

OpsMatch == \A r \in Requests : pc[r] \in {"attaching", "mine"} => ~Creating(r)

BioInv == WellFormed /\ LocksHeld /\ SlugsHeld /\ PagesStored /\ FindingsHold /\ OpsMatch

-----------------------------------------------------------------------------

\* What the type of a request's input says of its fields.
LEMMA InputFields ==
    ASSUME TypeOK, NEW r \in Requests
    PROVE  /\ user(r) \in Users
           /\ ~Creating(r) => input[r].page \in Requests /\ input[r].link \in Links
<1>1. input[r] \in Input
  BY BioPagesAssumption DEF TypeOK
<1> QED
  BY <1>1 DEF Input, Creating, user

LEMMA TypeStep ==
    ASSUME TypeOK, OpsMatch, [Next]_vars
    PROVE  TypeOK'
<1> USE BioPagesAssumption
    DEF TypeOK, FreeTx, PaidTx, Working, Answers, Goto, Rollback, Unlock
<1>1. ASSUME NEW r \in Requests, Authenticate(r) PROVE TypeOK'
  <2>1. pc' \in [Requests -> {"idle"} \cup Working \cup Answers]
    BY <1>1 DEF Authenticate
  <2> QED
    BY <1>1, <2>1 DEF Authenticate
<1>2. ASSUME NEW r \in Requests, LockOwner(r) PROVE TypeOK'
  BY <1>2 DEF LockOwner
<1>3. ASSUME NEW r \in Requests, CountPages(r) \/ InsertPage(r) PROVE TypeOK'
  <2>1. pc' \in [Requests -> {"idle"} \cup Working \cup Answers]
    BY <1>3 DEF CountPages, InsertPage
  <2>2. ownerLock' \in [Users -> Requests \cup {None}]
    BY <1>3 DEF CountPages, InsertPage
  <2> QED
    BY <1>3, <2>1, <2>2 DEF CountPages, InsertPage
<1>4. ASSUME NEW r \in Requests, CommitPage(r) \/ StorePage(r) PROVE TypeOK'
  <2>1. ownerLock' \in [Users -> Requests \cup {None}]
    BY <1>4 DEF CommitPage, StorePage
  <2> QED
    BY <1>4, <2>1 DEF CommitPage, StorePage
<1>5. ASSUME NEW r \in Requests, EnterPage(r) \/ ShareOwner(r) \/ Acknowledge(r) PROVE TypeOK'
  <2>1. pc' \in [Requests -> {"idle"} \cup Working \cup Answers]
    BY <1>5 DEF EnterPage, ShareOwner, Acknowledge
  <2> QED
    BY <1>5, <2>1 DEF EnterPage, ShareOwner, Acknowledge
<1>6. ASSUME NEW r \in Requests, GetPage(r) PROVE TypeOK'
  <2>1. pc' \in [Requests -> {"idle"} \cup Working \cup Answers]
    BY <1>6 DEF GetPage
  <2> QED
    BY <1>6, <2>1 DEF GetPage
<1>7. ASSUME NEW r \in Requests, AttachLink(r) PROVE TypeOK'
  <2>1. <<input[r].page, input[r].link>> \in Requests \X Links
    BY <1>7, InputFields DEF AttachLink, OpsMatch
  <2>2. pc' \in [Requests -> {"idle"} \cup Working \cup Answers]
    BY <1>7 DEF AttachLink
  <2>3. pageLinks' \subseteq Requests \X Links
    BY <1>7, <2>1 DEF AttachLink
  <2> QED
    BY <1>7, <2>2, <2>3 DEF AttachLink
<1>8. ASSUME NEW r \in Requests, Abort(r) \/ BreakDeadlock(r) PROVE TypeOK'
  <2>1. Rollback(r, "failed") /\ UNCHANGED <<input, plan, pageLinks>>
    BY <1>8 DEF Abort, BreakDeadlock
  <2>2. ownerLock' \in [Users -> Requests \cup {None}]
    BY <2>1
  <2>3. pc' \in [Requests -> {"idle"} \cup Working \cup Answers]
    BY <2>1
  <2> QED
    BY <2>1, <2>2, <2>3
<1>9. ASSUME NEW u \in Users, NEW p \in Plans, ChangePlan(u, p) PROVE TypeOK'
  BY <1>9 DEF ChangePlan
<1>10. ASSUME UNCHANGED vars PROVE TypeOK'
  BY <1>10 DEF vars
<1> QED
  BY <1>1, <1>2, <1>3, <1>4, <1>5, <1>6, <1>7, <1>8, <1>9, <1>10 DEF Next, Step, Locking

-----------------------------------------------------------------------------

\* A step of one request that neither takes nor releases a row lock nor commits a page
\* keeps the invariant, if the request goes where its findings let it.
LEMMA Moves ==
    ASSUME BioInv, TypeOK', UNCHANGED <<input, pages, ownerLock>>,
           NEW r \in Requests, NEW s, Goto(r, s),
           s \in FreeTx <=> pc[r] \in FreeTx,
           s \in {"attaching", "mine"} => ~Creating(r),
           s \in Holding => ~SlugTaken(r) /\ SlugHolders(r) = {},
           r \in pages => s \in {"stored", "created", "failed"},
           s = "stored" => r \in pages,
           s = "shared" => ownerLock[user(r)] = None,
           s \in {"counted", "inserted"} => PagesOf(user(r)) = {},
           s = "mine" => input[r].page \in pages /\ user(input[r].page) = user(r),
           \A t \in pageLinks' : t[1] \in pages /\ LinkOwner[t[2]] = user(t[1])
    PROVE  BioInv'
<1> USE DEF BioInv, user, Creating
<1>0. TypeOK /\ pages \subseteq Requests
  BY DEF WellFormed, TypeOK
<1>1. \A q \in Requests : pc'[q] = IF q = r THEN s ELSE pc[q]
  BY <1>0 DEF Goto, TypeOK
<1>2. \A q \in Requests : pc'[q] \in FreeTx <=> pc[q] \in FreeTx
  BY <1>1
<1>3. WellFormed'
  BY <1>2 DEF WellFormed
<1>4. LocksHeld'
  BY <1>1, <1>2 DEF LocksHeld
<1>5. SlugsHeld'
  <2> SUFFICES ASSUME NEW q \in Requests, pc'[q] \in Holding
               PROVE  ~SlugTaken(q)' /\ SlugHolders(q)' = {}
    BY DEF SlugsHeld, Holding
  <2>1. ~SlugTaken(q) /\ SlugHolders(q) = {}
    BY <1>1 DEF SlugsHeld
  <2>2. ASSUME NEW h \in SlugHolders(q)' PROVE FALSE
    <3>1. /\ h \in Requests /\ h # q /\ pc'[h] \in Holding /\ input[h].slug = input[q].slug
      BY <2>2 DEF SlugHolders, Holding
    <3> QED
      BY <1>1, <2>1, <3>1 DEF SlugHolders, Holding
  <2> QED
    BY <2>1, <2>2 DEF SlugTaken
<1>6. PagesStored'
  BY <1>0, <1>1 DEF PagesStored
<1>7. FindingsHold'
  BY <1>1 DEF FindingsHold, PagesOf
<1>8. OpsMatch'
  BY <1>1 DEF OpsMatch
<1> QED
  BY <1>3, <1>4, <1>5, <1>6, <1>7, <1>8

\* The one who gets the lock is the only FREE transaction of its user, and no statement
\* of that user is about to store a page.
LEMMA LockStep ==
    ASSUME BioInv, TypeOK', NEW r \in Requests, LockOwner(r)
    PROVE  BioInv'
<1> USE DEF BioInv, user, Creating
<1>0. /\ TypeOK /\ pages \subseteq Requests /\ user(r) \in Users
      /\ pc[r] = "free" /\ ownerLock[user(r)] = None /\ Sharers(user(r)) = {}
      /\ UNCHANGED <<input, pages, pageLinks>>
  BY InputFields DEF WellFormed, TypeOK, LockOwner
<1>1. /\ \A q \in Requests : pc'[q] = IF q = r THEN "locked" ELSE pc[q]
      /\ \A u \in Users : ownerLock'[u] = IF u = user(r) THEN r ELSE ownerLock[u]
  BY <1>0 DEF LockOwner, Goto, TypeOK
<1>2. \A u \in Users, q \in Requests : ownerLock'[u] = q <=> pc'[q] \in FreeTx /\ user(q) = u
  BY <1>0, <1>1, BioPagesAssumption DEF LocksHeld, FreeTx
<1>3. \A q \in Requests : pc'[q] = "shared" => ownerLock'[user(q)] = None
  BY <1>0, <1>1, InputFields DEF LocksHeld, Sharers
<1>4. LocksHeld'
  BY <1>0, <1>2, <1>3 DEF LocksHeld
<1>5. WellFormed'
  BY <1>0, <1>2 DEF WellFormed
<1>6. SlugsHeld'
  BY <1>0, <1>1 DEF SlugsHeld, SlugTaken, SlugHolders, Holding
<1>7. PagesStored'
  BY <1>0, <1>1 DEF PagesStored
<1>8. FindingsHold'
  BY <1>0, <1>1 DEF FindingsHold, PagesOf
<1>9. OpsMatch'
  BY <1>0, <1>1 DEF OpsMatch
<1> QED
  BY <1>4, <1>5, <1>6, <1>7, <1>8, <1>9

\* A transaction or statement that ends without a trace releases the row, if it had it.
LEMMA RollbackStep ==
    ASSUME BioInv, TypeOK', UNCHANGED <<input, pageLinks>>, NEW r \in Requests,
           NEW s \in {"limit", "failed"}, Rollback(r, s), r \in pages => s = "failed"
    PROVE  BioInv'
<1> USE DEF BioInv, user, Creating
<1>0. TypeOK /\ pages \subseteq Requests /\ UNCHANGED <<input, pages, pageLinks>>
  BY DEF WellFormed, TypeOK, Rollback
<1>1. /\ \A q \in Requests : pc'[q] = IF q = r THEN s ELSE pc[q]
      /\ \A u \in Users : ownerLock'[u] = IF ownerLock[u] = r THEN None ELSE ownerLock[u]
  BY <1>0 DEF Rollback, Unlock, Goto, TypeOK
<1>2. \A u \in Users, q \in Requests : ownerLock'[u] = q <=> pc'[q] \in FreeTx /\ user(q) = u
  BY <1>0, <1>1, BioPagesAssumption DEF LocksHeld, FreeTx
<1>3. \A q \in Requests : pc'[q] = "shared" => ownerLock'[user(q)] = None
  BY <1>0, <1>1, InputFields DEF LocksHeld
<1>4. LocksHeld'
  BY <1>0, <1>2, <1>3 DEF LocksHeld
<1>5. WellFormed'
  BY <1>0, <1>2 DEF WellFormed
<1>6. SlugsHeld'
  BY <1>0, <1>1 DEF SlugsHeld, SlugTaken, SlugHolders, Holding
<1>7. PagesStored'
  BY <1>0, <1>1 DEF PagesStored
<1>8. FindingsHold'
  BY <1>0, <1>1 DEF FindingsHold, PagesOf
<1>9. OpsMatch'
  BY <1>0, <1>1 DEF OpsMatch
<1> QED
  BY <1>4, <1>5, <1>6, <1>7, <1>8, <1>9

\* A page that is committed takes no slug from another, and comes under the eyes of
\* nobody who has counted the pages of its owner.
LEMMA CommitStep ==
    ASSUME BioInv, TypeOK', NEW r \in Requests, CommitPage(r) \/ StorePage(r)
    PROVE  BioInv'
<1> USE DEF BioInv, user, Creating
<1>0. /\ TypeOK /\ pages \subseteq Requests /\ user(r) \in Users
      /\ pc[r] \in {"inserted", "shared"}
      /\ pages' = pages \cup {r} /\ UNCHANGED <<input, pageLinks>>
  BY InputFields DEF WellFormed, TypeOK, CommitPage, StorePage
<1>1. /\ \A q \in Requests : pc'[q] = IF q = r THEN "stored" ELSE pc[q]
      /\ \A u \in Users : ownerLock'[u] = IF ownerLock[u] = r THEN None ELSE ownerLock[u]
  <2>1. CASE CommitPage(r)
    BY <1>0, <2>1 DEF CommitPage, Unlock, Goto, TypeOK
  <2>2. CASE StorePage(r)
    <3>1. \A u \in Users : ownerLock[u] # r
      BY <2>2 DEF StorePage, LocksHeld, FreeTx
    <3> QED
      BY <1>0, <2>2, <3>1 DEF StorePage, Goto, TypeOK
  <2> QED
    BY <2>1, <2>2
<1>2. \A u \in Users, q \in Requests : ownerLock'[u] = q <=> pc'[q] \in FreeTx /\ user(q) = u
  BY <1>0, <1>1, BioPagesAssumption DEF LocksHeld, FreeTx
<1>3. \A q \in Requests : pc'[q] = "shared" => ownerLock'[user(q)] = None
  BY <1>0, <1>1, InputFields DEF LocksHeld
<1>4. LocksHeld'
  BY <1>0, <1>2, <1>3 DEF LocksHeld
<1>5. ~SlugTaken(r) /\ SlugHolders(r) = {}
  BY <1>0 DEF SlugsHeld, Holding
<1>6. WellFormed'
  <2>1. \A p, q \in pages' : input[p].slug = input[q].slug => p = q
    BY <1>0, <1>5 DEF WellFormed, SlugTaken
  <2> QED
    BY <1>0, <1>2, <2>1 DEF WellFormed
<1>7. SlugsHeld'
  <2> SUFFICES ASSUME NEW q \in Requests, pc'[q] \in Holding
               PROVE  ~SlugTaken(q)' /\ SlugHolders(q)' = {}
    BY DEF SlugsHeld, Holding
  <2>1. q # r /\ pc[q] \in Holding
    BY <1>1 DEF Holding
  <2>2. ~SlugTaken(q) /\ SlugHolders(q) = {}
    BY <2>1 DEF SlugsHeld
  <2>3. input[q].slug # input[r].slug
    BY <1>5, <2>1 DEF SlugHolders, Holding
  <2> QED
    BY <1>0, <1>1, <2>2, <2>3 DEF SlugTaken, SlugHolders
<1>8. PagesStored'
  BY <1>0, <1>1 DEF PagesStored
<1>9. ASSUME NEW q \in Requests, q # r, pc[q] \in {"counted", "inserted"} PROVE user(q) # user(r)
  <2>1. ownerLock[user(q)] = q
    BY <1>9, InputFields, <1>0 DEF LocksHeld, FreeTx
  <2> QED
    BY <1>0, <1>9, <2>1, BioPagesAssumption DEF LocksHeld, FreeTx
<1>10. FindingsHold'
  BY <1>0, <1>1, <1>9 DEF FindingsHold, PagesOf
<1>11. OpsMatch'
  BY <1>0, <1>1 DEF OpsMatch
<1> QED
  BY <1>4, <1>6, <1>7, <1>8, <1>10, <1>11

LEMMA BioStep ==
    ASSUME BioInv, [Next]_vars
    PROVE  BioInv'
<1> USE DEF FreeTx, PaidTx, Holding
<1>0. /\ TypeOK /\ TypeOK' /\ WellFormed
      /\ \A q \in pages : pc[q] \in {"stored", "created", "failed"}
  BY TypeStep DEF BioInv, WellFormed, PagesStored
<1>1. \A t \in pageLinks : t[1] \in pages /\ LinkOwner[t[2]] = user(t[1])
  BY <1>0 DEF WellFormed
<1>2. ASSUME NEW r \in Requests, Authenticate(r) PROVE BioInv'
  <2>1. PICK s : /\ Goto(r, s) /\ s \in {"unauthorized", "invalid", "free", "paid", "attaching"}
                 /\ (s = "attaching" => ~Creating(r))
    BY <1>2 DEF Authenticate
  <2>2. /\ pc[r] = "idle" /\ UNCHANGED <<input, pages, pageLinks, ownerLock>>
    BY <1>2 DEF Authenticate
  <2> QED
    BY <1>0, <1>1, <2>1, <2>2, Moves
<1>3. ASSUME NEW r \in Requests, LockOwner(r) PROVE BioInv'
  BY <1>0, <1>3, LockStep
<1>4. ASSUME NEW r \in Requests, CountPages(r) PROVE BioInv'
  <2>1. pc[r] = "locked" /\ UNCHANGED <<input, pageLinks>> /\ r \notin pages
    BY <1>0, <1>4 DEF CountPages
  <2>2. CASE PagesOf(user(r)) = {} /\ Goto(r, "counted") /\ UNCHANGED <<pages, ownerLock>>
    BY <1>0, <1>1, <2>1, <2>2, Moves
  <2>3. CASE Rollback(r, "limit")
    BY <1>0, <2>1, <2>3, RollbackStep
  <2> QED
    BY <1>4, <2>2, <2>3 DEF CountPages
<1>5. ASSUME NEW r \in Requests, InsertPage(r) PROVE BioInv'
  <2>1. /\ pc[r] = "counted" /\ UNCHANGED <<input, pageLinks>> /\ r \notin pages
        /\ SlugHolders(r) = {} /\ PagesOf(user(r)) = {}
    BY <1>0, <1>5 DEF InsertPage, BioInv, FindingsHold
  <2>2. CASE ~SlugTaken(r) /\ Goto(r, "inserted") /\ UNCHANGED <<pages, ownerLock>>
    BY <1>0, <1>1, <2>1, <2>2, Moves
  <2>3. CASE Rollback(r, "failed")
    BY <1>0, <2>1, <2>3, RollbackStep
  <2> QED
    BY <1>5, <2>2, <2>3 DEF InsertPage
<1>6. ASSUME NEW r \in Requests, CommitPage(r) \/ StorePage(r) PROVE BioInv'
  BY <1>0, <1>6, CommitStep
<1>7. ASSUME NEW r \in Requests, EnterPage(r) PROVE BioInv'
  <2>1. PICK s \in {"entered", "failed"} : Goto(r, s) /\ (s = "entered" => ~SlugTaken(r))
    BY <1>7 DEF EnterPage
  <2>2. /\ pc[r] = "paid" /\ SlugHolders(r) = {} /\ r \notin pages
        /\ UNCHANGED <<input, pages, pageLinks, ownerLock>>
    BY <1>0, <1>7 DEF EnterPage
  <2> QED
    BY <1>0, <1>1, <2>1, <2>2, Moves
<1>8. ASSUME NEW r \in Requests, ShareOwner(r) PROVE BioInv'
  <2>1. /\ pc[r] = "entered" /\ ownerLock[user(r)] = None /\ Goto(r, "shared")
        /\ UNCHANGED <<input, pages, pageLinks, ownerLock>> /\ r \notin pages
        /\ ~SlugTaken(r) /\ SlugHolders(r) = {}
    BY <1>0, <1>8 DEF ShareOwner, BioInv, SlugsHeld
  <2> QED
    BY <1>0, <1>1, <2>1, Moves
<1>9. ASSUME NEW r \in Requests, Acknowledge(r) PROVE BioInv'
  <2>1. PICK s \in {"created", "failed"} : Goto(r, s)
    BY <1>9 DEF Acknowledge
  <2>2. pc[r] = "stored" /\ UNCHANGED <<input, pages, pageLinks, ownerLock>>
    BY <1>9 DEF Acknowledge
  <2> QED
    BY <1>0, <1>1, <2>1, <2>2, Moves
<1>10. ASSUME NEW r \in Requests, GetPage(r) PROVE BioInv'
  <2>1. PICK s \in {"notfound", "forbidden", "mine"} :
            /\ Goto(r, s)
            /\ (s = "mine" => input[r].page \in pages /\ user(input[r].page) = user(r))
    BY <1>10 DEF GetPage
  <2>2. /\ pc[r] = "attaching" /\ ~Creating(r) /\ r \notin pages
        /\ UNCHANGED <<input, pages, pageLinks, ownerLock>>
    BY <1>0, <1>10 DEF GetPage, BioInv, OpsMatch
  <2> QED
    BY <1>0, <1>1, <2>1, <2>2, Moves
<1>11. ASSUME NEW r \in Requests, AttachLink(r) PROVE BioInv'
  <2>1. PICK s \in {"attached", "failed", "forbidden"} : Goto(r, s)
    BY <1>11 DEF AttachLink
  <2>2. /\ pc[r] = "mine" /\ UNCHANGED <<input, pages, ownerLock>> /\ r \notin pages
        /\ input[r].page \in pages /\ user(input[r].page) = user(r)
    BY <1>0, <1>11 DEF AttachLink, BioInv, FindingsHold
  <2>3. \A t \in pageLinks' : t[1] \in pages /\ LinkOwner[t[2]] = user(t[1])
    BY <1>1, <1>11, <2>2 DEF AttachLink
  <2>4. s = "failed" \/ r \notin pages
    BY <2>2
  <2> QED
    BY <1>0, <2>1, <2>2, <2>3, Moves
<1>12. ASSUME NEW r \in Requests, Abort(r) \/ BreakDeadlock(r) PROVE BioInv'
  BY <1>0, <1>12, RollbackStep DEF Abort, BreakDeadlock
<1>13. ASSUME UNCHANGED <<input, pc, pages, pageLinks, ownerLock>> PROVE BioInv'
  BY <1>0, <1>13 DEF BioInv, WellFormed, LocksHeld, SlugsHeld, SlugTaken, SlugHolders, PagesStored,
     FindingsHold, PagesOf, OpsMatch, user, Creating
<1> QED
  BY <1>2, <1>3, <1>4, <1>5, <1>6, <1>7, <1>8, <1>9, <1>10, <1>11, <1>12, <1>13
  DEF Next, Step, Locking, ChangePlan, vars

\* The inductive invariant of the component.
THEOREM BioInvariance == Spec => []BioInv
<1>1. ASSUME Init PROVE BioInv
  <2>1. \A r \in Requests : pc[r] = "idle"
    BY <1>1 DEF Init
  <2>2. TypeOK
    BY <1>1, BioPagesAssumption DEF Init, TypeOK
  <2>3. \A u \in Users : ownerLock[u] = None
    BY <1>1 DEF Init
  <2>4. WellFormed /\ LocksHeld
    BY <1>1, <2>1, <2>2, <2>3, BioPagesAssumption DEF Init, WellFormed, LocksHeld, FreeTx
  <2>5. SlugsHeld /\ PagesStored /\ FindingsHold /\ OpsMatch
    BY <1>1, <2>1 DEF Init, SlugsHeld, PagesStored, FindingsHold, OpsMatch, Holding
  <2> QED
    BY <2>4, <2>5 DEF BioInv
<1> QED
  BY <1>1, BioStep, PTL DEF Spec

\* Locks belong to running transactions, no two pages share a slug, and links are only on
\* pages of their own owners.
THEOREM PagesAreWellFormed == Spec => []WellFormed
<1>1. BioInv => WellFormed
  BY DEF BioInv
<1> QED
  BY <1>1, BioInvariance, PTL

\* A page that is created for a FREE user is the only page of its owner when it appears,
\* although the other path to the table knows nothing of the count.
THEOREM FreeUsersHaveOnePage == Spec => FreePageAlone
<1>1. ASSUME BioInv, [Next]_vars, NEW r \in Requests, pc[r] = "inserted", pc'[r] = "stored"
      PROVE  PagesOf(user(r))' = {r}
  <2>1. TypeOK /\ PagesOf(user(r)) = {}
    BY <1>1 DEF BioInv, WellFormed, FindingsHold
  <2>2. CommitPage(r)
    <3>1. ASSUME NEW q \in Requests, NEW s, Goto(q, s) PROVE q = r /\ s = "stored"
      BY <1>1, <2>1, <3>1 DEF Goto, TypeOK
    <3>2. UNCHANGED pc => FALSE
      BY <1>1
    <3> QED
      BY <1>1, <3>1, <3>2 DEF Next, Step, Locking, Authenticate, LockOwner, CountPages, InsertPage,
         CommitPage, StorePage, EnterPage, ShareOwner, Acknowledge, GetPage, AttachLink, Abort,
         BreakDeadlock, Rollback, ChangePlan, vars
  <2>3. pages' = pages \cup {r} /\ UNCHANGED input
    BY <2>2 DEF CommitPage
  <2> QED
    BY <2>1, <2>3 DEF PagesOf, user
<1>2. ASSUME BioInv, [Next]_vars
      PROVE  [\A r \in Requests :
                pc[r] = "inserted" /\ pc'[r] = "stored" => PagesOf(user(r))' = {r}]_vars
  BY <1>1, <1>2
<1> QED
  BY <1>2, BioInvariance, PTL DEF Spec, FreePageAlone

-----------------------------------------------------------------------------

\* A FREE transaction and an insert of the other path, of one user: the first holds the
\* user's row and waits for a slug, the second has entered its slug and waits for the row.
BothPaths(p, q) ==
    /\ pc[p] = "counted" /\ pc[q] = "entered"
    /\ user(p) = user(q) /\ ownerLock[user(q)] = p

\* Whoever waits, waits for a FREE transaction of the same user, or for a slug.
LEMMA WaitsForWhom ==
    ASSUME BioInv, NEW r \in Requests, NEW q \in Requests, WaitsFor(r, q),
           \E p \in Requests : WaitsFor(q, p)
    PROVE  \/ /\ pc[r] \in {"free", "entered"} /\ pc[q] = "counted"
              /\ user(q) = user(r) /\ ownerLock[user(r)] = q
           \/ pc[r] \in {"counted", "paid"} /\ pc[q] = "entered"
<1>1. pc[q] \in {"free", "entered", "counted", "paid"}
  BY DEF WaitsFor
<1>2. user(r) \in Users
  BY InputFields DEF BioInv, WellFormed
<1>3. CASE pc[r] \in {"free", "entered"} /\ ownerLock[user(r)] = q
  BY <1>1, <1>2, <1>3 DEF BioInv, WellFormed, FreeTx
<1>4. CASE pc[r] = "free" /\ q \in Sharers(user(r))
  BY <1>1, <1>4 DEF Sharers
<1>5. CASE pc[r] \in {"counted", "paid"} /\ q \in SlugHolders(r)
  BY <1>1, <1>5 DEF SlugHolders
<1> QED
  BY <1>3, <1>4, <1>5 DEF WaitsFor

\* In every circle of waiters, however long, some user is on both paths.
DeadlocksTakeBothPaths ==
    \A r \in Requests : Deadlocked(r) => \E p, q \in Requests : BothPaths(p, q)

\* A deadlock needs a user whose plan has changed between two of its requests: without
\* one, the locks of page creation never form a circle (repository.go:26-68, service.go:43-46).
THEOREM DeadlocksNeedTwoPlans == Spec => []DeadlocksTakeBothPaths
<1>1. ASSUME BioInv, NEW r \in Requests, Deadlocked(r)
      PROVE  \E p, q \in Requests : BothPaths(p, q)
  <2>1. PICK S \in SUBSET Requests : r \in S /\ \A q \in S : \E p \in S : WaitsFor(q, p)
    BY <1>1 DEF Deadlocked
  <2>2. ASSUME NEW q \in S
        PROVE  \E p \in S :
                 \/ /\ pc[q] \in {"free", "entered"} /\ pc[p] = "counted"
                    /\ user(p) = user(q) /\ ownerLock[user(q)] = p
                 \/ pc[q] \in {"counted", "paid"} /\ pc[p] = "entered"
    BY <1>1, <2>1, WaitsForWhom
  <2>3. \E q \in S : pc[q] = "entered"
    BY <2>1, <2>2
  <2> QED
    BY <2>2, <2>3 DEF BothPaths
<1>2. BioInv => DeadlocksTakeBothPaths
  BY <1>1 DEF DeadlocksTakeBothPaths
<1> QED
  BY <1>2, BioInvariance, PTL
=============================================================================
