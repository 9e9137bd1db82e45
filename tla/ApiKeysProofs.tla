--------------------------- MODULE ApiKeysProofs ---------------------------
(***************************************************************************)
(* Theorems about ApiKeys, for any number of keys, requests and days, any  *)
(* burst and any quota.                                                    *)
(***************************************************************************)
EXTENDS ApiKeys, FiniteSetTheorems, TLAPS

\* A usage row is locked by exactly the transaction that has upserted it.
LocksHeld ==
    \A k \in Keys, d \in Days, r \in Requests :
        rowLock[k][d] = r <=> pc[r] = "counted" /\ key[r] = k /\ day[r] = d

\* The room that a transaction has seen is still there when it commits.
RoomKept == \A r \in Requests : pc[r] = "counted" => count[key[r]][day[r]] < Quota

\* A request is refused for its quota only when the day it is counted for is full of
\* counted requests ...
ExhaustedWhenFull ==
    \A r \in Requests : pc[r] = "exhausted" => Cardinality(Counted(key[r], day[r])) = Quota

\* ... because a day for which somebody was refused stays full.
RefusedAreFull == \A r \in Requests : pc[r] = "exhausted" => count[key[r]][day[r]] = Quota

QuotaInv == UsageExact /\ LocksHeld /\ RoomKept /\ RefusedAreFull

\* Requests of k that got a token between two times.
Admitted(k, from, to) == {r \in Requests : key[r] = k /\ taken[r] \in from..to}

\* A limiter is made by a request of its key, for a key that was issued; whoever is
\* beyond the map uses the one that is in it, and so did whoever has got a token.
OneLimiter ==
    /\ \A k \in Keys : limiters[k] # None => key[limiters[k]] = k /\ status[k] # "absent"
    /\ \A r \in Requests :
        /\ pc[r] \in {"valid", "missing"} => status[key[r]] # "absent"
        /\ pc[r] = "missing" => limiter[r] = r
        /\ pc[r] = "limited" => limiters[key[r]] # None /\ limiter[r] = limiters[key[r]]
        /\ taken[r] # None => limiters[key[r]] # None /\ taken[r] <= now

\* What was admitted since any moment and what the limiter still holds are together no
\* more than a burst and what has been filled in.
Balanced ==
    \A k \in Keys, from \in 0..now :
        limiters[k] # None =>
            Cardinality(Admitted(k, from, now)) + tokens[limiters[k]] <= Burst + (now - from)

\* The rate was held in every interval that is over.
HeldBefore ==
    \A k \in Keys, from, to \in Times :
        from <= to /\ to < now => Cardinality(Admitted(k, from, to)) <= Burst + (to - from)

RateInv == TypeOK /\ OneLimiter /\ Balanced /\ HeldBefore

-----------------------------------------------------------------------------

\* A token is taken from a limiter that has one.
LEMMA TokenTaken ==
    ASSUME TypeOK, NEW r \in Requests, Allow(r)
    PROVE  tokens' \in [Requests -> 0..Burst]
<1> DEFINE l == limiter[r]
<1>1. Burst \in Nat /\ tokens \in [Requests -> 0..Burst]
  BY ApiKeysAssumption DEF TypeOK
<1>2. CASE UNCHANGED tokens
  BY <1>1, <1>2
<1>3. CASE tokens[l] > 0 /\ tokens' = [tokens EXCEPT ![l] = tokens[l] - 1]
  <2>1. ASSUME NEW q \in Requests PROVE tokens'[q] \in 0..Burst
    BY <1>1, <1>3
  <2> QED
    BY <1>1, <1>3, <2>1
<1> QED
  BY <1>2, <1>3 DEF Allow

\* A usage row is locked or unlocked.
LEMMA RowSet ==
    ASSUME TypeOK, NEW r \in Requests, NEW h \in Requests \cup {None}, Lock(r, h)
    PROVE  rowLock' \in [Keys -> [Days -> Requests \cup {None}]]
BY DEF Lock, TypeOK

\* A request moves to a stage or to an answer.
LEMMA StageSet ==
    ASSUME TypeOK, NEW r \in Requests,
           LoadLimiter(r) \/ LoadOrStoreLimiter(r) \/ Allow(r) \/ UpsertUsage(r)
    PROVE  pc' \in [Requests -> {"idle"} \cup Stages \cup Answers]
<1>1. PICK s \in {"limited", "missing", "admitted", "ratelimited", "counted", "exhausted"} :
          Goto(r, s)
  BY DEF LoadLimiter, LoadOrStoreLimiter, Allow, UpsertUsage
<1>2. s \in Stages \cup Answers
  BY DEF Stages, Answers
<1> QED
  BY <1>1, <1>2 DEF Goto, TypeOK

LEMMA TypeInit ==
    ASSUME Init
    PROVE  TypeOK
<1>1. 0 \in Times /\ 0 \div DayLength = 0
  BY ApiKeysAssumption DEF Times
<1>2. 0 \in Days
  BY <1>1 DEF Days
<1> QED
  BY <1>1, <1>2, ApiKeysAssumption DEF Init, TypeOK

\* Every variable keeps its type.  A commit needs the room it has seen.
LEMMA TypeStep ==
    ASSUME TypeOK, RoomKept, [Next]_vars
    PROVE  TypeOK'
<1> USE ApiKeysAssumption DEF TypeOK, Stages, Answers, Goto, limits, quotas
<1>0. ASSUME NEW r \in Requests
      PROVE  /\ key[r] \in Keys /\ day[r] \in Days
             /\ limiters[key[r]] \in Requests \cup {None}
  OBVIOUS
<1>1. ASSUME NEW k \in Keys, CreateKey(k) PROVE TypeOK'
  BY <1>1 DEF CreateKey
<1>2. ASSUME NEW k \in Keys, RevokeKey(k) PROVE TypeOK'
  BY <1>2 DEF RevokeKey
<1>3. ASSUME NEW r \in Requests, ValidateAPIKey(r) PROVE TypeOK'
  BY <1>3 DEF ValidateAPIKey
<1>4. ASSUME NEW r \in Requests, LoadLimiter(r) PROVE TypeOK'
  <2>1. pc' \in [Requests -> {"idle"} \cup Stages \cup Answers]
    BY <1>4, StageSet
  <2>2. limiter' \in [Requests -> Requests \cup {None}]
    BY <1>0, <1>4 DEF LoadLimiter
  <2> QED
    BY <1>4, <2>1, <2>2 DEF LoadLimiter
<1>5. ASSUME NEW r \in Requests, LoadOrStoreLimiter(r) PROVE TypeOK'
  <2>1. pc' \in [Requests -> {"idle"} \cup Stages \cup Answers]
    BY <1>5, StageSet
  <2>2. limiters' \in [Keys -> Requests \cup {None}]
    BY <1>0, <1>5 DEF LoadOrStoreLimiter
  <2>3. limiter' \in [Requests -> Requests \cup {None}]
    BY <1>0, <1>5 DEF LoadOrStoreLimiter
  <2> QED
    BY <1>5, <2>1, <2>2, <2>3 DEF LoadOrStoreLimiter
<1>6. ASSUME NEW r \in Requests, Allow(r) PROVE TypeOK'
  <2>1. tokens' \in [Requests -> 0..Burst]
    BY <1>6, TokenTaken
  <2>2. pc' \in [Requests -> {"idle"} \cup Stages \cup Answers]
    BY <1>6, StageSet
  <2>3. taken' \in [Requests -> Times \cup {None}]
    BY <1>6 DEF Allow
  <2> QED
    BY <1>6, <2>1, <2>2, <2>3 DEF Allow
<1>7. ASSUME NEW r \in Requests, FormatDate(r) PROVE TypeOK'
  BY <1>7 DEF FormatDate, Days
<1>8. ASSUME NEW r \in Requests, UpsertUsage(r) PROVE TypeOK'
  <2>1. pc' \in [Requests -> {"idle"} \cup Stages \cup Answers]
    BY <1>8, StageSet
  <2>2. rowLock' \in [Keys -> [Days -> Requests \cup {None}]]
    BY <1>8, RowSet DEF UpsertUsage
  <2> QED
    BY <1>8, <2>1, <2>2 DEF UpsertUsage
<1>9. ASSUME NEW r \in Requests, Commit(r) PROVE TypeOK'
  BY <1>0, <1>9 DEF Commit, Lock, RoomKept
<1>10. ASSUME NEW r \in Requests, Acknowledge(r) PROVE TypeOK'
  BY <1>10 DEF Acknowledge
<1>11. ASSUME NEW r \in Requests, Abort(r) PROVE TypeOK'
  BY <1>11 DEF Abort, Unlock
<1>12. ASSUME Tick PROVE TypeOK'
  BY <1>12 DEF Tick, Times
<1>13. ASSUME Crash PROVE TypeOK'
  BY <1>13 DEF Crash
<1>14. ASSUME UNCHANGED vars PROVE TypeOK'
  BY <1>14 DEF vars
<1> QED
  BY <1>1, <1>2, <1>3, <1>4, <1>5, <1>6, <1>7, <1>8, <1>9, <1>10, <1>11, <1>12, <1>13, <1>14
  DEF Next, Step

-----------------------------------------------------------------------------
(* The quota *)

LEMMA CountedFinite ==
    ASSUME NEW k, NEW d
    PROVE  IsFiniteSet(Counted(k, d)) /\ Cardinality(Counted(k, d)) \in Nat
BY ApiKeysAssumption, FS_Subset, FS_CardinalityType DEF Counted, CountedPc

\* A step that moves nobody across the line, and no date of a request near it, leaves
\* the quota's part of the invariant alone.
LEMMA QuotaQuiet ==
    ASSUME QuotaInv, TypeOK',
           UNCHANGED <<key, count>>,
           \A r \in Requests :
             /\ pc[r] \in CountedPc <=> pc'[r] \in CountedPc
             /\ pc'[r] = "counted" => pc[r] = "counted"
             /\ pc'[r] = "exhausted" => pc[r] = "exhausted"
             /\ pc[r] \in CountedPc \cup {"counted", "exhausted"} => day'[r] = day[r],
           LocksHeld'
    PROVE  QuotaInv'
<1>1. ASSUME NEW k \in Keys, NEW d \in Days PROVE Counted(k, d)' = Counted(k, d)
  BY DEF Counted, CountedPc
<1>2. UsageExact'
  BY <1>1 DEF QuotaInv, UsageExact
<1>3. RoomKept' /\ RefusedAreFull'
  BY DEF QuotaInv, RoomKept, RefusedAreFull
<1> QED
  BY <1>2, <1>3 DEF QuotaInv

\* A request sees room and locks the row, or is refused because there is none.
LEMMA UpsertStep ==
    ASSUME QuotaInv, TypeOK', NEW r \in Requests, UpsertUsage(r)
    PROVE  QuotaInv'
<1> DEFINE n == count[key[r]][day[r]]
<1>1. /\ pc[r] = "dated" /\ rowLock[key[r]][day[r]] = None
      /\ key[r] \in Keys /\ day[r] \in Days
      /\ n \in 0..Quota /\ Quota \in Nat
      /\ UNCHANGED <<key, day, count>>
  BY ApiKeysAssumption DEF UpsertUsage, RowFree, QuotaInv, UsageExact, TypeOK
<1>2. \/ /\ pc' = [pc EXCEPT ![r] = "counted"] /\ n < Quota
         /\ rowLock' = [rowLock EXCEPT ![key[r]][day[r]] = r]
      \/ pc' = [pc EXCEPT ![r] = "exhausted"] /\ n = Quota /\ UNCHANGED rowLock
  BY <1>1 DEF UpsertUsage, Fits, Goto, Lock
<1>3. UsageExact'
  <2>1. ASSUME NEW k \in Keys, NEW d \in Days PROVE Counted(k, d)' = Counted(k, d)
    BY <1>1, <1>2 DEF Counted, CountedPc, QuotaInv, UsageExact, TypeOK
  <2> QED
    BY <1>1, <2>1 DEF QuotaInv, UsageExact
<1>4. LocksHeld'
  <2> USE DEF QuotaInv, UsageExact, TypeOK
  <2> SUFFICES ASSUME NEW k \in Keys, NEW d \in Days, NEW q \in Requests
               PROVE  rowLock'[k][d] = q <=> pc'[q] = "counted" /\ key'[q] = k /\ day'[q] = d
    BY DEF LocksHeld
  <2>1. rowLock[k][d] = q <=> pc[q] = "counted" /\ key[q] = k /\ day[q] = d
    BY DEF LocksHeld
  <2>2. q # None
    BY ApiKeysAssumption
  <2> QED
    BY <1>1, <1>2, <2>1, <2>2
<1>5. RoomKept' /\ RefusedAreFull'
  BY <1>1, <1>2 DEF QuotaInv, UsageExact, TypeOK, RoomKept, RefusedAreFull
<1> QED
  BY <1>3, <1>4, <1>5 DEF QuotaInv

\* A commit counts one request, of its own row and of no other.
LEMMA CommitStep ==
    ASSUME QuotaInv, TypeOK', NEW r \in Requests, Commit(r)
    PROVE  QuotaInv'
<1> DEFINE k0 == key[r]
           d0 == day[r]
<1>1. /\ pc[r] = "counted" /\ rowLock[k0][d0] = r
      /\ k0 \in Keys /\ d0 \in Days
      /\ count[k0][d0] \in Nat /\ count[k0][d0] < Quota
  BY DEF Commit, QuotaInv, UsageExact, TypeOK, LocksHeld, RoomKept
<1>2. /\ pc' = [pc EXCEPT ![r] = "committed"]
      /\ count' = [count EXCEPT ![k0][d0] = count[k0][d0] + 1]
      /\ rowLock' = [rowLock EXCEPT ![k0][d0] = None]
      /\ UNCHANGED <<key, day>>
  BY DEF Commit, Goto, Lock, quotas
<1>3. ASSUME NEW k \in Keys, NEW d \in Days, ~(k = k0 /\ d = d0)
      PROVE  count'[k][d] = count[k][d]
  BY <1>1, <1>2, <1>3 DEF QuotaInv, UsageExact, TypeOK
<1>4. count'[k0][d0] = count[k0][d0] + 1
  BY <1>1, <1>2 DEF QuotaInv, UsageExact, TypeOK
<1>5. UsageExact'
  <2> SUFFICES ASSUME NEW k \in Keys, NEW d \in Days
               PROVE  count'[k][d] = Cardinality(Counted(k, d)')
    BY DEF UsageExact
  <2>1. CASE k = k0 /\ d = d0
    <3>1. Counted(k, d)' = Counted(k, d) \cup {r} /\ r \notin Counted(k, d)
      BY <1>1, <1>2, <2>1 DEF Counted, CountedPc, QuotaInv, UsageExact, TypeOK
    <3>2. Cardinality(Counted(k, d)') = Cardinality(Counted(k, d)) + 1
      BY <3>1, CountedFinite, FS_AddElement
    <3> QED
      BY <1>4, <2>1, <3>2 DEF QuotaInv, UsageExact
  <2>2. CASE ~(k = k0 /\ d = d0)
    <3>1. Counted(k, d)' = Counted(k, d)
      BY <1>1, <1>2, <2>2 DEF Counted, CountedPc, QuotaInv, UsageExact, TypeOK
    <3> QED
      BY <1>3, <2>2, <3>1 DEF QuotaInv, UsageExact
  <2> QED
    BY <2>1, <2>2
<1>6. LocksHeld'
  BY <1>1, <1>2, ApiKeysAssumption DEF QuotaInv, UsageExact, LocksHeld, TypeOK
<1>7. RoomKept'
  <2> SUFFICES ASSUME NEW q \in Requests, pc'[q] = "counted"
               PROVE  count'[key[q]][day[q]] < Quota
    BY <1>2 DEF RoomKept
  <2>1. q # r /\ pc[q] = "counted"
    BY <1>2 DEF QuotaInv, UsageExact, TypeOK
  <2>2. key[q] \in Keys /\ day[q] \in Days /\ rowLock[key[q]][day[q]] = q
    BY <2>1 DEF QuotaInv, UsageExact, TypeOK, LocksHeld
  <2> QED
    BY <1>1, <1>3, <2>1, <2>2 DEF QuotaInv, RoomKept
<1>8. RefusedAreFull'
  <2> SUFFICES ASSUME NEW q \in Requests, pc'[q] = "exhausted"
               PROVE  count'[key[q]][day[q]] = Quota
    BY <1>2 DEF RefusedAreFull
  <2>1. count[key[q]][day[q]] = Quota /\ key[q] \in Keys /\ day[q] \in Days
    BY <1>2 DEF QuotaInv, UsageExact, TypeOK, RefusedAreFull
  <2> QED
    BY <1>1, <1>3, <2>1
<1> QED
  BY <1>5, <1>6, <1>7, <1>8 DEF QuotaInv

LEMMA QuotaStep ==
    ASSUME QuotaInv, [Next]_vars
    PROVE  QuotaInv'
<1> TypeOK /\ TypeOK' /\ RoomKept /\ LocksHeld
  BY TypeStep DEF QuotaInv, UsageExact
<1> USE ApiKeysAssumption DEF TypeOK, Goto, limits, quotas, LocksHeld, CountedPc
<1>1. ASSUME NEW k \in Keys, CreateKey(k) PROVE QuotaInv'
  BY <1>1, QuotaQuiet DEF CreateKey
<1>2. ASSUME NEW k \in Keys, RevokeKey(k) PROVE QuotaInv'
  BY <1>2, QuotaQuiet DEF RevokeKey
<1>3. ASSUME NEW r \in Requests, ValidateAPIKey(r) PROVE QuotaInv'
  BY <1>3, QuotaQuiet DEF ValidateAPIKey
<1>4. ASSUME NEW r \in Requests, LoadLimiter(r) PROVE QuotaInv'
  BY <1>4, QuotaQuiet DEF LoadLimiter
<1>5. ASSUME NEW r \in Requests, LoadOrStoreLimiter(r) PROVE QuotaInv'
  BY <1>5, QuotaQuiet DEF LoadOrStoreLimiter
<1>6. ASSUME NEW r \in Requests, Allow(r) PROVE QuotaInv'
  BY <1>6, QuotaQuiet DEF Allow
<1>7. ASSUME NEW r \in Requests, FormatDate(r) PROVE QuotaInv'
  BY <1>7, QuotaQuiet DEF FormatDate
<1>10. ASSUME NEW r \in Requests, Acknowledge(r) PROVE QuotaInv'
  BY <1>10, QuotaQuiet DEF Acknowledge
<1>11. ASSUME NEW r \in Requests, Abort(r) PROVE QuotaInv'
  BY <1>11, QuotaQuiet DEF Abort, Unlock
<1>12. ASSUME Tick PROVE QuotaInv'
  BY <1>12, QuotaQuiet DEF Tick
<1>13. ASSUME Crash PROVE QuotaInv'
  BY <1>13, QuotaQuiet DEF Crash, Stages
<1>14. ASSUME UNCHANGED vars PROVE QuotaInv'
  BY <1>14, QuotaQuiet DEF vars
<1>8. ASSUME NEW r \in Requests, UpsertUsage(r) PROVE QuotaInv'
  BY <1>8, UpsertStep
<1>9. ASSUME NEW r \in Requests, Commit(r) PROVE QuotaInv'
  BY <1>9, CommitStep
<1> QED
  BY <1>1, <1>2, <1>3, <1>4, <1>5, <1>6, <1>7, <1>8, <1>9, <1>10, <1>11, <1>12, <1>13, <1>14
  DEF Next, Step

-----------------------------------------------------------------------------
(* The rate *)

LEMMA AdmittedFinite ==
    ASSUME NEW k, NEW from, NEW to
    PROVE  IsFiniteSet(Admitted(k, from, to)) /\ Cardinality(Admitted(k, from, to)) \in Nat
BY ApiKeysAssumption, FS_Subset, FS_CardinalityType DEF Admitted

LEMMA AtMostOneMore ==
    ASSUME NEW S, IsFiniteSet(S), NEW x, NEW T, T \subseteq S \cup {x}
    PROVE  /\ Cardinality(S) \in Nat /\ Cardinality(T) \in Nat
           /\ Cardinality(T) <= Cardinality(S) + 1
<1>1. /\ IsFiniteSet(S \cup {x}) /\ Cardinality(S) \in Nat
      /\ Cardinality(S \cup {x}) <= Cardinality(S) + 1
  <2>1. Cardinality(S) \in Nat
    BY FS_CardinalityType
  <2>2. /\ IsFiniteSet(S \cup {x})
        /\ Cardinality(S \cup {x}) = IF x \in S THEN Cardinality(S) ELSE Cardinality(S) + 1
    BY FS_AddElement
  <2> QED
    BY <2>1, <2>2
<1>2. IsFiniteSet(T) /\ Cardinality(T) <= Cardinality(S \cup {x})
  <2>1. T \in SUBSET (S \cup {x})
    OBVIOUS
  <2> QED
    BY <1>1, <2>1, FS_Subset
<1>3. Cardinality(T) \in Nat /\ Cardinality(S \cup {x}) \in Nat
  BY <1>1, <1>2, FS_CardinalityType
<1> QED
  BY <1>1, <1>2, <1>3

\* A step without tokens and limiters.
LEMMA RateQuiet ==
    ASSUME RateInv, TypeOK', OneLimiter',
           UNCHANGED <<now, key, limiters, tokens, taken>>
    PROVE  RateInv'
BY DEF RateInv, Balanced, HeldBefore, Admitted

\* A new limiter is the first of its key, which nobody has used yet.
LEMMA MakeLimiterStep ==
    ASSUME RateInv, TypeOK', NEW r \in Requests, LoadOrStoreLimiter(r)
    PROVE  RateInv'
<1>1. /\ pc[r] = "missing" /\ limiter[r] = r /\ status[key[r]] # "absent"
      /\ key[r] \in Keys /\ r # None
      /\ pc' = [pc EXCEPT ![r] = "limited"]
      /\ UNCHANGED <<now, key, status, tokens, taken>>
  BY ApiKeysAssumption DEF LoadOrStoreLimiter, Goto, RateInv, TypeOK, OneLimiter
<1>2. CASE limiters[key[r]] # None
  <2>1. UNCHANGED limiters /\ limiter' = [limiter EXCEPT ![r] = limiters[key[r]]]
    BY <1>2 DEF LoadOrStoreLimiter
  <2>2. OneLimiter'
    BY <1>1, <1>2, <2>1 DEF RateInv, TypeOK, OneLimiter
  <2> QED
    BY <1>1, <2>1, <2>2, RateQuiet
<1>3. CASE limiters[key[r]] = None
  <2>1. limiters' = [limiters EXCEPT ![key[r]] = r] /\ UNCHANGED limiter
    BY <1>3 DEF LoadOrStoreLimiter
  <2>2. OneLimiter'
    BY <1>1, <1>3, <2>1 DEF RateInv, TypeOK, OneLimiter
  <2>3. Balanced'
    <3> SUFFICES ASSUME NEW k \in Keys, NEW from \in 0..now, limiters'[k] # None
                 PROVE  Cardinality(Admitted(k, from, now)) + tokens[limiters'[k]]
                            <= Burst + (now - from)
      BY <1>1 DEF Balanced, Admitted
    <3>1. CASE k = key[r]
      <4>1. Admitted(k, from, now) = {}
        BY <1>3, <3>1, ApiKeysAssumption DEF Admitted, RateInv, OneLimiter, TypeOK, Times
      <4>2. limiters'[k] = r /\ tokens[r] \in 0..Burst
        BY <1>1, <2>1, <3>1 DEF RateInv, TypeOK
      <4> QED
        BY <4>1, <4>2, FS_EmptySet, ApiKeysAssumption DEF RateInv, TypeOK, Times
    <3>2. CASE k # key[r]
      BY <2>1, <3>2 DEF RateInv, TypeOK, Balanced
    <3> QED
      BY <3>1, <3>2
  <2> QED
    BY <1>1, <2>2, <2>3 DEF RateInv, HeldBefore, Admitted
<1> QED
  BY <1>2, <1>3

\* A token that a request gets is gone from the only limiter of its key.
LEMMA AllowStep ==
    ASSUME RateInv, TypeOK', NEW r \in Requests, Allow(r)
    PROVE  RateInv'
<1> DEFINE l == limiter[r]
<1>1. /\ pc[r] = "limited" /\ limiters[key[r]] = l /\ l \in Requests /\ key[l] = key[r]
      /\ key[r] \in Keys /\ now \in Nat
      /\ UNCHANGED <<now, key, status, limiter, limiters>>
  BY ApiKeysAssumption DEF Allow, limits, RateInv, TypeOK, OneLimiter, Times
<1>2. CASE UNCHANGED <<tokens, taken>> /\ pc' = [pc EXCEPT ![r] = "ratelimited"]
  <2>1. OneLimiter'
    BY <1>1, <1>2 DEF RateInv, TypeOK, OneLimiter
  <2> QED
    BY <1>1, <1>2, <2>1, RateQuiet
<1>3. CASE /\ tokens[l] > 0 /\ tokens' = [tokens EXCEPT ![l] = tokens[l] - 1]
           /\ taken' = [taken EXCEPT ![r] = now]
           /\ pc' = [pc EXCEPT ![r] = "admitted"]
  <2>1. OneLimiter'
    BY <1>1, <1>3 DEF RateInv, TypeOK, OneLimiter
  <2>2. Balanced'
    <3> SUFFICES ASSUME NEW k \in Keys, NEW from \in 0..now, limiters[k] # None
                 PROVE  Cardinality(Admitted(k, from, now)') + tokens'[limiters[k]]
                            <= Burst + (now - from)
      BY <1>1 DEF Balanced, Admitted
    <3> DEFINE before == Admitted(k, from, now)
               after  == Admitted(k, from, now)'
    <3>1. Cardinality(before) + tokens[limiters[k]] <= Burst + (now - from)
      BY DEF RateInv, Balanced
    <3>2. CASE k = key[r]
      <4>1. /\ Cardinality(before) \in Nat /\ Cardinality(after) \in Nat
            /\ Cardinality(after) <= Cardinality(before) + 1
        <5>1. after \subseteq before \cup {r}
          BY <1>1, <1>3 DEF Admitted, RateInv, TypeOK
        <5> QED
          BY <5>1, AdmittedFinite, AtMostOneMore
      <4>2. tokens'[limiters[k]] = tokens[limiters[k]] - 1 /\ tokens[limiters[k]] \in 0..Burst
        BY <1>1, <1>3, <3>2 DEF RateInv, TypeOK
      <4> QED
        BY <1>1, <3>1, <4>1, <4>2, ApiKeysAssumption
    <3>3. CASE k # key[r]
      <4>1. after = before
        BY <1>1, <1>3, <3>3 DEF Admitted, RateInv, TypeOK
      <4>2. limiters[k] # l
        BY <1>1, <3>3 DEF RateInv, OneLimiter
      <4> QED
        BY <1>1, <1>3, <3>1, <4>1, <4>2 DEF RateInv, TypeOK
    <3> QED
      BY <3>2, <3>3
  <2>3. HeldBefore'
    <3> SUFFICES ASSUME NEW k \in Keys, NEW from \in Times, NEW to \in Times,
                        from <= to, to < now
                 PROVE  Cardinality(Admitted(k, from, to)') <= Burst + (to - from)
      BY <1>1 DEF HeldBefore, Admitted
    <3>1. Admitted(k, from, to)' \subseteq Admitted(k, from, to)
      BY <1>1, <1>3 DEF Admitted, RateInv, TypeOK, Times
    <3>2. /\ Cardinality(Admitted(k, from, to)') <= Cardinality(Admitted(k, from, to))
          /\ Cardinality(Admitted(k, from, to)') \in Nat
      BY <3>1, AdmittedFinite, FS_Subset, FS_CardinalityType
    <3> QED
      BY <3>2, AdmittedFinite, ApiKeysAssumption DEF RateInv, HeldBefore, Times
  <2> QED
    BY <2>1, <2>2, <2>3 DEF RateInv
<1> QED
  BY <1>1, <1>2, <1>3 DEF Allow, Goto

\* The rate is held in every interval that is not over: nothing was admitted after now.
LEMMA UpToNow ==
    ASSUME RateInv, NEW k \in Keys, NEW from \in Times, NEW to \in Times,
           from <= to, now <= to
    PROVE  Cardinality(Admitted(k, from, to)) <= Burst + (to - from)
<1> USE ApiKeysAssumption DEF RateInv, OneLimiter, TypeOK, Times
<1>1. CASE limiters[k] # None /\ from <= now
  <2>1. Admitted(k, from, to) = Admitted(k, from, now)
    BY <1>1, SMTT(30) DEF Admitted
  <2>2. /\ Cardinality(Admitted(k, from, now)) + tokens[limiters[k]] <= Burst + (now - from)
        /\ tokens[limiters[k]] \in Nat
    BY <1>1, SMTT(30) DEF Balanced
  <2> QED
    BY <2>1, <2>2, AdmittedFinite, SMTT(30)
<1>2. CASE limiters[k] = None \/ from > now
  <2>0. \A r \in Requests : taken[r] # None =>
            /\ limiters[key[r]] # None /\ taken[r] <= now
            /\ taken[r] \in Nat /\ now \in Nat /\ from \in Nat
    OBVIOUS
  <2>1. Admitted(k, from, to) = {}
    BY ONLY <1>2, <2>0, None \notin Nat DEF Admitted
  <2> QED
    BY <2>1, FS_EmptySet
<1> QED
  BY <1>1, <1>2

\* In one more second every limiter gains one token at most.
LEMMA TickStep ==
    ASSUME RateInv, TypeOK', Tick
    PROVE  RateInv'
<1>1. /\ now' = now + 1 /\ now \in Nat
      /\ UNCHANGED <<key, status, pc, limiter, limiters, taken>>
  BY DEF Tick, RateInv, TypeOK, Times
<1>2. OneLimiter'
  BY <1>1, ApiKeysAssumption DEF RateInv, TypeOK, OneLimiter, Times
<1>3. Balanced'
  <2> SUFFICES ASSUME NEW k \in Keys, NEW from \in 0..now + 1, limiters[k] # None
               PROVE  Cardinality(Admitted(k, from, now)') + tokens'[limiters[k]]
                          <= Burst + (now + 1 - from)
    BY <1>1 DEF Balanced, Admitted
  <2> DEFINE l == limiters[k]
  <2>1. /\ l \in Requests /\ Burst \in Nat /\ tokens[l] \in 0..Burst
        /\ tokens'[l] \in 0..Burst /\ tokens'[l] <= tokens[l] + 1
    BY ApiKeysAssumption DEF Tick, RateInv, TypeOK
  <2>2. CASE from \in 0..now
    <3>1. Admitted(k, from, now)' = Admitted(k, from, now)
      BY <1>1, ApiKeysAssumption DEF Admitted, RateInv, OneLimiter, TypeOK, Times
    <3>2. Cardinality(Admitted(k, from, now)) + tokens[l] <= Burst + (now - from)
      BY <2>2 DEF RateInv, Balanced
    <3> QED
      BY <1>1, <2>1, <2>2, <3>1, <3>2, AdmittedFinite
  <2>3. CASE from = now + 1
    <3>1. ASSUME NEW q \in Requests PROVE taken[q] \notin now + 1..now + 1
      <4>1. (taken[q] \in Nat /\ taken[q] <= now) \/ taken[q] = None
        BY <1>1, ApiKeysAssumption DEF RateInv, OneLimiter, TypeOK, Times
      <4> QED
        BY <1>1, <4>1, ApiKeysAssumption
    <3>2. Admitted(k, from, now)' = {}
      BY <1>1, <2>3, <3>1 DEF Admitted
    <3> QED
      <4>1. Cardinality(Admitted(k, from, now)') = 0
        BY <3>2, FS_EmptySet
      <4> QED
        BY <1>1, <2>1, <2>3, <4>1
  <2> QED
    BY <1>1, <2>2, <2>3
<1>4. HeldBefore'
  <2> SUFFICES ASSUME NEW k \in Keys, NEW from \in Times, NEW to \in Times,
                      from <= to, to < now + 1
               PROVE  Cardinality(Admitted(k, from, to)) <= Burst + (to - from)
    BY <1>1 DEF HeldBefore, Admitted
  <2>1. CASE to < now
    BY <2>1 DEF RateInv, HeldBefore
  <2>2. CASE to = now
    BY <1>1, <2>2, UpToNow
  <2> QED
    BY <1>1, <2>1, <2>2 DEF Times
<1> QED
  BY <1>2, <1>3, <1>4 DEF RateInv

\* The limiters of a process are forgotten together with the requests that used them.
LEMMA CrashStep ==
    ASSUME RateInv, TypeOK', Crash
    PROVE  RateInv'
<1>1. OneLimiter'
  BY DEF Crash, RateInv, TypeOK, OneLimiter, Stages
<1>2. Balanced'
  BY DEF Crash, Balanced
<1>3. HeldBefore'
  <2> SUFFICES ASSUME NEW k \in Keys, NEW from \in Times, NEW to \in Times,
                      from <= to, to < now
               PROVE  Cardinality(Admitted(k, from, to)') <= Burst + (to - from)
    BY DEF Crash, HeldBefore, Admitted
  <2>1. Admitted(k, from, to)' = {}
    BY ApiKeysAssumption DEF Crash, Admitted, Times
  <2> QED
    BY <2>1, FS_EmptySet, ApiKeysAssumption DEF Times
<1> QED
  BY <1>1, <1>2, <1>3 DEF RateInv

LEMMA RateStep ==
    ASSUME RateInv, TypeOK', [Next]_vars
    PROVE  RateInv'
<1> USE ApiKeysAssumption DEF Goto, limits, quotas
<1>1. ASSUME NEW k \in Keys, CreateKey(k) PROVE RateInv'
  <2>1. OneLimiter'
    BY <1>1 DEF CreateKey, RateInv, OneLimiter, TypeOK
  <2> QED
    BY <1>1, <2>1, RateQuiet DEF CreateKey
<1>2. ASSUME NEW k \in Keys, RevokeKey(k) PROVE RateInv'
  <2>1. OneLimiter'
    BY <1>2 DEF RevokeKey, RateInv, OneLimiter, TypeOK
  <2> QED
    BY <1>2, <2>1, RateQuiet DEF RevokeKey
<1>3. ASSUME NEW r \in Requests, ValidateAPIKey(r) PROVE RateInv'
  <2>1. OneLimiter'
    BY <1>3 DEF ValidateAPIKey, RateInv, OneLimiter, TypeOK
  <2> QED
    BY <1>3, <2>1, RateQuiet DEF ValidateAPIKey
<1>4. ASSUME NEW r \in Requests, LoadLimiter(r) PROVE RateInv'
  <2>0. /\ pc \in [Requests -> {"idle"} \cup Stages \cup Answers]
        /\ limiter \in [Requests -> Requests \cup {None}]
        /\ pc[r] = "valid" /\ UNCHANGED <<now, key, status, limiters, taken>>
    BY <1>4 DEF LoadLimiter, RateInv, TypeOK
  <2>1. OneLimiter'
    <3>1. CASE /\ limiters[key[r]] # None
               /\ limiter' = [limiter EXCEPT ![r] = limiters[key[r]]]
               /\ pc' = [pc EXCEPT ![r] = "limited"]
      BY <2>0, <3>1 DEF RateInv, OneLimiter
    <3>2. CASE /\ limiter' = [limiter EXCEPT ![r] = r]
               /\ pc' = [pc EXCEPT ![r] = "missing"]
      BY <2>0, <3>2 DEF RateInv, OneLimiter
    <3> QED
      BY <1>4, <3>1, <3>2 DEF LoadLimiter
  <2> QED
    BY <1>4, <2>1, RateQuiet DEF LoadLimiter
<1>5. ASSUME NEW r \in Requests, LoadOrStoreLimiter(r) PROVE RateInv'
  BY <1>5, MakeLimiterStep
<1>6. ASSUME NEW r \in Requests, Allow(r) PROVE RateInv'
  BY <1>6, AllowStep
<1>7. ASSUME NEW r \in Requests,
             FormatDate(r) \/ UpsertUsage(r) \/ Commit(r) \/ Acknowledge(r) \/ Abort(r)
      PROVE  RateInv'
  <2>1. /\ \E stage \in {"dated", "counted", "exhausted", "committed", "accepted",
                        "unacknowledged", "unsaved"} : pc' = [pc EXCEPT ![r] = stage]
        /\ UNCHANGED <<now, key, status, limiter, limiters, tokens, taken>>
    BY <1>7 DEF FormatDate, UpsertUsage, Commit, Acknowledge, Abort
  <2>2. OneLimiter'
    BY <2>1 DEF RateInv, OneLimiter, TypeOK
  <2> QED
    BY <2>1, <2>2, RateQuiet
<1>8. ASSUME Tick PROVE RateInv'
  BY <1>8, TickStep
<1>9. ASSUME Crash PROVE RateInv'
  BY <1>9, CrashStep
<1>10. ASSUME UNCHANGED vars PROVE RateInv'
  <2>1. OneLimiter'
    BY <1>10 DEF vars, RateInv, OneLimiter
  <2> QED
    BY <1>10, <2>1, RateQuiet DEF vars
<1> QED
  BY <1>1, <1>2, <1>3, <1>4, <1>5, <1>6, <1>7, <1>8, <1>9, <1>10 DEF Next, Step

-----------------------------------------------------------------------------
(* The theorems *)

KeysInv == QuotaInv /\ RateInv

LEMMA InitInv ==
    ASSUME Init
    PROVE  KeysInv
<1>1. TypeOK
  BY TypeInit
<1>2. \A k \in Keys, d \in Days : Counted(k, d) = {} /\ count[k][d] = 0
  BY DEF Init, Counted, CountedPc
<1>3. UsageExact
  BY <1>1, <1>2, FS_EmptySet DEF UsageExact
<1>4. LocksHeld /\ RoomKept /\ RefusedAreFull
  BY ApiKeysAssumption DEF Init, LocksHeld, RoomKept, RefusedAreFull
<1>5. OneLimiter /\ Balanced
  BY DEF Init, OneLimiter, Balanced
<1>6. HeldBefore
  BY DEF Init, HeldBefore, Times
<1> QED
  BY <1>1, <1>3, <1>4, <1>5, <1>6 DEF KeysInv, QuotaInv, RateInv

LEMMA Invariance == Spec => []KeysInv
<1>1. KeysInv /\ [Next]_vars => KeysInv'
  <2> SUFFICES ASSUME KeysInv, [Next]_vars PROVE KeysInv'
    OBVIOUS
  <2>1. QuotaInv'
    BY QuotaStep DEF KeysInv
  <2>2. RateInv'
    BY <2>1, RateStep DEF KeysInv, QuotaInv, UsageExact
  <2> QED
    BY <2>1, <2>2 DEF KeysInv
<1> QED
  BY InitInv, <1>1, PTL DEF Spec

\* The daily counter of a key is the number of its requests that were accepted, or whose
\* acknowledgement got lost, and never above the quota, for any number of concurrent
\* requests, rollbacks, crashes and days (repository.go:111-138).
THEOREM UsageIsExact == Spec => []UsageExact
<1>1. KeysInv => UsageExact
  BY DEF KeysInv, QuotaInv
<1> QED
  BY Invariance, <1>1, PTL

\* Whoever is refused for the quota was refused by a day that is full (repository.go:133-135).
THEOREM RefusedWhenFull == Spec => []ExhaustedWhenFull
<1>1. KeysInv => ExhaustedWhenFull
  BY DEF KeysInv, QuotaInv, UsageExact, TypeOK, RefusedAreFull, ExhaustedWhenFull
<1> QED
  BY Invariance, <1>1, PTL

-----------------------------------------------------------------------------
(* The implementation of DailyQuota *)

LEMMA RefinesInit ==
    ASSUME Init
    PROVE  Daily!Init
BY DEF Init, Daily!Init, Entries, CountedPc

\* A step that moves nobody into the count or out of it, and nobody to a refusal, is a
\* stutter of DailyQuota.
LEMMA RefinesQuiet ==
    ASSUME UNCHANGED <<key, count>>,
           \A r \in Requests :
             /\ pc[r] \in CountedPc <=> pc'[r] \in CountedPc
             /\ pc[r] = "exhausted" <=> pc'[r] = "exhausted"
             /\ pc[r] \in CountedPc \cup {"exhausted"} => day'[r] = day[r]
    PROVE  UNCHANGED Daily!vars
<1>1. Entries(CountedPc)' = Entries(CountedPc)
  BY DEF Entries
<1>2. Entries({"exhausted"})' = Entries({"exhausted"})
  BY DEF Entries
<1> QED
  BY <1>1, <1>2 DEF Daily!vars

\* A request that is on its way is in none of the two sets, ...
LEMMA Undecided ==
    ASSUME NEW r \in Requests, pc[r] \notin CountedPc, pc[r] # "exhausted"
    PROVE  Daily!Undecided(r)
BY DEF Daily!Undecided, Entries

\* ... and enters the one that its new stage belongs to.
LEMMA Enters ==
    ASSUME TypeOK, NEW r \in Requests, NEW stages, NEW s,
           UNCHANGED <<key, day>>, pc' = [pc EXCEPT ![r] = s], pc[r] \notin stages
    PROVE  Entries(stages)' = IF s \in stages
                              THEN Entries(stages) \cup {Daily!Entry(r, key[r], day[r])}
                              ELSE Entries(stages)
<1> DEFINE before == {q \in Requests : pc[q] \in stages}
           after  == {q \in Requests : pc'[q] \in stages}
<1>1. after = IF s \in stages THEN before \cup {r} ELSE before
  BY DEF TypeOK
<1>2. Entries(stages)' = {[id |-> q, key |-> key[q], day |-> day[q]] : q \in after}
  BY DEF Entries
<1>3. Entries(stages) = {[id |-> q, key |-> key[q], day |-> day[q]] : q \in before}
  BY DEF Entries
<1> HIDE DEF before, after
<1> QED
  BY <1>1, <1>2, <1>3 DEF Daily!Entry

\* A commit is an admission; the room that its transaction has seen is still there.
LEMMA CommitAdmits ==
    ASSUME QuotaInv, NEW r \in Requests, Commit(r)
    PROVE  Daily!Next
<1>1. /\ TypeOK /\ pc[r] = "counted" /\ key[r] \in Keys /\ day[r] \in Days
      /\ count[key[r]][day[r]] < Quota
      /\ count' = [count EXCEPT ![key[r]][day[r]] = @ + 1]
      /\ pc' = [pc EXCEPT ![r] = "committed"]
      /\ UNCHANGED <<key, day>>
  BY DEF Commit, Goto, QuotaInv, UsageExact, RoomKept, TypeOK
<1>2. Daily!Undecided(r)
  BY <1>1, Undecided DEF CountedPc
<1>3. Entries(CountedPc)' = Entries(CountedPc) \cup {Daily!Entry(r, key[r], day[r])}
  <2>1. pc[r] \notin CountedPc /\ "committed" \in CountedPc
    BY <1>1 DEF CountedPc
  <2> QED
    BY <1>1, <2>1, Enters
<1>4. Entries({"exhausted"})' = Entries({"exhausted"})
  <2>1. pc[r] \notin {"exhausted"} /\ "committed" \notin {"exhausted"}
    BY <1>1
  <2> QED
    BY <1>1, <2>1, Enters
<1>5. Daily!Admit(r, key[r], day[r])
  BY <1>1, <1>2, <1>3, <1>4 DEF Daily!Admit
<1> QED
  BY <1>1, <1>5 DEF Daily!Next

\* An upsert that returns more than the quota is a refusal, another one is a stutter.
LEMMA UpsertRefuses ==
    ASSUME QuotaInv, NEW r \in Requests, UpsertUsage(r)
    PROVE  Daily!Next \/ UNCHANGED Daily!vars
<1>1. /\ TypeOK /\ pc[r] = "dated" /\ key[r] \in Keys /\ day[r] \in Days
      /\ UNCHANGED <<key, day, count>>
  BY DEF UpsertUsage, QuotaInv, UsageExact, TypeOK
<1>2. CASE Fits(r) /\ pc' = [pc EXCEPT ![r] = "counted"]
  BY <1>1, <1>2, RefinesQuiet DEF CountedPc, TypeOK
<1>3. CASE ~Fits(r) /\ pc' = [pc EXCEPT ![r] = "exhausted"]
  <2>1. count[key[r]][day[r]] = Quota
    <3>1. count[key[r]][day[r]] \in 0..Quota /\ Quota \in Nat
      BY <1>1, ApiKeysAssumption DEF TypeOK
    <3> QED
      BY <1>3, <3>1 DEF Fits
  <2>2. Daily!Undecided(r)
    BY <1>1, Undecided DEF CountedPc
  <2>3. Entries(CountedPc)' = Entries(CountedPc)
    <3>1. pc[r] \notin CountedPc /\ "exhausted" \notin CountedPc
      BY <1>1 DEF CountedPc
    <3> QED
      BY <1>1, <1>3, <3>1, Enters
  <2>4. Entries({"exhausted"})' = Entries({"exhausted"}) \cup {Daily!Entry(r, key[r], day[r])}
    <3>1. pc[r] \notin {"exhausted"} /\ "exhausted" \in {"exhausted"}
      BY <1>1
    <3> QED
      BY <1>1, <1>3, <3>1, Enters
  <2>5. Daily!Refuse(r, key[r], day[r])
    BY <1>1, <2>1, <2>2, <2>3, <2>4 DEF Daily!Refuse
  <2> QED
    BY <1>1, <2>5 DEF Daily!Next
<1> QED
  BY <1>2, <1>3 DEF UpsertUsage, Goto

\* Every other step is a stutter: a crash keeps what is counted and what is refused.
LEMMA OthersStutter ==
    ASSUME TypeOK,
           \/ \E k \in Keys : CreateKey(k) \/ RevokeKey(k)
           \/ \E r \in Requests :
                \/ ValidateAPIKey(r) \/ LoadLimiter(r) \/ LoadOrStoreLimiter(r) \/ Allow(r)
                \/ FormatDate(r) \/ Acknowledge(r) \/ Abort(r)
           \/ Tick \/ Crash \/ UNCHANGED vars
    PROVE  UNCHANGED Daily!vars
<1> USE DEF Goto, limits, quotas, CountedPc, TypeOK
<1>1. ASSUME NEW k \in Keys, CreateKey(k) \/ RevokeKey(k) PROVE UNCHANGED Daily!vars
  BY <1>1, RefinesQuiet DEF CreateKey, RevokeKey
<1>2. ASSUME NEW r \in Requests, ValidateAPIKey(r) PROVE UNCHANGED Daily!vars
  BY <1>2, RefinesQuiet DEF ValidateAPIKey
<1>3. ASSUME NEW r \in Requests, LoadLimiter(r) PROVE UNCHANGED Daily!vars
  BY <1>3, RefinesQuiet DEF LoadLimiter
<1>4. ASSUME NEW r \in Requests, LoadOrStoreLimiter(r) PROVE UNCHANGED Daily!vars
  BY <1>4, RefinesQuiet DEF LoadOrStoreLimiter
<1>5. ASSUME NEW r \in Requests, Allow(r) PROVE UNCHANGED Daily!vars
  BY <1>5, RefinesQuiet DEF Allow
<1>6. ASSUME NEW r \in Requests, FormatDate(r) PROVE UNCHANGED Daily!vars
  BY <1>6, RefinesQuiet DEF FormatDate
<1>7. ASSUME NEW r \in Requests, Acknowledge(r) PROVE UNCHANGED Daily!vars
  BY <1>7, RefinesQuiet DEF Acknowledge
<1>8. ASSUME NEW r \in Requests, Abort(r) PROVE UNCHANGED Daily!vars
  BY <1>8, RefinesQuiet DEF Abort
<1>9. ASSUME Tick PROVE UNCHANGED Daily!vars
  BY <1>9, RefinesQuiet DEF Tick
<1>10. ASSUME Crash PROVE UNCHANGED Daily!vars
  BY <1>10, RefinesQuiet DEF Crash, Stages
<1>11. ASSUME UNCHANGED vars PROVE UNCHANGED Daily!vars
  BY <1>11, RefinesQuiet DEF vars
<1> QED
  BY <1>1, <1>2, <1>3, <1>4, <1>5, <1>6, <1>7, <1>8, <1>9, <1>10, <1>11

\* The transactions of any number of requests implement the one-step specification
\* DailyQuota: nobody is let through uncounted, counted twice, admitted beyond the quota or
\* refused before it (repository.go:111-138).
THEOREM DailyQuotaImplementation == Spec => ImplementsDailyQuota
<1>1. ASSUME KeysInv, [Next]_vars PROVE [Daily!Next]_Daily!vars
  <2>1. QuotaInv /\ TypeOK
    BY <1>1 DEF KeysInv, QuotaInv, UsageExact
  <2>2. ASSUME NEW r \in Requests, Commit(r) PROVE Daily!Next
    BY <2>1, <2>2, CommitAdmits
  <2>3. ASSUME NEW r \in Requests, UpsertUsage(r) PROVE Daily!Next \/ UNCHANGED Daily!vars
    BY <2>1, <2>3, UpsertRefuses
  <2> QED
    BY <1>1, <2>1, <2>2, <2>3, OthersStutter DEF Next, Step
<1> QED
  BY RefinesInit, Invariance, <1>1, PTL DEF Spec, ImplementsDailyQuota, Daily!Spec

-----------------------------------------------------------------------------

\* A key gets at most a burst and a token a second in every interval, however its first
\* requests race for the limiter (service.go:52-59, 121-127).
THEOREM RateIsHeld == Spec => []RateHeld
<1>1. ASSUME KeysInv PROVE RateHeld
  <2> SUFFICES ASSUME NEW k \in Keys, NEW from \in Times, NEW to \in Times, from <= to
               PROVE  Cardinality(Admitted(k, from, to)) <= Burst + (to - from)
    BY <1>1 DEF KeysInv, RateInv, OneLimiter, RateHeld, Admitted
  <2>1. CASE to < now
    BY <1>1, <2>1 DEF KeysInv, RateInv, HeldBefore
  <2>2. CASE now <= to
    BY <1>1, <2>2, UpToNow DEF KeysInv
  <2> QED
    BY <1>1, <2>1, <2>2, ApiKeysAssumption DEF KeysInv, RateInv, TypeOK, Times
<1> QED
  BY Invariance, <1>1, PTL
=============================================================================
