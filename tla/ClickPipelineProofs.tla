------------------------ MODULE ClickPipelineProofs ------------------------
(***************************************************************************)
(* Theorems about ClickPipeline, for any number of visits and any capacity *)
(* of the click channel.                                                   *)
(***************************************************************************)
EXTENDS ClickPipeline, SequenceTheorems, TLAPS

\* Visits whose click was accepted, waits, is in hand, was given up on or was written.
Counted == ToSet(accepted) \cup ToSet(clicks) \cup ToSet(clickChan) \cup ({task} \ {NoVisit})
             \cup abandoned

\* All of them have passed every check of their target.
ClickInv ==
    /\ TypeOK
    /\ \A v \in Counted : pc[v] \in {"answering", "redirected", "lost"}

-----------------------------------------------------------------------------

LEMMA Appended ==
    ASSUME NEW S, NEW s \in Seq(S), NEW e \in S
    PROVE  ToSet(Append(s, e)) = ToSet(s) \cup {e} /\ ToSet(s) \subseteq S
<1> DEFINE t == Append(s, e)
<1>1. /\ DOMAIN s = 1..Len(s) /\ DOMAIN t = 1..Len(s) + 1 /\ Len(s) \in Nat
      /\ \A i \in 1..Len(s) : t[i] = s[i] /\ s[i] \in S
      /\ t[Len(s) + 1] = e
  BY AppendProperties, LenProperties
<1> HIDE DEF t
<1> QED
  BY <1>1 DEF ToSet, t

LEMMA Singleton ==
    ASSUME NEW S, NEW e \in S
    PROVE  <<e>> \in Seq(S) /\ Len(<<e>>) = 1 /\ <<e>>[1] = e
OBVIOUS

LEMMA InFront ==
    ASSUME NEW S, NEW e \in S, NEW t \in Seq(S)
    PROVE  /\ <<e>> \o t \in Seq(S) /\ Len(<<e>> \o t) = 1 + Len(t)
           /\ \A i \in 1..1 + Len(t) : (<<e>> \o t)[i] = IF i = 1 THEN e ELSE t[i - 1]
           /\ <<e>> \o t # <<>> /\ Head(<<e>> \o t) = e /\ Tail(<<e>> \o t) = t
<1> DEFINE one == <<e>>
           both == one \o t
<1>1. one \in Seq(S) /\ Len(one) = 1 /\ one[1] = e /\ Len(t) \in Nat
  BY Singleton, LenProperties
<1> HIDE DEF one
<1>2. /\ one \o t \in Seq(S) /\ Len(one \o t) = Len(one) + Len(t)
      /\ \A i \in 1..Len(one) + Len(t) :
            (one \o t)[i] = IF i <= Len(one) THEN one[i] ELSE t[i - Len(one)]
  BY <1>1, ConcatProperties
<1>3. /\ both \in Seq(S) /\ Len(both) = 1 + Len(t)
      /\ \A i \in 1..1 + Len(t) : both[i] = IF i = 1 THEN e ELSE t[i - 1]
  BY <1>1, <1>2
<1> HIDE DEF both
<1>4. both # <<>> /\ Head(both) = e
  BY <1>1, <1>3, EmptySeq
<1>5. /\ Tail(both) \in Seq(S) /\ Len(Tail(both)) = Len(t)
      /\ \A i \in 1..Len(t) : Tail(both)[i] = t[i]
  BY <1>1, <1>3, <1>4, HeadTailProperties
<1>6. Tail(both) = t
  BY <1>5, SeqEqual
<1> QED
  BY <1>3, <1>4, <1>6 DEF both, one

LEMMA HeadTaken ==
    ASSUME NEW S, NEW s \in Seq(S), s # <<>>
    PROVE  /\ Head(s) \in S /\ Tail(s) \in Seq(S) /\ Len(Tail(s)) < Len(s)
           /\ {Head(s)} \cup ToSet(Tail(s)) \subseteq ToSet(s)
           /\ <<Head(s)>> \o Tail(s) = s
<1>1. /\ DOMAIN s = 1..Len(s) /\ Len(s) \in Nat \ {0} /\ Head(s) = s[1]
      /\ Head(s) \in S /\ Tail(s) \in Seq(S) /\ DOMAIN Tail(s) = 1..Len(s) - 1
      /\ Len(Tail(s)) = Len(s) - 1
      /\ \A i \in 1..Len(s) - 1 : Tail(s)[i] = s[i + 1]
  BY HeadTailProperties, LenProperties, EmptySeq
<1>2. {Head(s)} \cup ToSet(Tail(s)) \subseteq ToSet(s)
  BY <1>1 DEF ToSet
<1>3. <<Head(s)>> \o Tail(s) = s
  <2> DEFINE both == <<Head(s)>> \o Tail(s)
  <2>1. /\ both \in Seq(S) /\ Len(both) = 1 + Len(Tail(s))
        /\ \A i \in 1..1 + Len(Tail(s)) : both[i] = IF i = 1 THEN Head(s) ELSE Tail(s)[i - 1]
    BY <1>1, InFront
  <2> HIDE DEF both
  <2>2. Len(both) = Len(s) /\ \A i \in 1..Len(s) : both[i] = s[i]
    BY <1>1, <2>1
  <2> QED
    BY <2>1, <2>2, SeqEqual DEF both
<1> QED
  BY <1>1, <1>2, <1>3

-----------------------------------------------------------------------------

LEMMA TypeStep ==
    ASSUME TypeOK, [Next]_vars
    PROVE  TypeOK'
<1> USE ClickPipelineAssumption DEF TypeOK, Stages, Answers, Goto, processVars, workerVars, databaseVars
<1>1. ASSUME NEW v \in Visits, Receive(v) \/ Lookup(v) \/ CheckTarget(v) \/ Redirect(v)
      PROVE  TypeOK'
  <2>1. pc' \in [Visits -> {"idle"} \cup Stages \cup Answers]
    BY <1>1 DEF Receive, Lookup, CheckTarget, Redirect
  <2> QED
    BY <1>1, <2>1 DEF Receive, Lookup, CheckTarget, Redirect
<1>2. ASSUME NEW v \in Visits, Enqueue(v) PROVE TypeOK'
  <2>1. pc' \in [Visits -> {"idle"} \cup Stages \cup Answers]
    BY <1>2 DEF Enqueue
  <2>2. CASE Drop
    BY <1>2, <2>1, <2>2 DEF Enqueue, Drop
  <2>3. CASE /\ Len(clickChan) < Capacity /\ clickChan' = Append(clickChan, v)
             /\ accepted' = Append(accepted, v)
    <3>1. /\ Append(clickChan, v) \in Seq(Visits) /\ Append(accepted, v) \in Seq(Visits)
          /\ Len(Append(clickChan, v)) = Len(clickChan) + 1 /\ Len(clickChan) \in Nat
      BY AppendProperties, LenProperties
    <3>2. clickChan' \in Seq(Visits) /\ Len(clickChan') <= Capacity /\ accepted' \in Seq(Visits)
      BY <2>3, <3>1
    <3> QED
      BY <1>2, <2>1, <3>2 DEF Enqueue
  <2> QED
    BY <1>2, <2>2, <2>3 DEF Enqueue
<1>3. ASSUME TakeTask PROVE TypeOK'
  <2>1. /\ Head(clickChan) \in Visits /\ Tail(clickChan) \in Seq(Visits)
        /\ Len(Tail(clickChan)) < Len(clickChan)
        /\ Len(Tail(clickChan)) \in Nat /\ Len(clickChan) \in Nat
    BY <1>3, HeadTaken, LenProperties DEF TakeTask
  <2> QED
    BY <1>3, <2>1 DEF TakeTask
<1>4. ASSUME StoreClick PROVE TypeOK'
  <2>1. task \in Visits
    BY <1>4 DEF StoreClick
  <2>2. Append(clicks, task) \in Seq(Visits)
    BY <2>1, AppendProperties
  <2> QED
    BY <1>4, <2>2 DEF StoreClick
<1>5. ASSUME AcquireConn \/ FinishTask PROVE TypeOK'
  BY <1>5 DEF AcquireConn, FinishTask, Forget, GiveUp
<1>6. ASSUME NEW v \in Visits, LandLate(v) PROVE TypeOK'
  <2>1. Append(clicks, v) \in Seq(Visits)
    BY AppendProperties
  <2> QED
    BY <1>6, <2>1 DEF LandLate
<1>7. ASSUME Signal \/ StopServer \/ ClosePool PROVE TypeOK'
  <2>1. forced' \in BOOLEAN
    <3>1. forced' = forced \/ forced' = TRUE \/ forced' = FALSE
      BY <1>7 DEF Signal, StopServer, ClosePool
    <3> QED
      BY <3>1
  <2> QED
    BY <1>7, <2>1 DEF Signal, StopServer, ClosePool
<1>8. ASSUME NEW how \in {"exited", "killed"}, End(how) PROVE TypeOK'
  <2>1. pc' \in [Visits -> {"idle"} \cup Stages \cup Answers]
    BY <1>8 DEF End
  <2>2. clickChan' \in Seq(Visits) /\ Len(clickChan') <= Capacity
    BY <1>8, EmptySeq DEF End
  <2>3. /\ main' = how /\ worker' = "waiting" /\ task' = NoVisit
        /\ UNCHANGED <<clicks, forced, accepted>> /\ abandoned' \subseteq Visits
    BY <1>8 DEF End, GiveUp
  <2> QED
    BY <2>1, <2>2, <2>3
<1>9. ASSUME UNCHANGED vars PROVE TypeOK'
  BY <1>9 DEF vars
<1> QED
  BY <1>1, <1>2, <1>3, <1>4, <1>5, <1>7, <1>8, <1>9, <1>6
  DEF Next, HandlerStep, WorkerStep, Exit, Kill

\* A click enters the pipeline only behind the checks, and its visit never goes back.
LEMMA CountedStep ==
    ASSUME ClickInv, [Next]_vars
    PROVE  \A v \in Counted' : pc'[v] \in {"answering", "redirected", "lost"}
<1> USE ClickPipelineAssumption DEF processVars, workerVars, databaseVars, Stages
<1>1. /\ pc \in [Visits -> {"idle"} \cup Stages \cup Answers]
      /\ clickChan \in Seq(Visits) /\ clicks \in Seq(Visits) /\ accepted \in Seq(Visits)
      /\ task \in Visits \cup {NoVisit} /\ (worker = "executing" => task \in Visits)
      /\ abandoned \subseteq Visits
      /\ \A v \in Counted : pc[v] \in {"answering", "redirected", "lost"}
  BY DEF ClickInv, TypeOK
<1>2. Counted \subseteq Visits
  BY <1>1, LenProperties DEF Counted, ToSet
<1>3. ASSUME UNCHANGED <<accepted, clicks, abandoned, clickChan, task>>,
             NEW v \in Visits, NEW s, Goto(v, s),
             pc[v] \notin {"answering", "redirected", "lost"} \/ s = "redirected"
      PROVE  \A u \in Counted' : pc'[u] \in {"answering", "redirected", "lost"}
  <2>1. Counted' = Counted
    BY <1>3 DEF Counted
  <2>2. \A u \in Visits : pc'[u] = IF u = v THEN s ELSE pc[u]
    BY <1>1, <1>3 DEF Goto
  <2> QED
    BY <1>1, <1>2, <1>3, <2>1, <2>2
<1>4. ASSUME NEW v \in Visits, Receive(v) \/ Lookup(v) \/ CheckTarget(v) \/ Redirect(v)
      PROVE  \A u \in Counted' : pc'[u] \in {"answering", "redirected", "lost"}
  <2>1. PICK s : /\ Goto(v, s)
                 /\ pc[v] \notin {"answering", "redirected", "lost"} \/ s = "redirected"
    BY <1>4 DEF Receive, Lookup, CheckTarget, Redirect
  <2>2. UNCHANGED <<accepted, clicks, abandoned, clickChan, task>>
    BY <1>4 DEF Receive, Lookup, CheckTarget, Redirect
  <2> QED
    BY <1>3, <2>1, <2>2
<1>5. ASSUME NEW v \in Visits, Enqueue(v)
      PROVE  \A u \in Counted' : pc'[u] \in {"answering", "redirected", "lost"}
  <2>1. \A u \in Visits : pc'[u] = IF u = v THEN "answering" ELSE pc[u]
    BY <1>1, <1>5 DEF Enqueue, Goto
  <2>2. /\ ToSet(Append(clickChan, v)) = ToSet(clickChan) \cup {v}
        /\ ToSet(Append(accepted, v)) = ToSet(accepted) \cup {v}
    BY <1>1, Appended
  <2>3. Counted' \subseteq Counted \cup {v}
    BY <1>5, <2>2 DEF Enqueue, Drop, Counted
  <2> QED
    BY <1>1, <1>2, <2>1, <2>3
<1>6. ASSUME TakeTask \/ StoreClick \/ AcquireConn \/ FinishTask
      PROVE  \A u \in Counted' : pc'[u] \in {"answering", "redirected", "lost"}
  <2>1. UNCHANGED pc
    BY <1>6 DEF TakeTask, StoreClick, AcquireConn, FinishTask
  <2>2. CASE TakeTask
    <3>1. {task'} \cup ToSet(clickChan') \subseteq ToSet(clickChan)
      BY <1>1, <2>2, HeadTaken DEF TakeTask
    <3>2. Counted' \subseteq Counted
      BY <2>2, <3>1 DEF TakeTask, Counted
    <3> QED
      BY <1>1, <2>1, <3>2
  <2>3. CASE StoreClick
    <3>1. ToSet(clicks') = ToSet(clicks) \cup {task} /\ task # NoVisit
      BY <1>1, <2>3, Appended DEF StoreClick
    <3>2. Counted' = Counted
      BY <2>3, <3>1 DEF StoreClick, Counted
    <3> QED
      BY <1>1, <2>1, <3>2
  <2>4. CASE AcquireConn \/ FinishTask
    <3>1. Counted' \subseteq Counted
      BY <1>1, <2>4 DEF AcquireConn, FinishTask, Forget, GiveUp, Counted
    <3> QED
      BY <1>1, <2>1, <3>1
  <2> QED
    BY <1>6, <2>2, <2>3, <2>4
<1>7. ASSUME NEW how, End(how)
      PROVE  \A u \in Counted' : pc'[u] \in {"answering", "redirected", "lost"}
  <2>1. /\ clickChan' = <<>> /\ task' = NoVisit /\ UNCHANGED <<clicks, accepted>>
        /\ abandoned' \subseteq abandoned \cup ({task} \ {NoVisit})
    BY <1>1, <1>7 DEF End, GiveUp
  <2>2. ToSet(clickChan') = {}
    BY <2>1 DEF ToSet
  <2>3. Counted' \subseteq Counted
    BY <2>1, <2>2 DEF Counted
  <2>4. \A u \in Visits : pc'[u] = "lost" \/ pc'[u] = pc[u]
    BY <1>7 DEF End
  <2> QED
    BY <1>1, <1>2, <2>3, <2>4
<1>8. ASSUME NEW v \in Visits, LandLate(v)
      PROVE  \A u \in Counted' : pc'[u] \in {"answering", "redirected", "lost"}
  <2>1. /\ v \in abandoned /\ abandoned' \subseteq abandoned /\ clicks' = Append(clicks, v)
        /\ UNCHANGED <<pc, accepted, clickChan, task>>
    BY <1>8 DEF LandLate
  <2>2. ToSet(clicks') = ToSet(clicks) \cup {v}
    BY <1>1, <2>1, Appended
  <2>3. Counted' \subseteq Counted
    BY <2>1, <2>2 DEF Counted
  <2> QED
    BY <1>1, <2>1, <2>3
<1>9. ASSUME UNCHANGED <<pc, accepted, clicks, abandoned, clickChan, task>>
      PROVE  \A u \in Counted' : pc'[u] \in {"answering", "redirected", "lost"}
  BY <1>1, <1>9 DEF Counted
<1> QED
  BY <1>4, <1>5, <1>6, <1>7, <1>9, <1>8
  DEF Next, HandlerStep, WorkerStep, Signal, StopServer, ClosePool, Exit, Kill, vars

\* The inductive invariant of the component.
THEOREM ClickInvariance == Spec => []ClickInv
<1>1. Init => ClickInv
  <2> SUFFICES ASSUME Init PROVE ClickInv
    OBVIOUS
  <2>1. /\ clickChan \in Seq(Visits) /\ Len(clickChan) <= Capacity
        /\ clicks \in Seq(Visits) /\ accepted \in Seq(Visits)
    BY EmptySeq, ClickPipelineAssumption DEF Init
  <2>2. ToSet(clickChan) = {} /\ ToSet(clicks) = {} /\ ToSet(accepted) = {} /\ abandoned = {}
    BY DEF Init, ToSet
  <2>3. /\ pc = [v \in Visits |-> "idle"] /\ worker = "waiting" /\ task = NoVisit
        /\ main = "running" /\ forced = FALSE
    BY DEF Init
  <2>4. TypeOK
    BY <2>1, <2>2, <2>3, ClickPipelineAssumption DEF TypeOK
  <2> QED
    BY <2>2, <2>3, <2>4 DEF ClickInv, Counted
<1>2. ClickInv /\ [Next]_vars => ClickInv'
  BY TypeStep, CountedStep DEF ClickInv
<1> QED
  BY <1>1, <1>2, PTL DEF Spec

\* No click of a visit that was refused, not found or is still being checked is in the
\* channel or the table.
THEOREM OnlyRedirectsAreCounted == Spec => []OnlyRedirectsCount
<1>1. ClickInv => OnlyRedirectsCount
  BY DEF ClickInv, OnlyRedirectsCount, Counted
<1> QED
  BY <1>1, ClickInvariance, PTL

-----------------------------------------------------------------------------
(* ClickPipeline implements ClickLog *)

\* What is pending is what the worker has not stored yet and what waits behind it.
LEMMA PendingIs ==
    ASSUME TypeOK
    PROVE  /\ Pending \in Seq(Visits)
           /\ worker \notin {"taken", "executing"} => Pending = clickChan
           /\ worker \in {"taken", "executing"} =>
                 /\ task \in Visits /\ Pending = <<task>> \o clickChan
                 /\ Pending # <<>> /\ Head(Pending) = task /\ Tail(Pending) = clickChan
<1>1. clickChan \in Seq(Visits)
  BY DEF TypeOK
<1>2. CASE worker \notin {"taken", "executing"}
  <2>1. Pending = <<>> \o clickChan
    BY <1>2 DEF Pending
  <2> QED
    BY <1>1, <1>2, <2>1, ConcatEmptySeq
<1>3. CASE worker \in {"taken", "executing"}
  <2>1. task \in Visits /\ Pending = <<task>> \o clickChan
    BY <1>3 DEF Pending, TypeOK
  <2> QED
    BY <1>1, <1>3, <2>1, InFront
<1> QED
  BY <1>2, <1>3

\* A click that goes into the channel goes behind what is pending.
LEMMA EnqueueRefines ==
    ASSUME ClickInv, NEW v \in Visits, Enqueue(v)
    PROVE  [Log!Next]_Log!vars
<1>1. TypeOK /\ clickChan \in Seq(Visits) /\ accepted \in Seq(Visits)
  BY DEF ClickInv, TypeOK
<1>2. CASE Drop
  BY <1>2 DEF Enqueue, Drop, Log!vars, Pending, databaseVars
<1>3. CASE clickChan' = Append(clickChan, v) /\ accepted' = Append(accepted, v)
  <2>1. UNCHANGED <<worker, task, clicks, abandoned>> /\ pc[v] = "cleared"
    BY DEF Enqueue, databaseVars
  <2>2. \A i \in DOMAIN accepted : accepted[i] # v
    BY <2>1 DEF ClickInv, Counted, ToSet
  <2>3. Pending' = Append(Pending, v)
    <3> DEFINE held == IF worker \in {"taken", "executing"} THEN <<task>> ELSE <<>>
    <3>1. held \in Seq(Visits)
      <4>1. CASE worker \in {"taken", "executing"}
        BY <1>1, <4>1, PendingIs, Singleton
      <4>2. CASE worker \notin {"taken", "executing"}
        BY <4>2, EmptySeq
      <4> QED
        BY <4>1, <4>2
    <3>2. Pending = held \o clickChan /\ Pending' = held \o Append(clickChan, v)
      BY <1>3, <2>1 DEF Pending
    <3> HIDE DEF held
    <3>3. <<v>> \in Seq(Visits) /\ held \o clickChan \in Seq(Visits)
      BY <1>1, <3>1, Singleton, ConcatProperties
    <3>4. Append(clickChan, v) = clickChan \o <<v>>
      BY <1>1, AppendIsConcat
    <3>5. Append(held \o clickChan, v) = (held \o clickChan) \o <<v>>
      BY <3>3, AppendIsConcat
    <3>6. (held \o clickChan) \o <<v>> = held \o (clickChan \o <<v>>)
      BY <1>1, <3>1, <3>3, ConcatAssociative
    <3> QED
      BY <3>2, <3>4, <3>5, <3>6
  <2>4. Log!Accept(v)
    BY <1>3, <2>1, <2>2, <2>3 DEF Log!Accept
  <2> QED
    BY <2>4 DEF Log!Next
<1> QED
  BY <1>2, <1>3 DEF Enqueue

\* The worker settles the oldest click when it is stored, or when the call gives up on it,
\* which may leave its INSERT behind.
LEMMA WorkerRefines ==
    ASSUME ClickInv, ClickInv', WorkerStep
    PROVE  [Log!Next]_Log!vars
<1>1. /\ TypeOK /\ TypeOK' /\ UNCHANGED accepted
      /\ clickChan \in Seq(Visits)
  BY DEF ClickInv, TypeOK, WorkerStep, TakeTask, AcquireConn, StoreClick, FinishTask
<1>2. TakeTask \/ AcquireConn => UNCHANGED <<clicks, abandoned>>
  BY DEF TakeTask, AcquireConn, databaseVars
<1>3. CASE TakeTask
  <2>1. Pending = clickChan
    BY <1>1, <1>3, PendingIs DEF TakeTask
  <2>2. Pending' = <<Head(clickChan)>> \o Tail(clickChan)
    BY <1>3 DEF TakeTask, Pending
  <2>3. Pending' = Pending
    BY <1>1, <1>3, <2>1, <2>2, HeadTaken DEF TakeTask
  <2> QED
    BY <1>1, <1>3, <1>2, <2>3 DEF Log!vars
<1>4. CASE AcquireConn
  BY <1>1, <1>4, <1>2 DEF AcquireConn, Log!vars, Pending
<1>5. CASE StoreClick
  <2>1. /\ Pending # <<>> /\ Head(Pending) = task /\ Tail(Pending) = clickChan
    BY <1>1, <1>5, PendingIs DEF StoreClick
  <2>2. Pending' = Tail(Pending) /\ clicks' = Append(clicks, Head(Pending))
    <3>1. worker' \notin {"taken", "executing"} /\ clickChan' = clickChan
      BY <1>5 DEF StoreClick
    <3>2. Pending' = <<>> \o clickChan
      BY <3>1 DEF Pending
    <3> QED
      BY <1>1, <1>5, <2>1, <3>2, ConcatEmptySeq DEF StoreClick
  <2>3. Log!Settle
    BY <1>1, <1>5, <2>1, <2>2 DEF StoreClick, Log!Settle
  <2> QED
    BY <2>3 DEF Log!Next
<1>6. CASE FinishTask
  <2>1. Pending' = clickChan /\ UNCHANGED clicks
    <3>1. Pending' = <<>> \o clickChan /\ UNCHANGED clicks
      BY <1>6 DEF FinishTask, Forget, Pending
    <3> QED
      BY <1>1, <3>1, ConcatEmptySeq
  <2>2. CASE worker \in {"taken", "executing"}
    <3>1. Pending # <<>> /\ Head(Pending) = task /\ Tail(Pending) = clickChan
      BY <1>1, <2>2, PendingIs
    <3>2. abandoned' \in {abandoned, abandoned \cup {task}}
      BY <1>6 DEF FinishTask, GiveUp
    <3>3. Log!Settle
      BY <1>1, <2>1, <3>1, <3>2 DEF Log!Settle
    <3> QED
      BY <3>3 DEF Log!Next
  <2>3. CASE worker \notin {"taken", "executing"}
    <3>1. abandoned' = abandoned
      BY <1>6, <2>3 DEF FinishTask, GiveUp
    <3> QED
      BY <1>1, <2>1, <2>3, <3>1, PendingIs DEF Log!vars
  <2> QED
    BY <2>2, <2>3
<1> QED
  BY <1>3, <1>4, <1>5, <1>6 DEF WorkerStep

\* The end of the process loses what is pending, but perhaps not an INSERT under way.
LEMMA EndLosesPending ==
    ASSUME TypeOK, NEW how, End(how)
    PROVE  [Log!Next]_Log!vars
<1>1. Pending' = <<>> \o <<>> /\ UNCHANGED <<accepted, clicks>>
  BY DEF End, Pending
<1>2. Pending' = <<>>
  BY <1>1, EmptySeq, ConcatEmptySeq
<1>3. \/ abandoned' = abandoned
      \/ Pending # <<>> /\ abandoned' = abandoned \cup {Head(Pending)}
  BY PendingIs DEF End, GiveUp
<1>4. CASE Pending = <<>>
  BY <1>1, <1>2, <1>3, <1>4 DEF Log!vars
<1>5. CASE Pending # <<>>
  <2>1. Log!Stop
    BY <1>1, <1>2, <1>3, <1>5 DEF Log!Stop
  <2> QED
    BY <2>1 DEF Log!Next
<1> QED
  BY <1>4, <1>5

\* Channel, worker and database implement the lossy log: a click is written once at most,
\* by an INSERT that outlives its call or its process too; and those stored while their
\* calls last are written in the order in which they were accepted.
THEOREM PipelineIsALossyLog == Spec => ImplementsLog
<1>1. Init => Log!Init
  <2> SUFFICES ASSUME Init PROVE Log!Init
    OBVIOUS
  <2>1. Pending = <<>> \o <<>>
    BY DEF Init, Pending
  <2>2. Pending = <<>>
    BY <2>1, EmptySeq, ConcatEmptySeq
  <2> QED
    BY <2>2 DEF Init, Log!Init
<1>2. ASSUME ClickInv, ClickInv', [Next]_vars PROVE [Log!Next]_Log!vars
  <2>1. ASSUME NEW v \in Visits, Enqueue(v) PROVE [Log!Next]_Log!vars
    BY <1>2, <2>1, EnqueueRefines
  <2>2. CASE WorkerStep
    BY <1>2, <2>2, WorkerRefines
  <2>3. ASSUME NEW how, End(how) PROVE [Log!Next]_Log!vars
    BY <1>2, <2>3, EndLosesPending DEF ClickInv
  <2>4. CASE UNCHANGED <<workerVars, accepted>>
    BY <2>4 DEF workerVars, databaseVars, Log!vars, Pending
  <2>5. ASSUME NEW v \in Visits, LandLate(v) PROVE [Log!Next]_Log!vars
    <3>1. Log!Land(v)
      BY <2>5 DEF LandLate, Log!Land, Pending
    <3> QED
      BY <3>1 DEF Log!Next
  <2> QED
    BY <1>2, <2>1, <2>2, <2>3, <2>4, <2>5
    DEF Next, HandlerStep, Receive, Lookup, CheckTarget, Redirect, Signal, StopServer, ClosePool,
        Exit, Kill, vars, workerVars, databaseVars
<1> QED
  BY <1>1, <1>2, ClickInvariance, PTL DEF Spec, ImplementsLog, Log!Spec

-----------------------------------------------------------------------------
(* ClickPipeline implements Lifecycle *)

\* The refinement mapping, by name.
Phase == CASE ~Alive            -> "down"
           [] main = "running"  -> "serving"
           [] main = "draining" -> "stopping"
           [] OTHER             -> "stopped"

FateOf(stage) == CASE stage = "idle"   -> "new"
                   [] stage \in Stages -> "open"
                   [] stage = "lost"   -> "broken"
                   [] OTHER            -> "answered"

Fate == [v \in Visits |-> FateOf(pc[v])]

\* A handler is the request that is taken, goes on or is answered.
LEMMA HandlerRefines ==
    ASSUME TypeOK, UNCHANGED processVars, NEW v \in Visits, NEW s, Goto(v, s),
           \/ pc[v] = "idle" /\ main = "running" /\ s = "resolving"
           \/ pc[v] \in Stages /\ s \in Stages
           \/ pc[v] \in Stages /\ Alive /\ s \in {"notfound", "blocked", "redirected"}
    PROVE  [Lifecycle!Next]_Lifecycle!vars
<1>1. /\ Fate' = [Fate EXCEPT ![v] = FateOf(s)] /\ Fate[v] = FateOf(pc[v])
      /\ UNCHANGED <<Phase, forced>>
  BY DEF Fate, Phase, processVars, Alive, TypeOK, Goto
<1>2. CASE pc[v] = "idle" /\ main = "running" /\ s = "resolving"
  <2>1. Phase = "serving" /\ Fate[v] = "new" /\ FateOf(s) = "open"
    BY <1>1, <1>2 DEF Phase, Alive, FateOf, Stages
  <2>2. Fate' = [Fate EXCEPT ![v] = "open"]
    BY <1>1, <2>1
  <2>3. Lifecycle!Accept(v)
    BY <1>1, <2>1, <2>2 DEF Lifecycle!Accept, Phase, Fate, FateOf
  <2> QED
    BY <2>3 DEF Lifecycle!Next
<1>3. CASE pc[v] \in Stages /\ s \in Stages
  <2>1. Fate[v] = "open" /\ FateOf(s) = "open"
    BY <1>1, <1>3 DEF FateOf, Stages
  <2>2. Fate' = Fate
    BY <1>1, <2>1 DEF Fate
  <2> QED
    BY <1>1, <2>2 DEF Lifecycle!vars, Phase, Fate, FateOf
<1>4. CASE pc[v] \in Stages /\ Alive /\ s \in {"notfound", "blocked", "redirected"}
  <2>1. Phase # "down" /\ Fate[v] = "open" /\ FateOf(s) = "answered"
    BY <1>1, <1>4 DEF Phase, FateOf, Stages
  <2>2. Lifecycle!Answer(v)
    BY <1>1, <2>1 DEF Lifecycle!Answer, Phase, Fate, FateOf
  <2> QED
    BY <2>2 DEF Lifecycle!Next
<1> QED
  BY <1>2, <1>3, <1>4

\* server.Shutdown, the rest of main and the end of the process.
LEMMA MainRefines ==
    ASSUME TypeOK, Signal \/ StopServer \/ ClosePool \/ Exit \/ Kill
    PROVE  [Lifecycle!Next]_Lifecycle!vars
<1>1. CASE Signal
  <2>1. Phase = "serving" /\ Phase' = "stopping" /\ UNCHANGED <<Fate, forced>>
    BY <1>1 DEF Signal, Phase, Alive, Fate
  <2>2. Lifecycle!Signal
    BY <2>1 DEF Lifecycle!Signal, Phase, Fate, FateOf
  <2> QED
    BY <2>2 DEF Lifecycle!Next
<1>2. CASE StopServer
  <2>1. Phase = "stopping" /\ Phase' = "stopped" /\ Fate' = Fate
    BY <1>2 DEF StopServer, Phase, Alive, Fate
  <2>2. (\E v \in Visits : pc[v] \in Stages) <=> Lifecycle!SomeOpen
    BY DEF Lifecycle!SomeOpen, Stages
  <2>3. forced' = Lifecycle!SomeOpen
    <3>1. forced' = (\E v \in Visits : pc[v] \in Stages)
      BY <1>2 DEF StopServer
    <3>2. Lifecycle!SomeOpen \in BOOLEAN
      BY DEF Lifecycle!SomeOpen
    <3> QED
      BY <2>2, <3>1, <3>2
  <2>4. Lifecycle!StopServer
    BY <2>1, <2>3 DEF Lifecycle!StopServer, Phase, Fate, FateOf
  <2> QED
    BY <2>4 DEF Lifecycle!Next
<1>3. CASE ClosePool
  <2>1. UNCHANGED <<Phase, Fate, forced>>
    BY <1>3 DEF ClosePool, Phase, Alive, Fate
  <2> QED
    BY <2>1 DEF Lifecycle!vars, Phase, Fate, FateOf
<1>4. ASSUME Alive, NEW how \in {"exited", "killed"}, End(how)
      PROVE  [Lifecycle!Next]_Lifecycle!vars
  <2>1. Phase # "down" /\ Phase' = "down" /\ forced' = forced
    BY <1>4 DEF End, Phase, Alive
  <2>2. Fate' = [v \in Visits |-> IF Fate[v] = "open" THEN "broken" ELSE Fate[v]]
    <3>1. ASSUME NEW v \in Visits
          PROVE  FateOf(pc'[v]) = IF FateOf(pc[v]) = "open" THEN "broken" ELSE FateOf(pc[v])
      BY <1>4 DEF End, FateOf, Stages
    <3> QED
      BY <3>1 DEF Fate
  <2>3. Lifecycle!Down
    BY <2>1, <2>2 DEF Lifecycle!Down, Phase, Fate, FateOf
  <2> QED
    BY <2>3 DEF Lifecycle!Next
<1> QED
  BY <1>1, <1>2, <1>3, <1>4 DEF Exit, Kill, Alive

\* Handlers and main implement Lifecycle: a redirect is broken only by the end of the
\* process, and none is taken once the shutdown has begun.
THEOREM RedirectsAreServed == Spec => ImplementsLifecycle
<1>1. Init => Lifecycle!Init
  <2> SUFFICES ASSUME Init PROVE Lifecycle!Init
    OBVIOUS
  <2>1. (\A v \in Visits : pc[v] = "idle") /\ FateOf("idle") = "new"
    BY DEF Init, FateOf, Stages
  <2>2. Phase = "serving" /\ forced = FALSE
    BY DEF Init, Phase, Alive
  <2>3. Fate = [v \in Visits |-> "new"]
    BY <2>1 DEF Fate
  <2> QED
    BY <2>2, <2>3 DEF Phase, Fate, FateOf, Lifecycle!Init
<1>2. ASSUME ClickInv, [Next]_vars PROVE [Lifecycle!Next]_Lifecycle!vars
  <2>1. TypeOK
    BY <1>2 DEF ClickInv
  <2>2. ASSUME NEW v \in Visits, Receive(v) \/ HandlerStep(v)
        PROVE  [Lifecycle!Next]_Lifecycle!vars
    <3>1. PICK s : /\ Goto(v, s)
                   /\ \/ pc[v] = "idle" /\ main = "running" /\ s = "resolving"
                      \/ pc[v] \in Stages /\ s \in Stages
                      \/ pc[v] \in Stages /\ Alive /\ s \in {"notfound", "blocked", "redirected"}
      BY <2>2 DEF Receive, Listening, HandlerStep, Lookup, CheckTarget, Enqueue, Redirect, Stages
    <3>2. UNCHANGED processVars
      BY <2>2 DEF Receive, HandlerStep, Lookup, CheckTarget, Enqueue, Redirect
    <3> QED
      BY <2>1, <3>1, <3>2, HandlerRefines
  <2>3. CASE Signal \/ StopServer \/ ClosePool \/ Exit \/ Kill
    BY <2>1, <2>3, MainRefines
  <2>4. CASE UNCHANGED <<pc, main, forced>>
    BY <2>4 DEF Lifecycle!vars, Alive
  <2> QED
    BY <1>2, <2>2, <2>3, <2>4
    DEF Next, WorkerStep, TakeTask, AcquireConn, StoreClick, FinishTask, LandLate, processVars, vars
<1> QED
  BY <1>1, <1>2, ClickInvariance, PTL DEF Spec, ImplementsLifecycle, Lifecycle!Spec
=============================================================================
