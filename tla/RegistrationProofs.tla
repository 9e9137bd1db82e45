------------------------- MODULE RegistrationProofs -------------------------
(***************************************************************************)
(* Theorems about Registration, for any number of registrations and        *)
(* addresses and any capacity of the mail channel.                         *)
(***************************************************************************)
EXTENDS Registration, SequenceTheorems, TLAPS

\* Who has stored an account, who has not, and who has not reached the mail channel.
Stored   == {"committed", "registered", "tokenMade", "answering", "created", "panicked"}
Unstored == {"idle", "received", "taken", "invalid"} \cup InTx
Early    == Unstored \cup {"committed", "registered", "tokenMade"}

\* An account is its two rows.  The addresses of open transactions are free, and each
\* has one of them.
RowsInv ==
    /\ users = plans
    /\ \A q, r \in users : email[q] = email[r] => q = r
    /\ \A r \in Requests :
        /\ pc[r] \in Stored => r \in users
        /\ pc[r] \in Unstored => r \notin users
        /\ pc[r] \in InTx => ~EmailTaken(r) /\ ~EmailPending(r)

\* The mails that were sent, the one in hand and those in the channel are different ones,
\* of handlers that have passed the channel and stored their accounts.
Mails == ToSet(sent) \cup ({task} \ {NoRequest}) \cup ToSet(emailChan)

MailInv ==
    /\ IsInjective(sent) /\ IsInjective(emailChan)
    /\ ToSet(sent) \cap ToSet(emailChan) = {}
    /\ task \notin ToSet(sent) \cup ToSet(emailChan)
    /\ \A r \in Mails : r \in users /\ pc[r] \notin Early

\* The channel is closed by main when it no longer waits for handlers; the worker returns
\* from an empty closed channel, and main closes the pool after it.
ShutdownInv ==
    /\ main \in {"waiting", "drained", "poolClosed", "exited"} => chanClosed
    /\ chanClosed => main \notin {"running", "stopping", "stopped", "closing"}
    /\ worker = "returned" => emailChan = <<>> /\ (chanClosed \/ ~Alive)
    /\ main \in {"drained", "poolClosed"} \/ ~Alive => worker = "returned"

\* After server.Shutdown a handler is left only if it gave up; none survives the process.
LifecycleInv ==
    /\ main \in {"running", "stopping"} => ~forced
    /\ main \notin {"running", "stopping"} => HandlersEnded \/ forced
    /\ ~Alive => HandlersEnded

RegistrationInv == RowsInv /\ MailInv /\ ShutdownInv /\ LifecycleInv

-----------------------------------------------------------------------------
(* Sequences without repetition *)

LEMMA ToSetIsSubset ==
    ASSUME NEW S, NEW s \in Seq(S)
    PROVE  ToSet(s) \subseteq S /\ (s # <<>> => ToSet(s) # {})
<1>1. DOMAIN s = 1..Len(s) /\ \A i \in DOMAIN s : s[i] \in S
  BY LenProperties
<1>2. ASSUME s # <<>> PROVE s[1] \in ToSet(s)
  <2>1. 1 \in DOMAIN s
    BY <1>1, <1>2, EmptySeq
  <2> QED
    BY <2>1 DEF ToSet
<1> QED
  BY <1>1, <1>2 DEF ToSet

LEMMA Appended ==
    ASSUME NEW S, NEW s \in Seq(S), NEW e \in S
    PROVE  /\ ToSet(Append(s, e)) = ToSet(s) \cup {e}
           /\ IsInjective(s) /\ e \notin ToSet(s) => IsInjective(Append(s, e))
<1> DEFINE t == Append(s, e)
<1>1. /\ DOMAIN s = 1..Len(s) /\ DOMAIN t = 1..Len(s) + 1 /\ Len(s) \in Nat
      /\ \A i \in 1..Len(s) : t[i] = s[i]
      /\ t[Len(s) + 1] = e
  BY AppendProperties, LenProperties
<1> HIDE DEF t
<1>2. ToSet(t) = ToSet(s) \cup {e}
  BY <1>1 DEF ToSet
<1>3. ASSUME IsInjective(s), e \notin ToSet(s) PROVE IsInjective(t)
  BY <1>1, <1>3 DEF IsInjective, ToSet
<1> QED
  BY <1>2, <1>3 DEF t

LEMMA HeadTaken ==
    ASSUME NEW S, NEW s \in Seq(S), s # <<>>
    PROVE  /\ Head(s) \in S /\ Tail(s) \in Seq(S)
           /\ ToSet(s) = {Head(s)} \cup ToSet(Tail(s))
           /\ IsInjective(s) => IsInjective(Tail(s)) /\ Head(s) \notin ToSet(Tail(s))
<1> DEFINE h == Head(s)
           t == Tail(s)
<1>1. /\ DOMAIN s = 1..Len(s) /\ Len(s) \in Nat \ {0} /\ h = s[1]
      /\ h \in S /\ t \in Seq(S) /\ DOMAIN t = 1..Len(s) - 1
      /\ \A i \in 1..Len(s) - 1 : t[i] = s[i + 1]
  BY HeadTailProperties, LenProperties, EmptySeq
<1> HIDE DEF h, t
<1>2. ToSet(s) = {h} \cup ToSet(t)
  <2>1. ASSUME NEW i \in DOMAIN s PROVE s[i] = h \/ \E j \in DOMAIN t : s[i] = t[j]
    <3>1. i = 1 \/ (i - 1 \in DOMAIN t /\ s[i] = t[i - 1])
      BY <1>1
    <3> QED
      BY <1>1, <3>1
  <2>2. ASSUME NEW j \in DOMAIN t PROVE \E i \in DOMAIN s : t[j] = s[i]
    BY <1>1
  <2>3. 1 \in DOMAIN s /\ s[1] = h
    BY <1>1
  <2> QED
    BY <2>1, <2>2, <2>3, SMTT(30) DEF ToSet
<1>3. ASSUME IsInjective(s) PROVE IsInjective(t) /\ h \notin ToSet(t)
  <2>1. \A i \in DOMAIN t : i + 1 \in DOMAIN s /\ i + 1 # 1 /\ t[i] = s[i + 1]
    BY <1>1
  <2>2. \A i \in DOMAIN t : h # t[i]
    BY <1>1, <1>3, <2>1 DEF IsInjective
  <2>3. ASSUME NEW i \in DOMAIN t, NEW j \in DOMAIN t, t[i] = t[j] PROVE i = j
    <3>1. i + 1 = j + 1
      BY <1>3, <2>1, <2>3 DEF IsInjective
    <3> QED
      BY <1>1, <3>1
  <2> QED
    BY <2>2, <2>3 DEF IsInjective, ToSet
<1> QED
  BY <1>1, <1>2, <1>3 DEF h, t

LEMMA Concatenated ==
    ASSUME NEW S, NEW s \in Seq(S), NEW t \in Seq(S)
    PROVE  /\ ToSet(s \o t) = ToSet(s) \cup ToSet(t)
           /\ IsInjective(s) /\ IsInjective(t) /\ ToSet(s) \cap ToSet(t) = {}
                => IsInjective(s \o t)
<1> DEFINE u == s \o t
<1>1. /\ DOMAIN s = 1..Len(s) /\ DOMAIN t = 1..Len(t) /\ Len(s) \in Nat /\ Len(t) \in Nat
      /\ DOMAIN u = 1..Len(s) + Len(t)
      /\ \A i \in 1..Len(s) + Len(t) : u[i] = IF i <= Len(s) THEN s[i] ELSE t[i - Len(s)]
  BY ConcatProperties, LenProperties
<1> HIDE DEF u
<1>2. \A j \in 1..Len(t) : j + Len(s) \in DOMAIN u /\ u[j + Len(s)] = t[j]
  BY <1>1
<1>3. \A i \in 1..Len(s) : i \in DOMAIN u /\ u[i] = s[i]
  BY <1>1
<1>4. \A i \in DOMAIN u :
          \/ i \in DOMAIN s /\ u[i] = s[i]
          \/ i - Len(s) \in DOMAIN t /\ u[i] = t[i - Len(s)]
  BY <1>1
<1>5. ToSet(u) = ToSet(s) \cup ToSet(t)
  <2>1. ToSet(u) \subseteq ToSet(s) \cup ToSet(t)
    BY <1>4 DEF ToSet
  <2>2. ToSet(s) \subseteq ToSet(u)
    BY <1>1, <1>3 DEF ToSet
  <2>3. ToSet(t) \subseteq ToSet(u)
    BY <1>1, <1>2 DEF ToSet
  <2> QED
    BY <2>1, <2>2, <2>3
<1>6. ASSUME IsInjective(s), IsInjective(t), ToSet(s) \cap ToSet(t) = {}
      PROVE  IsInjective(u)
  <2>1. \A i \in DOMAIN s, j \in DOMAIN t : s[i] # t[j]
    BY <1>6 DEF ToSet
  <2>2. \A i, j \in DOMAIN t : t[i] = t[j] => i = j
    BY <1>6 DEF IsInjective
  <2>3. \A i, j \in DOMAIN s : s[i] = s[j] => i = j
    BY <1>6 DEF IsInjective
  <2> QED
    BY <1>1, <1>4, <2>1, <2>2, <2>3 DEF IsInjective
<1> QED
  BY <1>5, <1>6 DEF u

LEMMA Singleton ==
    ASSUME NEW S, NEW e \in S
    PROVE  <<e>> \in Seq(S) /\ ToSet(<<e>>) = {e} /\ IsInjective(<<e>>)
BY DEF ToSet, IsInjective

LEMMA Nothing == ToSet(<<>>) = {} /\ IsInjective(<<>>)
BY DEF ToSet, IsInjective

\* What the invariant says of the mails is what the property says of them.
LEMMA MailsAreQueue ==
    ASSUME TypeOK, MailInv
    PROVE  /\ Pending \in Seq(Requests)
           /\ IsInjective(sent \o Pending)
           /\ ToSet(sent \o Pending) \subseteq users
<1>1. sent \in Seq(Requests) /\ emailChan \in Seq(Requests) /\ task \in Requests \cup {NoRequest}
  BY DEF TypeOK
<1>2. /\ Pending \in Seq(Requests)
      /\ ToSet(Pending) = ({task} \ {NoRequest}) \cup ToSet(emailChan)
      /\ IsInjective(Pending)
  <2>1. CASE task = NoRequest
    <3>1. Pending = emailChan
      BY <1>1, <2>1, ConcatEmptySeq DEF Pending
    <3> QED
      BY <1>1, <2>1, <3>1 DEF MailInv
  <2>2. CASE task # NoRequest
    <3>1. Pending = <<task>> \o emailChan /\ task \in Requests
      BY <1>1, <2>2 DEF Pending
    <3>2. /\ <<task>> \in Seq(Requests) /\ ToSet(<<task>>) = {task}
          /\ IsInjective(<<task>>)
      BY <3>1, Singleton
    <3>3. {task} \cap ToSet(emailChan) = {}
      BY DEF MailInv
    <3>4. IsInjective(emailChan)
      BY DEF MailInv
    <3>5. ToSet(Pending) = {task} \cup ToSet(emailChan) /\ IsInjective(Pending)
      <4> DEFINE one == <<task>>
      <4> HIDE DEF one
      <4>1. /\ one \in Seq(Requests) /\ ToSet(one) = {task} /\ IsInjective(one)
            /\ Pending = one \o emailChan
        BY <3>1, <3>2 DEF one
      <4>2. /\ ToSet(one \o emailChan) = ToSet(one) \cup ToSet(emailChan)
            /\ IsInjective(one \o emailChan)
        BY <1>1, <3>3, <3>4, <4>1, Concatenated
      <4> QED
        BY <4>1, <4>2
    <3> QED
      BY <1>1, <2>2, <3>1, <3>2, <3>5, ConcatProperties
  <2> QED
    BY <2>1, <2>2
<1>3. ToSet(sent) \cap ToSet(Pending) = {}
  BY <1>2 DEF MailInv
<1>4. ToSet(sent \o Pending) = Mails /\ IsInjective(sent \o Pending)
  BY <1>1, <1>2, <1>3, Concatenated DEF MailInv, Mails
<1> QED
  BY <1>2, <1>4 DEF MailInv

-----------------------------------------------------------------------------

LEMMA TypeInit ==
    ASSUME Init
    PROVE  TypeOK
<1>1. emailChan \in Seq(Requests) /\ Len(emailChan) <= Capacity /\ sent \in Seq(Requests)
  BY EmptySeq, RegistrationAssumption DEF Init
<1>2. /\ email \in [Requests -> Emails] /\ pc = [r \in Requests |-> "idle"]
      /\ users = {} /\ plans = {} /\ tokens = {}
      /\ chanClosed = FALSE /\ done = FALSE /\ forced = FALSE
      /\ worker = "selecting" /\ task = NoRequest /\ main = "running"
  BY DEF Init
<1> QED
  BY <1>1, <1>2, RegistrationAssumption DEF TypeOK

LEMMA TypeStep ==
    ASSUME TypeOK, [Next]_vars
    PROVE  TypeOK'
<1> USE RegistrationAssumption
    DEF TypeOK, Stages, InTx, Answers, Goto, tables, mailVars, processVars
<1>1. ASSUME NEW r \in Requests, Receive(r) \/ InsertUser(r) \/ Abort(r) PROVE TypeOK'
  <2>1. pc' \in [Requests -> {"idle"} \cup Stages \cup Answers]
    BY <1>1 DEF Receive, InsertUser, Abort
  <2> QED
    BY <1>1, <2>1 DEF Receive, InsertUser, Abort
<1>2. ASSUME NEW r \in Requests,
             InsertPlan(r) \/ Commit(r) \/ Acknowledge(r) \/ Refuse(r) \/ SaveToken(r) \/ Answer(r)
      PROVE  TypeOK'
  <2>1. pc' \in [Requests -> {"idle"} \cup Stages \cup Answers]
    BY <1>2 DEF InsertPlan, Commit, Acknowledge, Refuse, SaveToken, Answer
  <2>2. users' \subseteq Requests /\ plans' \subseteq Requests /\ tokens' \subseteq Requests
    BY <1>2 DEF InsertPlan, Commit, Store, Acknowledge, Refuse, SaveToken, Answer
  <2> QED
    BY <1>2, <2>1, <2>2 DEF InsertPlan, Commit, Acknowledge, Refuse, SaveToken, Answer
<1>3. ASSUME NEW r \in Requests, Enqueue(r) PROVE TypeOK'
  <2>1. pc' \in [Requests -> {"idle"} \cup Stages \cup Answers]
    BY <1>3 DEF Enqueue, Drop
  <2>2. emailChan' \in Seq(Requests) /\ Len(emailChan') <= Capacity
    <3>1. CASE UNCHANGED emailChan
      BY <3>1
    <3>2. CASE Len(emailChan) < Capacity /\ emailChan' = Append(emailChan, r)
      <4>1. emailChan' \in Seq(Requests) /\ Len(emailChan') = Len(emailChan) + 1
        BY <3>2, AppendProperties
      <4> QED
        BY <3>2, <4>1, LenProperties
    <3> QED
      BY <1>3, <3>1, <3>2 DEF Enqueue, Drop
  <2> QED
    BY <1>3, <2>1, <2>2 DEF Enqueue
<1>4. ASSUME TakeMail PROVE TypeOK'
  <2>1. /\ Head(emailChan) \in Requests /\ Tail(emailChan) \in Seq(Requests)
        /\ Len(Tail(emailChan)) = Len(emailChan) - 1 /\ Len(emailChan) \in Nat
    BY <1>4, HeadTailProperties, LenProperties DEF TakeMail
  <2> QED
    BY <1>4, <2>1 DEF TakeMail
<1>5. ASSUME SendMail PROVE TypeOK'
  <2>1. task \in Requests
    BY <1>5 DEF SendMail
  <2>2. Append(sent, task) \in Seq(Requests)
    BY <2>1, AppendProperties
  <2>3. sent' \in Seq(Requests)
    BY <1>5, <2>2 DEF SendMail
  <2> QED
    BY <1>5, <2>3 DEF SendMail
<1>6. ASSUME SeeDone \/ ReturnWorker PROVE TypeOK'
  BY <1>6 DEF SeeDone, ReturnWorker
<1>7. ASSUME Signal \/ StopServer \/ ForceServer \/ CloseDone \/ CloseChannel \/ WaitWorker
             \/ ClosePool
      PROVE  TypeOK'
  BY <1>7 DEF Signal, StopServer, ForceServer, CloseDone, CloseChannel, WaitWorker, ClosePool,
              MainGoes
<1>8. ASSUME NEW how \in {"exited", "killed"}, End(how) PROVE TypeOK'
  <2>1. pc' \in [Requests -> {"idle"} \cup Stages \cup Answers]
    BY <1>8 DEF End
  <2>2. emailChan' \in Seq(Requests) /\ Len(emailChan') <= Capacity
    BY <1>8, EmptySeq DEF End
  <2>3. /\ main' = how /\ worker' = "returned" /\ task' = NoRequest
        /\ UNCHANGED <<email, tables, chanClosed, done, sent, forced>>
    BY <1>8 DEF End
  <2> QED
    BY <2>1, <2>2, <2>3
<1>9. ASSUME UNCHANGED vars PROVE TypeOK'
  BY <1>9 DEF vars
<1> QED
  BY <1>1, <1>2, <1>3, <1>4, <1>5, <1>6, <1>7, <1>8, <1>9
  DEF Next, HandlerStep, WorkerStep, MainStep, Exit, Kill

-----------------------------------------------------------------------------

\* A step of one handler that stores nothing keeps the rows whole, if it goes where its
\* registration may be.
LEMMA RowsAlone ==
    ASSUME TypeOK, RowsInv, UNCHANGED <<email, users, plans>>,
           NEW r \in Requests, NEW s, Goto(r, s),
           s \in Stored => r \in users,
           s \in Unstored => r \notin users,
           s \in InTx => ~EmailTaken(r) /\ ~EmailPending(r)
    PROVE  RowsInv'
<1>1. \A q \in Requests : pc'[q] = IF q = r THEN s ELSE pc[q]
  BY DEF Goto, TypeOK
<1> QED
  BY <1>1 DEF RowsInv, EmailTaken, EmailPending

\* The commit of one transaction leaves the addresses of the others free.
LEMMA RowsCommitted ==
    ASSUME TypeOK, RowsInv, NEW r \in Requests, Commit(r)
    PROVE  RowsInv'
<1> USE DEF Stored, Unstored, InTx, EmailTaken, EmailPending
<1>1. /\ \A q \in Requests : pc'[q] = IF q = r THEN "committed" ELSE pc[q]
      /\ pc[r] \in InTx /\ users \subseteq Requests
      /\ users' = users \cup {r} /\ plans' = plans \cup {r} /\ email' = email
  BY DEF Commit, Store, Goto, TypeOK
<1>2. \A q \in Requests : q # r /\ pc[q] \in InTx => email[q] # email[r]
  BY <1>1 DEF RowsInv
<1>3. \A q \in users : email[q] # email[r]
  BY <1>1 DEF RowsInv
<1>4. users' = plans' /\ \A p, q \in users' : email'[p] = email'[q] => p = q
  BY <1>1, <1>3 DEF RowsInv
<1>5. \A q \in Requests : pc'[q] \in InTx => ~EmailTaken(q)' /\ ~EmailPending(q)'
  <2> SUFFICES ASSUME NEW q \in Requests, pc'[q] \in InTx
               PROVE  ~EmailTaken(q)' /\ ~EmailPending(q)'
    OBVIOUS
  <2>1. q # r /\ pc[q] \in InTx
    BY <1>1
  <2> QED
    BY <1>1, <1>2, <2>1 DEF RowsInv
<1>6. ASSUME NEW q \in Requests
      PROVE  /\ pc'[q] \in Stored => q \in users'
             /\ pc'[q] \in Unstored => q \notin users'
             /\ pc'[q] \in InTx => ~EmailTaken(q)' /\ ~EmailPending(q)'
  BY <1>1, <1>5 DEF RowsInv
<1>7. RowsInv!3'
  BY <1>6
<1>8. RowsInv!2'
  BY <1>4
<1> QED
  BY <1>4, <1>7, <1>8 DEF RowsInv

\* The end of the process stores nothing and begins nothing.
LEMMA RowsLeft ==
    ASSUME TypeOK, RowsInv, NEW how, End(how)
    PROVE  RowsInv'
<1>1. /\ \A q \in Requests : pc'[q] = "lost" \/ (pc'[q] = pc[q] /\ pc[q] \notin Stages)
      /\ UNCHANGED <<email, users, plans>>
  BY DEF End, tables
<1> QED
  BY <1>1 DEF RowsInv, Stored, Unstored, InTx, Stages, EmailTaken, EmailPending

LEMMA RowsStep ==
    ASSUME TypeOK, RowsInv, [Next]_vars
    PROVE  RowsInv'
<1> USE DEF Stored, Unstored, InTx, tables
<1>1. ASSUME NEW r \in Requests, Receive(r) PROVE RowsInv'
  <2>1. PICK s \in {"received", "invalid"} : Goto(r, s)
    BY <1>1 DEF Receive
  <2> QED
    BY <1>1, <2>1, RowsAlone DEF Receive, RowsInv
<1>2. ASSUME NEW r \in Requests, InsertUser(r) PROVE RowsInv'
  <2>1. PICK s \in {"userInserted", "taken"} : Goto(r, s) /\ (s = "userInserted" => ~EmailTaken(r))
    BY <1>2 DEF InsertUser
  <2> QED
    BY <1>2, <2>1, RowsAlone DEF InsertUser, RowsInv
<1>3. ASSUME NEW r \in Requests, InsertPlan(r) PROVE RowsInv'
  BY <1>3, RowsAlone DEF InsertPlan, RowsInv
<1>4. ASSUME NEW r \in Requests, Commit(r) PROVE RowsInv'
  BY <1>4, RowsCommitted
<1>5. ASSUME NEW r \in Requests, Acknowledge(r) \/ Refuse(r) \/ Abort(r) PROVE RowsInv'
  <2>1. PICK s \in {"registered", "failed"} : Goto(r, s) /\ (s = "registered" => pc[r] = "committed")
    BY <1>5 DEF Acknowledge, Refuse, Abort
  <2> QED
    BY <1>5, <2>1, RowsAlone DEF Acknowledge, Refuse, Abort, RowsInv
<1>6. ASSUME NEW r \in Requests, SaveToken(r) \/ Enqueue(r) \/ Answer(r) PROVE RowsInv'
  <2>1. PICK s \in {"tokenMade", "answering", "panicked", "created"} : Goto(r, s)
    BY <1>6 DEF SaveToken, Enqueue, Drop, Answer
  <2> QED
    BY <1>6, <2>1, RowsAlone DEF SaveToken, Enqueue, Answer, RowsInv
<1>7. ASSUME NEW how, End(how) PROVE RowsInv'
  BY <1>7, RowsLeft
<1>8. ASSUME UNCHANGED <<email, pc, users, plans>> PROVE RowsInv'
  BY <1>8 DEF RowsInv, EmailTaken, EmailPending
<1> QED
  BY <1>1, <1>2, <1>3, <1>4, <1>5, <1>6, <1>7, <1>8
  DEF Next, HandlerStep, WorkerStep, MainStep, TakeMail, SendMail, SeeDone, ReturnWorker,
      Signal, StopServer, ForceServer, CloseDone, CloseChannel, WaitWorker, ClosePool,
      Exit, Kill, vars

-----------------------------------------------------------------------------

\* A step of one handler that leaves the mails alone does not go back to before the channel.
LEMMA MailsAlone ==
    ASSUME TypeOK, MailInv, UNCHANGED <<sent, task, emailChan>>, users \subseteq users',
           NEW r \in Requests, NEW s, Goto(r, s), s \in Early => pc[r] \in Early
    PROVE  MailInv'
<1>1. \A q \in Requests : pc'[q] \in Early => pc[q] \in Early
  BY DEF Goto, TypeOK
<1>2. Mails \subseteq Requests /\ Mails' = Mails
  BY ToSetIsSubset DEF TypeOK, Mails
<1> QED
  BY <1>1, <1>2 DEF MailInv, Mails

\* The mail that goes into the channel is a new one.
LEMMA MailQueued ==
    ASSUME TypeOK, RowsInv, MailInv, NEW r \in Requests, pc[r] = "tokenMade",
           Goto(r, "answering"), emailChan' = Append(emailChan, r),
           UNCHANGED <<sent, task, users>>
    PROVE  MailInv'
<1>1. /\ \A q \in Requests : pc'[q] = IF q = r THEN "answering" ELSE pc[q]
      /\ emailChan \in Seq(Requests) /\ Mails \subseteq Requests
  BY ToSetIsSubset DEF Goto, TypeOK, Mails
<1>2. r \in users /\ r \notin Mails
  BY DEF RowsInv, MailInv, Stored, Early
<1>3. ToSet(emailChan') = ToSet(emailChan) \cup {r} /\ IsInjective(emailChan')
  BY <1>1, <1>2, Appended DEF MailInv, Mails
<1>4. task # r
  BY <1>2, RegistrationAssumption DEF Mails
<1>5. Mails' = Mails \cup {r}
  BY <1>3, <1>4, RegistrationAssumption DEF Mails
<1>6. \A q \in Mails' : q \in users' /\ pc'[q] \notin Early
  BY <1>1, <1>2, <1>5 DEF MailInv, Early, Unstored, InTx
<1>7. /\ ToSet(sent) \cap ToSet(emailChan') = {}
      /\ task \notin ToSet(sent) \cup ToSet(emailChan')
  BY <1>2, <1>3, <1>4 DEF MailInv, Mails
<1> QED
  BY <1>3, <1>6, <1>7 DEF MailInv

\* The worker takes the first mail, and puts it behind the others that were sent, or drops it.
LEMMA MailTaken ==
    ASSUME TypeOK, MailInv, TakeMail
    PROVE  MailInv'
<1>1. /\ emailChan \in Seq(Requests) /\ emailChan # <<>> /\ task = NoRequest
      /\ task' = Head(emailChan) /\ emailChan' = Tail(emailChan)
      /\ UNCHANGED <<sent, users, pc>>
  BY DEF TypeOK, TakeMail, tables
<1>2. /\ ToSet(emailChan) = {task'} \cup ToSet(emailChan') /\ task' \in Requests
      /\ IsInjective(emailChan') /\ task' \notin ToSet(emailChan')
  BY <1>1, HeadTaken DEF MailInv
<1>3. Mails' = Mails
  BY <1>1, <1>2, RegistrationAssumption DEF Mails
<1> QED
  BY <1>1, <1>2, <1>3 DEF MailInv

LEMMA MailSent ==
    ASSUME TypeOK, MailInv, SendMail
    PROVE  MailInv'
<1>1. /\ sent \in Seq(Requests) /\ task \in Requests /\ task' = NoRequest
      /\ sent' \in {sent, Append(sent, task)}
      /\ UNCHANGED <<emailChan, users, pc>>
      /\ ToSet(sent) \subseteq Requests /\ ToSet(emailChan) \subseteq Requests
  BY ToSetIsSubset DEF TypeOK, SendMail, tables
<1>2. ToSet(sent') \subseteq ToSet(sent) \cup {task} /\ IsInjective(sent')
  <2>1. IsInjective(sent) /\ task \notin ToSet(sent)
    BY DEF MailInv
  <2>2. /\ ToSet(Append(sent, task)) = ToSet(sent) \cup {task}
        /\ IsInjective(Append(sent, task))
    BY <1>1, <2>1, Appended
  <2> QED
    BY <1>1, <2>1, <2>2
<1>3. Mails' \subseteq Mails
  BY <1>1, <1>2, RegistrationAssumption DEF Mails
<1>4. /\ ToSet(sent') \cap ToSet(emailChan) = {}
      /\ task' \notin ToSet(sent') \cup ToSet(emailChan)
  BY <1>1, <1>2, RegistrationAssumption DEF MailInv
<1> QED
  BY <1>1, <1>2, <1>3, <1>4 DEF MailInv

LEMMA MailsLeft ==
    ASSUME TypeOK, MailInv, NEW how, End(how)
    PROVE  MailInv'
<1>1. /\ emailChan' = <<>> /\ task' = NoRequest /\ UNCHANGED <<sent, users>>
      /\ \A q \in Requests : pc'[q] = "lost" \/ pc'[q] = pc[q]
      /\ ToSet(sent) \subseteq Requests
  BY ToSetIsSubset DEF End, tables, TypeOK
<1>2. ToSet(emailChan') = {} /\ IsInjective(emailChan')
  BY <1>1, Nothing
<1>3. Mails' \subseteq Mails /\ Mails' \subseteq Requests
  BY <1>1, <1>2 DEF Mails
<1>4. \A q \in Mails' : q \in users' /\ pc'[q] \notin Early
  BY <1>1, <1>3 DEF MailInv, Early, Unstored, InTx
<1> QED
  BY <1>1, <1>2, <1>4, RegistrationAssumption DEF MailInv

LEMMA MailStep ==
    ASSUME TypeOK, RowsInv, MailInv, [Next]_vars
    PROVE  MailInv'
<1> USE DEF tables, mailVars
<1>1. ASSUME NEW r \in Requests,
             Receive(r) \/ InsertUser(r) \/ InsertPlan(r) \/ Commit(r) \/ Acknowledge(r)
             \/ Refuse(r) \/ Abort(r) \/ SaveToken(r) \/ Answer(r)
      PROVE  MailInv'
  <2>1. PICK s : Goto(r, s) /\ (s \in Early => pc[r] \in Early)
    BY <1>1 DEF Receive, InsertUser, InsertPlan, Commit, Acknowledge, Refuse, Abort, SaveToken,
                Answer, Early, Unstored, InTx
  <2>2. UNCHANGED <<sent, task, emailChan>> /\ users \subseteq users'
    BY <1>1 DEF Receive, InsertUser, InsertPlan, Commit, Store, Acknowledge, Refuse, Abort,
                SaveToken, Answer
  <2> QED
    BY <2>1, <2>2, MailsAlone
<1>2. ASSUME NEW r \in Requests, Enqueue(r) PROVE MailInv'
  <2>1. pc[r] = "tokenMade" /\ UNCHANGED <<sent, task, users>>
    BY <1>2 DEF Enqueue
  <2>2. CASE emailChan' = Append(emailChan, r) /\ Goto(r, "answering")
    BY <2>1, <2>2, MailQueued
  <2>3. CASE UNCHANGED emailChan /\ (Goto(r, "panicked") \/ Goto(r, "answering"))
    <3>1. PICK s \in {"panicked", "answering"} : Goto(r, s)
      BY <2>3
    <3> QED
      BY <2>1, <2>3, <3>1, MailsAlone DEF Early
  <2> QED
    BY <1>2, <2>2, <2>3 DEF Enqueue, Drop
<1>3. ASSUME TakeMail PROVE MailInv'
  BY <1>3, MailTaken
<1>4. ASSUME SendMail PROVE MailInv'
  BY <1>4, MailSent
<1>5. ASSUME NEW how, End(how) PROVE MailInv'
  BY <1>5, MailsLeft
<1>6. ASSUME UNCHANGED <<pc, users, sent, task, emailChan>> PROVE MailInv'
  BY <1>6 DEF MailInv, Mails
<1> QED
  BY <1>1, <1>2, <1>3, <1>4, <1>5, <1>6
  DEF Next, HandlerStep, WorkerStep, MainStep, SeeDone, ReturnWorker,
      Signal, StopServer, ForceServer, CloseDone, CloseChannel, WaitWorker, ClosePool,
      Exit, Kill, vars

-----------------------------------------------------------------------------

LEMMA ShutdownStep ==
    ASSUME TypeOK, ShutdownInv, [Next]_vars
    PROVE  ShutdownInv'
<1> USE DEF ShutdownInv, Alive, tables, mailVars, processVars
<1>1. ASSUME NEW r \in Requests, Enqueue(r) PROVE ShutdownInv'
  BY <1>1 DEF Enqueue, Drop
<1>2. ASSUME TakeMail \/ SendMail \/ SeeDone \/ ReturnWorker PROVE ShutdownInv'
  BY <1>2 DEF TakeMail, SendMail, SeeDone, ReturnWorker
<1>3. ASSUME Signal \/ StopServer \/ ForceServer \/ CloseDone \/ CloseChannel \/ WaitWorker
             \/ ClosePool
      PROVE  ShutdownInv'
  BY <1>3 DEF Signal, StopServer, ForceServer, CloseDone, CloseChannel, WaitWorker, ClosePool,
              MainGoes
<1>4. ASSUME Exit \/ Kill PROVE ShutdownInv'
  BY <1>4 DEF Exit, Kill, End
<1>5. ASSUME UNCHANGED <<mailVars, main>> PROVE ShutdownInv'
  BY <1>5
<1> QED
  BY <1>1, <1>2, <1>3, <1>4, <1>5
  DEF Next, HandlerStep, WorkerStep, MainStep, Receive, InsertUser, InsertPlan, Commit, Acknowledge,
      Refuse, Abort, SaveToken, Answer, vars

\* A step of one handler begins nothing once the server is being stopped.
LEMMA HandlerStays ==
    ASSUME TypeOK, LifecycleInv, UNCHANGED processVars, NEW r \in Requests, NEW s, Goto(r, s),
           s \in Stages => pc[r] \in Stages \/ main = "running"
    PROVE  LifecycleInv'
<1>1. \A q \in Requests : pc'[q] = IF q = r THEN s ELSE pc[q]
  BY DEF Goto, TypeOK
<1>2. CASE s \in Stages /\ pc[r] \notin Stages
  BY <1>2 DEF LifecycleInv, processVars, Alive
<1>3. CASE s \in Stages => pc[r] \in Stages
  <2>1. HandlersEnded => HandlersEnded'
    BY <1>1, <1>3 DEF HandlersEnded
  <2> QED
    BY <2>1 DEF LifecycleInv, processVars, Alive
<1> QED
  BY <1>2, <1>3

LEMMA LifecycleStep ==
    ASSUME TypeOK, LifecycleInv, [Next]_vars
    PROVE  LifecycleInv'
<1> USE DEF mailVars, processVars
<1>1. ASSUME NEW r \in Requests,
             Receive(r) \/ InsertUser(r) \/ InsertPlan(r) \/ Commit(r) \/ Acknowledge(r)
             \/ Refuse(r) \/ Abort(r) \/ SaveToken(r) \/ Enqueue(r) \/ Answer(r)
      PROVE  LifecycleInv'
  <2>1. PICK s : Goto(r, s) /\ (s \in Stages => pc[r] \in Stages \/ main = "running")
    BY <1>1 DEF Receive, InsertUser, InsertPlan, Commit, Acknowledge, Refuse, Abort, SaveToken,
                Enqueue, Drop, Answer, Stages, InTx
  <2>2. UNCHANGED processVars
    BY <1>1 DEF Receive, InsertUser, InsertPlan, Commit, Acknowledge, Refuse, Abort, SaveToken,
                Enqueue, Answer
  <2> QED
    BY <2>1, <2>2, HandlerStays
<1>2. ASSUME UNCHANGED <<pc, main, forced>> PROVE LifecycleInv'
  BY <1>2 DEF LifecycleInv, HandlersEnded, Alive
<1>3. ASSUME Signal \/ StopServer \/ ForceServer \/ CloseDone \/ CloseChannel \/ WaitWorker
             \/ ClosePool
      PROVE  LifecycleInv'
  <2>1. UNCHANGED pc
    BY <1>3 DEF Signal, StopServer, ForceServer, CloseDone, CloseChannel, WaitWorker, ClosePool
  <2>2. HandlersEnded' = HandlersEnded
    BY <2>1 DEF HandlersEnded
  <2> QED
    BY <1>3, <2>2 DEF Signal, StopServer, ForceServer, CloseDone, CloseChannel, WaitWorker,
                      ClosePool, MainGoes, LifecycleInv, Alive
<1>4. ASSUME NEW how \in {"exited", "killed"}, End(how) PROVE LifecycleInv'
  <2>1. HandlersEnded'
    BY <1>4 DEF HandlersEnded, End, Stages, InTx
  <2> QED
    BY <1>4, <2>1 DEF LifecycleInv, End
<1> QED
  BY <1>1, <1>2, <1>3, <1>4
  DEF Next, HandlerStep, WorkerStep, MainStep, TakeMail, SendMail, SeeDone, ReturnWorker,
      Exit, Kill, vars

-----------------------------------------------------------------------------

LEMMA RegistrationInit ==
    ASSUME Init
    PROVE  TypeOK /\ RegistrationInv
<1>1. TypeOK
  BY TypeInit
<1>2. \A r \in Requests : pc[r] = "idle"
  BY DEF Init
<1>3. RowsInv
  BY <1>2 DEF Init, RowsInv, Stored, Unstored, InTx
<1>4. MailInv
  <2>1. ToSet(sent) = {} /\ IsInjective(sent) /\ ToSet(emailChan) = {} /\ IsInjective(emailChan)
    BY Nothing DEF Init
  <2>2. task = NoRequest
    BY DEF Init
  <2> QED
    BY <2>1, <2>2 DEF MailInv, Mails
<1>5. ShutdownInv /\ LifecycleInv
  BY <1>2 DEF Init, ShutdownInv, LifecycleInv, HandlersEnded, Alive, Stages, InTx
<1> QED
  BY <1>1, <1>3, <1>4, <1>5 DEF RegistrationInv

\* The inductive invariant of the component.
THEOREM RegistrationInvariance == Spec => [](TypeOK /\ RegistrationInv)
<1>1. Init => TypeOK /\ RegistrationInv
  BY RegistrationInit
<1>2. TypeOK /\ RegistrationInv /\ [Next]_vars => (TypeOK /\ RegistrationInv)'
  <2> SUFFICES ASSUME TypeOK, RegistrationInv, [Next]_vars PROVE TypeOK' /\ RegistrationInv'
    OBVIOUS
  <2> QED
    BY TypeStep, RowsStep, MailStep, ShutdownStep, LifecycleStep DEF RegistrationInv
<1> QED
  BY <1>1, <1>2, PTL DEF Spec

\* An account is two rows that exist together, an address has one account, and a mail is
\* queued and sent once at most, for a stored account only.
THEOREM AccountsAreWhole == Spec => []AccountsWhole
<1>1. TypeOK /\ RegistrationInv => AccountsWhole
  BY MailsAreQueue DEF RegistrationInv, RowsInv, AccountsWhole
<1> QED
  BY <1>1, RegistrationInvariance, PTL

\* 201 is answered only for a stored account, a refusal only for one that was not stored.
THEOREM AnswersAreTrue == Spec => []AnswerTruthful
<1>1. TypeOK /\ RegistrationInv => AnswerTruthful
  BY DEF RegistrationInv, RowsInv, AnswerTruthful, Stored, Unstored
<1> QED
  BY <1>1, RegistrationInvariance, PTL

\* When main returns nothing is left in the channel or in the worker's hands.
THEOREM NoMailIsLeft == Spec => ShutdownDrains
<1>1. ASSUME TypeOK, RegistrationInv, [Next]_vars
      PROVE  [main' = "exited" => Pending = <<>>]_vars
  <2> SUFFICES ASSUME main' = "exited", ~UNCHANGED vars PROVE Pending = <<>>
    OBVIOUS
  <2>1. main \in {"poolClosed", "exited"}
    BY <1>1 DEF Next, HandlerStep, WorkerStep, MainStep, Receive, InsertUser, InsertPlan, Commit,
       Acknowledge, Refuse, Abort, SaveToken, Enqueue, Answer, TakeMail, SendMail, SeeDone,
       ReturnWorker, Signal, StopServer, ForceServer, CloseDone, CloseChannel, WaitWorker,
       ClosePool, MainGoes, Exit, Kill, End, mailVars, processVars, vars
  <2>2. worker = "returned" /\ emailChan = <<>>
    BY <1>1, <2>1 DEF RegistrationInv, ShutdownInv, Alive
  <2>3. task = NoRequest
    BY <1>1, <2>2 DEF TypeOK
  <2> QED
    BY <2>2, <2>3, EmptySeq, ConcatEmptySeq DEF Pending
<1> QED
  BY <1>1, RegistrationInvariance, PTL DEF Spec, ShutdownDrains

-----------------------------------------------------------------------------
(* main's wait for the worker *)

\* The worker is in a statement of its own, or its select or its loop has a case to take.
WorkerMayGo ==
    \/ worker \in {"sending", "drainSending"}
    \/ worker \in {"selecting", "draining"} /\ (emailChan # <<>> \/ chanClosed)

\* How many steps the worker has left at most: three for each mail in the channel, and
\* what its place in the loops asks for.
StepsOf == [w \in {"returned", "draining", "drainSending", "selecting", "sending"} |->
              CASE w = "returned" -> 0
                [] w = "draining" -> 1
                [] w = "sending"  -> 3
                [] OTHER          -> 2]

StepsLeft == 3 * Len(emailChan) + StepsOf[worker]

\* While main waits, the worker has returned or can go on, within a fixed number of steps.
WaitBounded ==
    main = "waiting" =>
        /\ worker = "returned" \/ WorkerMayGo
        /\ StepsLeft \in 0..3 * Capacity + 3

\* While main waits, each step of the worker leaves it less to do, and no handler, not
\* even one that the server gave up on, leaves it more.
WaitShortens ==
    [][main = "waiting" => /\ StepsLeft' <= StepsLeft
                           /\ WorkerStep => StepsLeft' < StepsLeft]_vars

LEMMA StepsType ==
    ASSUME TypeOK
    PROVE  /\ Len(emailChan) \in Nat /\ Len(emailChan) <= Capacity /\ Capacity \in Nat
           /\ StepsOf[worker] \in 0..3
BY RegistrationAssumption DEF TypeOK, StepsOf

LEMMA WorkerShortens ==
    ASSUME TypeOK, WorkerStep
    PROVE  StepsLeft' < StepsLeft
<1>1. Len(emailChan) \in Nat /\ StepsOf[worker] \in 0..3
  BY StepsType
<1>2. CASE TakeMail
  <2>1. Len(emailChan') = Len(emailChan) - 1
    BY <1>2, HeadTailProperties DEF TakeMail, TypeOK
  <2>2. StepsOf[worker'] <= StepsOf[worker] + 1 /\ StepsOf[worker'] \in 0..3
    BY <1>2 DEF TakeMail, StepsOf
  <2> QED
    BY <1>1, <2>1, <2>2 DEF StepsLeft
<1>3. CASE SendMail \/ SeeDone \/ ReturnWorker
  <2>1. UNCHANGED emailChan
    BY <1>3 DEF SendMail, SeeDone, ReturnWorker
  <2>2. StepsOf[worker'] < StepsOf[worker] /\ StepsOf[worker'] \in 0..3
    BY <1>3 DEF SendMail, SeeDone, ReturnWorker, StepsOf
  <2> QED
    BY <1>1, <2>1, <2>2 DEF StepsLeft
<1> QED
  BY <1>2, <1>3 DEF WorkerStep

\* The shutdown never stands still at wg.Wait: the channel is closed by then, so that the
\* worker's select has a case to take whatever it saw of done, and three steps for each
\* slot of the channel and three more bring it to its return (service.go:61-84).
THEOREM ShutdownWaitIsBounded == Spec => []WaitBounded
<1>1. TypeOK /\ RegistrationInv => WaitBounded
  <2> SUFFICES ASSUME TypeOK, RegistrationInv, main = "waiting" PROVE WaitBounded
    BY DEF WaitBounded
  <2>1. worker = "returned" \/ WorkerMayGo
    BY DEF RegistrationInv, ShutdownInv, WorkerMayGo, TypeOK
  <2>2. StepsLeft \in 0..3 * Capacity + 3
    <3>1. ASSUME NEW n \in Nat, NEW k \in 0..3, n <= Capacity, Capacity \in Nat
          PROVE  3 * n + k \in 0..3 * Capacity + 3
      BY <3>1
    <3> QED
      BY <3>1, StepsType DEF StepsLeft
  <2> QED
    BY <2>1, <2>2 DEF WaitBounded
<1> QED
  BY <1>1, RegistrationInvariance, PTL

\* Each of these steps counts: nothing that happens while main waits gives the worker more
\* to do, because a handler that the server gave up on meets the closed channel
\* (service.go:61-84, 149-155).
THEOREM ShutdownWaitShortens == Spec => WaitShortens
<1>1. ASSUME TypeOK, RegistrationInv, TypeOK', [Next]_vars
      PROVE  [main = "waiting" => /\ StepsLeft' <= StepsLeft
                                  /\ WorkerStep => StepsLeft' < StepsLeft]_vars
  <2> SUFFICES ASSUME main = "waiting"
               PROVE  StepsLeft' <= StepsLeft /\ (WorkerStep => StepsLeft' < StepsLeft)
    OBVIOUS
  <2>1. /\ chanClosed
        /\ Len(emailChan) \in Nat /\ StepsOf[worker] \in 0..3 /\ StepsLeft \in Nat
    BY <1>1, StepsType DEF RegistrationInv, ShutdownInv, StepsLeft
  <2>2. WorkerStep => StepsLeft' < StepsLeft
    BY <1>1, WorkerShortens
  <2>3. StepsLeft' \in Nat
    <3>1. Len(emailChan') \in Nat /\ StepsOf[worker'] \in 0..3
      BY <1>1 DEF TypeOK, StepsOf
    <3> QED
      BY <3>1 DEF StepsLeft
  <2>4. CASE UNCHANGED <<emailChan, worker>>
    <3>1. StepsLeft' = StepsLeft
      BY <2>4 DEF StepsLeft
    <3> QED
      BY <2>1, <2>2, <3>1
  <2>5. CASE WorkerStep
    BY <2>1, <2>2, <2>3, <2>5
  <2>6. CASE Exit \/ Kill
    <3>1. emailChan' = <<>> /\ worker' = "returned"
      BY <2>6 DEF Exit, Kill, End
    <3>2. StepsLeft' = 0
      BY <3>1, EmptySeq DEF StepsLeft, StepsOf
    <3> QED
      BY <2>1, <2>2, <3>2
  <2>7. ASSUME NEW r \in Requests, Enqueue(r) PROVE UNCHANGED <<emailChan, worker>>
    BY <2>1, <2>7 DEF Enqueue
  <2> QED
    BY <1>1, <2>4, <2>5, <2>6, <2>7 DEF Next, HandlerStep, MainStep, Receive, InsertUser,
       InsertPlan, Commit, Acknowledge, Refuse, Abort, SaveToken, Answer, Signal, StopServer,
       ForceServer, CloseDone, CloseChannel, WaitWorker, ClosePool, mailVars, vars
<1> QED
  BY <1>1, RegistrationInvariance, PTL DEF Spec, WaitShortens

-----------------------------------------------------------------------------
(* Registration implements Lifecycle *)

\* The refinement mapping, by name.
Phase == CASE ~Alive            -> "down"
           [] main = "running"  -> "serving"
           [] main = "stopping" -> "stopping"
           [] OTHER             -> "stopped"

FateOf(stage) == CASE stage = "idle"                  -> "new"
                   [] stage \in Stages                -> "open"
                   [] stage \in {"panicked", "lost"} -> "broken"
                   [] OTHER                           -> "answered"

Fate == [r \in Requests |-> FateOf(pc[r])]

LEMMA FateMoves ==
    ASSUME TypeOK, NEW r \in Requests, NEW s, Goto(r, s)
    PROVE  Fate' = [Fate EXCEPT ![r] = FateOf(s)]
BY DEF TypeOK, Goto, Fate

LEMMA RefinesInit ==
    ASSUME Init
    PROVE  Lifecycle!Init
<1>1. Phase = "serving" /\ Fate = [r \in Requests |-> "new"] /\ forced = FALSE
  <2>1. \A r \in Requests : pc[r] = "idle"
    BY DEF Init
  <2>2. FateOf("idle") = "new"
    BY DEF FateOf, Stages, InTx
  <2>3. Phase = "serving" /\ forced = FALSE
    BY DEF Init, Phase, Alive
  <2> QED
    BY <2>1, <2>2, <2>3 DEF Fate
<1> QED
  BY <1>1 DEF Phase, Fate, FateOf, Lifecycle!Init

\* A handler that goes on is the request that is taken, stays open, is answered or broken.
LEMMA HandlerRefines ==
    ASSUME TypeOK, UNCHANGED processVars, NEW r \in Requests, NEW s, Goto(r, s),
           \/ pc[r] = "idle" /\ main = "running" /\ s \in {"received", "invalid"}
           \/ pc[r] \in Stages /\ s \in Stages
           \/ pc[r] \in Stages /\ Alive /\ s \in {"taken", "failed", "created"}
           \/ pc[r] \in Stages /\ forced /\ s = "panicked"
    PROVE  [Lifecycle!Next]_Lifecycle!vars
<1>0. /\ Fate' = [Fate EXCEPT ![r] = FateOf(s)] /\ Fate[r] = FateOf(pc[r])
      /\ UNCHANGED <<Phase, forced>>
  BY FateMoves DEF Fate, Phase, processVars, Alive
<1>1. CASE pc[r] = "idle" /\ main = "running" /\ s \in {"received", "invalid"}
  <2>1. Phase = "serving" /\ Fate[r] = "new" /\ FateOf(s) \in {"open", "answered"}
    BY <1>0, <1>1 DEF Phase, Alive, FateOf, Stages, InTx
  <2>2. Lifecycle!Accept(r)
    BY <1>0, <2>1 DEF Lifecycle!Accept, Phase, Fate, FateOf
  <2> QED
    BY <2>2 DEF Lifecycle!Next
<1>2. CASE pc[r] \in Stages /\ s \in Stages
  <2>1. Fate[r] = "open" /\ FateOf(s) = "open"
    BY <1>0, <1>2 DEF FateOf, Stages, InTx
  <2>2. Fate' = Fate
    BY <1>0, <2>1 DEF Fate
  <2> QED
    BY <1>0, <2>2 DEF Lifecycle!vars, Phase, Fate, FateOf
<1>3. CASE pc[r] \in Stages /\ Alive /\ s \in {"taken", "failed", "created"}
  <2>1. Phase # "down" /\ Fate[r] = "open" /\ FateOf(s) = "answered"
    BY <1>0, <1>3 DEF Phase, FateOf, Stages, InTx
  <2>2. Lifecycle!Answer(r)
    BY <1>0, <2>1 DEF Lifecycle!Answer, Phase, Fate, FateOf
  <2> QED
    BY <2>2 DEF Lifecycle!Next
<1>4. CASE pc[r] \in Stages /\ forced /\ s = "panicked"
  <2>1. Fate[r] = "open" /\ FateOf(s) = "broken"
    BY <1>0, <1>4 DEF FateOf, Stages, InTx
  <2>2. Lifecycle!Break(r)
    BY <1>0, <1>4, <2>1 DEF Lifecycle!Break, Phase, Fate, FateOf
  <2> QED
    BY <2>2 DEF Lifecycle!Next
<1> QED
  BY <1>1, <1>2, <1>3, <1>4

\* main stops the server: nobody is left, or it gave up.
LEMMA StopRefines ==
    ASSUME TypeOK, LifecycleInv, StopServer \/ ForceServer
    PROVE  Lifecycle!Next
<1>1. /\ Phase = "stopping" /\ Phase' = "stopped" /\ Fate' = Fate
      /\ IF HandlersEnded THEN forced' = FALSE ELSE forced' = TRUE
  BY DEF StopServer, ForceServer, MainGoes, mailVars, Phase, Alive, Fate, LifecycleInv, TypeOK
<1>2. HandlersEnded <=> ~Lifecycle!SomeOpen
  BY DEF HandlersEnded, Lifecycle!SomeOpen, Stages, InTx
<1>3. Lifecycle!SomeOpen \in BOOLEAN
  BY DEF Lifecycle!SomeOpen
<1>4. forced' = Lifecycle!SomeOpen
  BY <1>1, <1>2, <1>3
<1>5. Lifecycle!StopServer
  BY <1>1, <1>4 DEF Lifecycle!StopServer, Phase, Fate, FateOf
<1> QED
  BY <1>5 DEF Lifecycle!Next

\* main returns, or the process is killed.
LEMMA EndRefines ==
    ASSUME TypeOK, Alive, NEW how \in {"exited", "killed"}, End(how)
    PROVE  Lifecycle!Next
<1>1. Phase # "down" /\ Phase' = "down" /\ forced' = forced
  BY DEF End, Phase, Alive
<1>2. Fate' = [r \in Requests |-> IF Fate[r] = "open" THEN "broken" ELSE Fate[r]]
  <2>1. ASSUME NEW r \in Requests
        PROVE  FateOf(pc'[r]) = IF FateOf(pc[r]) = "open" THEN "broken" ELSE FateOf(pc[r])
    BY DEF End, FateOf, Stages, InTx
  <2> QED
    BY <2>1 DEF Fate
<1>3. Lifecycle!Down
  BY <1>1, <1>2 DEF Lifecycle!Down, Phase, Fate, FateOf
<1> QED
  BY <1>3 DEF Lifecycle!Next

LEMMA RefinesNext ==
    ASSUME TypeOK, RegistrationInv, [Next]_vars
    PROVE  [Lifecycle!Next]_Lifecycle!vars
<1> USE DEF mailVars, processVars
<1>1. ASSUME NEW r \in Requests,
             Receive(r) \/ InsertUser(r) \/ InsertPlan(r) \/ Commit(r) \/ Acknowledge(r)
             \/ Refuse(r) \/ Abort(r) \/ SaveToken(r) \/ Answer(r)
      PROVE  [Lifecycle!Next]_Lifecycle!vars
  <2>1. PICK s : /\ Goto(r, s)
                 /\ \/ pc[r] = "idle" /\ main = "running" /\ s \in {"received", "invalid"}
                    \/ pc[r] \in Stages /\ s \in Stages
                    \/ pc[r] \in Stages /\ Alive /\ s \in {"taken", "failed", "created"}
    BY <1>1 DEF Receive, InsertUser, InsertPlan, Commit, Acknowledge, Refuse, Abort, SaveToken,
                Answer, Stages, InTx, PoolOpen
  <2>2. UNCHANGED processVars
    BY <1>1 DEF Receive, InsertUser, InsertPlan, Commit, Acknowledge, Refuse, Abort, SaveToken,
                Answer
  <2> QED
    BY <2>1, <2>2, HandlerRefines
<1>2. ASSUME NEW r \in Requests, Enqueue(r) PROVE [Lifecycle!Next]_Lifecycle!vars
  <2>1. pc[r] \in Stages /\ UNCHANGED processVars
    BY <1>2 DEF Enqueue, Stages
  <2>2. chanClosed => forced
    BY <1>2, <2>1 DEF RegistrationInv, ShutdownInv, LifecycleInv, HandlersEnded
  <2>3. PICK s : Goto(r, s) /\ (s = "answering" \/ (s = "panicked" /\ forced))
    BY <1>2, <2>2 DEF Enqueue, Drop
  <2> QED
    BY <2>1, <2>3, HandlerRefines DEF Stages
<1>3. ASSUME StopServer \/ ForceServer PROVE [Lifecycle!Next]_Lifecycle!vars
  BY <1>3, StopRefines DEF RegistrationInv
<1>4. ASSUME Signal PROVE [Lifecycle!Next]_Lifecycle!vars
  <2>1. /\ Phase = "serving" /\ Phase' = "stopping" /\ UNCHANGED <<Fate, forced>>
    BY <1>4 DEF Signal, MainGoes, Phase, Alive, Fate
  <2>2. Lifecycle!Signal
    BY <2>1 DEF Lifecycle!Signal, Phase, Fate, FateOf
  <2> QED
    BY <2>2 DEF Lifecycle!Next
<1>5. ASSUME CloseDone \/ CloseChannel \/ WaitWorker \/ ClosePool
      PROVE  [Lifecycle!Next]_Lifecycle!vars
  <2>1. UNCHANGED <<Phase, Fate, forced>>
    BY <1>5 DEF CloseDone, CloseChannel, WaitWorker, ClosePool, MainGoes, Phase, Alive, Fate
  <2> QED
    BY <2>1 DEF Lifecycle!vars, Phase, Fate, FateOf
<1>6. ASSUME Exit \/ Kill PROVE [Lifecycle!Next]_Lifecycle!vars
  BY <1>6, EndRefines DEF Exit, Kill, Alive
<1>7. ASSUME UNCHANGED <<pc, main, forced>> PROVE [Lifecycle!Next]_Lifecycle!vars
  BY <1>7 DEF Lifecycle!vars, Alive
<1> QED
  BY <1>1, <1>2, <1>3, <1>4, <1>5, <1>6, <1>7
  DEF Next, HandlerStep, WorkerStep, MainStep, TakeMail, SendMail, SeeDone, ReturnWorker, vars

\* Handlers and main implement Lifecycle: a registration that was taken is answered, and
\* meets the closed channel only if server.Shutdown has given up on it.
THEOREM RegistrationServes == Spec => ImplementsLifecycle
BY RefinesInit, RefinesNext, RegistrationInvariance, PTL DEF Spec, ImplementsLifecycle, Lifecycle!Spec
=============================================================================
