--------------------------- MODULE RequestProofs ---------------------------
(***************************************************************************)
(* Theorems about three components that every request meets and that take  *)
(* part in no transaction: the blacklist its target is checked against     *)
(* (Blacklist), what it is told about a link (LinkReports) and the limiter *)
(* that admits it (RateLimiter).  For any number of hosts, checks, visits, *)
(* reports and clients, and any limits that satisfy the components'        *)
(* assumptions.                                                            *)
(***************************************************************************)
EXTENDS Blacklist, LinkReports, RateLimiter, SequenceTheorems, FiniteSetTheorems,
        WellFoundedInduction, TLAPS

-----------------------------------------------------------------------------
-----------------------------------------------------------------------------
(* Blacklist *)

\* What a check knows while it reads: whatever has been listed since it began is listed
\* now, and unless a read failed no suffix that it has passed is among that.
ReadingIsRight(c) ==
    progress[c] = "reading" =>
        /\ throughout[c] \subseteq listed /\ listed \subseteq sometime[c]
        /\ c \notin failed => \A i \in 1..(position[c] - 1) : Walk[host[c]][i] \notin throughout[c]

\* The verdict of a check that has ended.
VerdictIsRight(c) ==
    /\ progress[c] = "clean" /\ c \notin failed => throughout[c] \cap Covering(c) = {}
    /\ progress[c] = "flagged" => sometime[c] \cap Covering(c) # {}

\* The inductive invariant of the blacklist.
BlacklistInv ==
    /\ BLTypeOK
    /\ \A c \in Checks :
        /\ progress[c] = "idle" \/ kind[c] = "redirect" => position[c] = 1
        /\ ReadingIsRight(c)
        /\ VerdictIsRight(c)

\* What covers a host: its suffixes, or for a redirect the host, which comes first.
LEMMA CoveringIsWalked ==
    ASSUME BLTypeOK, NEW c \in Checks
    PROVE  /\ Len(Walk[host[c]]) \in Nat \ {0}
           /\ Walk[host[c]][1] = host[c]
           /\ kind[c] = "redirect" => Covering(c) = {Walk[host[c]][1]}
           /\ kind[c] # "redirect" => Covering(c) = {Walk[host[c]][i] : i \in 1..Len(Walk[host[c]])}
<1> DEFINE w == Walk[host[c]]
<1>1. host[c] \in Hosts /\ w \in Seq(Domains) /\ w # <<>> /\ w[1] = host[c]
  BY BlacklistAssumption DEF BlacklistAssumption, BLTypeOK
<1>2. Len(w) \in Nat \ {0} /\ DOMAIN w = 1..Len(w)
  BY <1>1
<1> QED
  BY <1>1, <1>2 DEF Covering, ToSet

\* Before the first check nothing has been read.
LEMMA BLInitial == BLInit => BlacklistInv
<1> SUFFICES ASSUME BLInit PROVE BlacklistInv
  OBVIOUS
<1>1. \A c \in Checks : host[c] \in Hosts /\ Walk[host[c]] \in Seq(Domains) /\ Walk[host[c]] # <<>>
  BY BlacklistAssumption DEF BlacklistAssumption, BLInit
<1>2. BLTypeOK
  BY <1>1, BlacklistAssumption DEF BlacklistAssumption, BLInit, BLTypeOK
<1> QED
  BY <1>2 DEF BLInit, BlacklistInv, ReadingIsRight, VerdictIsRight

\* Starting a check: what is listed now has been listed all along.
LEMMA BeginKeeps ==
    ASSUME BlacklistInv, NEW c \in Checks, Begin(c)
    PROVE  BlacklistInv'
<1> USE DEF Begin, Advance
<1>1. BLTypeOK'
  BY DEF BlacklistInv, BLTypeOK
<1>2. ASSUME NEW e \in Checks
      PROVE  /\ (progress[e] = "idle" \/ kind[e] = "redirect" => position[e] = 1)'
             /\ ReadingIsRight(e)' /\ VerdictIsRight(e)'
  BY <1>2 DEF BlacklistInv, BLTypeOK, ReadingIsRight, VerdictIsRight, Covering
<1> QED BY <1>1, <1>2 DEF BlacklistInv

\* A statement of an administrator: it narrows what was listed throughout and widens what
\* was listed at some time, of the checks that are reading.
LEMMA EditKeeps ==
    ASSUME BlacklistInv, NEW ds \in SUBSET Domains, Edit(ds)
    PROVE  BlacklistInv'
<1> USE DEF Edit
<1>1. BLTypeOK'
  <2>1. /\ listed' \subseteq Domains /\ edits' \in 0..MaxEdits
        /\ throughout' \in [Checks -> SUBSET Domains] /\ sometime' \in [Checks -> SUBSET Domains]
    BY BlacklistAssumption DEF BlacklistInv, BLTypeOK, BlacklistAssumption
  <2>2. \A c \in Checks : throughout'[c] \subseteq sometime'[c]
    BY DEF BlacklistInv, BLTypeOK
  <2> QED BY <2>1, <2>2 DEF BlacklistInv, BLTypeOK
<1>2. ASSUME NEW e \in Checks
      PROVE  /\ (progress[e] = "idle" \/ kind[e] = "redirect" => position[e] = 1)'
             /\ ReadingIsRight(e)' /\ VerdictIsRight(e)'
  BY <1>2 DEF BlacklistInv, BLTypeOK, ReadingIsRight, VerdictIsRight, Covering
<1> QED BY <1>1, <1>2 DEF BlacklistInv

\* A read: it refuses for an entry it has just found, and passes a suffix only when that
\* is not listed now, hence was not listed throughout, or when the read failed.
LEMMA ReadKeeps ==
    ASSUME BlacklistInv, NEW c \in Checks, Read(c)
    PROVE  BlacklistInv'
<1> DEFINE w == Walk[host[c]]
           here == w[position[c]]
<1>1. /\ progress[c] = "reading" /\ throughout[c] \subseteq listed /\ listed \subseteq sometime[c]
      /\ c \notin failed => \A i \in 1..(position[c] - 1) : w[i] \notin throughout[c]
      /\ kind[c] = "redirect" => position[c] = 1
      /\ position[c] \in 1..Len(w)
  BY DEF Read, BlacklistInv, BLTypeOK, ReadingIsRight
<1>2. /\ Len(w) \in Nat \ {0}
      /\ kind[c] = "redirect" => Covering(c) = {w[1]}
      /\ kind[c] # "redirect" => Covering(c) = {w[i] : i \in 1..Len(w)}
  BY CoveringIsWalked DEF BlacklistInv
<1>3. UNCHANGED <<listed, edits, kind, host, throughout, sometime>> /\ failed' \in {failed, failed \cup {c}}
  BY DEF Read
<1>4. \/ here \in listed /\ progress' = [progress EXCEPT ![c] = "flagged"] /\ UNCHANGED position
      \/ LastRead(c) /\ progress' = [progress EXCEPT ![c] = "clean"] /\ UNCHANGED position
      \/ ~LastRead(c) /\ UNCHANGED progress /\ position' = [position EXCEPT ![c] = @ + 1]
  BY DEF Read, Proceed, Advance
<1>5. BLTypeOK'
  <2>1. progress' \in [Checks -> {"idle", "reading", "flagged", "clean"}] /\ failed' \subseteq Checks
    BY <1>3, <1>4 DEF BlacklistInv, BLTypeOK
  <2>2. position' \in [Checks -> Nat] /\ \A e \in Checks : position'[e] \in 1..Len(Walk[host[e]])
    <3>1. position' \in {position, [position EXCEPT ![c] = @ + 1]} /\ (LastRead(c) => position' = position)
      BY <1>4
    <3>2. /\ position \in [Checks -> Nat]
          /\ \A e \in Checks : position[e] \in 1..Len(Walk[host[e]])
      BY DEF BlacklistInv, BLTypeOK
    <3>3. ~LastRead(c) => position[c] + 1 \in 1..Len(w)
      BY <1>1, <1>2 DEF LastRead
    <3> QED BY <3>1, <3>2, <3>3
  <2> QED BY <1>3, <2>1, <2>2 DEF BlacklistInv, BLTypeOK
<1>6. ASSUME NEW e \in Checks \ {c}
      PROVE  /\ (progress[e] = "idle" \/ kind[e] = "redirect" => position[e] = 1)'
             /\ ReadingIsRight(e)' /\ VerdictIsRight(e)'
  <2>1. /\ progress'[e] = progress[e] /\ position'[e] = position[e]
        /\ e \in failed' <=> e \in failed
    BY <1>3, <1>4, <1>6 DEF BlacklistInv, BLTypeOK
  <2>2. Covering(e)' = Covering(e)
    BY <1>3 DEF Covering
  <2> QED BY <1>3, <1>6, <2>1, <2>2 DEF BlacklistInv, ReadingIsRight, VerdictIsRight
<1>7. Covering(c)' = Covering(c)
  BY <1>3 DEF Covering
<1>8. CASE here \in listed /\ progress' = [progress EXCEPT ![c] = "flagged"] /\ UNCHANGED position
  <2>1. progress'[c] = "flagged"
    BY <1>8 DEF BlacklistInv, BLTypeOK
  <2>2. here \in Covering(c)
    BY <1>1, <1>2
  <2>3. /\ (progress[c] = "idle" \/ kind[c] = "redirect" => position[c] = 1)'
        /\ ReadingIsRight(c)' /\ VerdictIsRight(c)'
    BY <1>1, <1>3, <1>7, <1>8, <2>1, <2>2 DEF ReadingIsRight, VerdictIsRight
  <2> QED BY <1>5, <1>6, <2>3 DEF BlacklistInv
<1>9. c \notin failed' => here \notin throughout[c] \/ progress'[c] = "flagged"
  BY <1>1, <1>3 DEF Read, Proceed, Advance, BlacklistInv, BLTypeOK
<1>10. CASE LastRead(c) /\ progress' = [progress EXCEPT ![c] = "clean"] /\ UNCHANGED position
  <2>1. progress'[c] = "clean"
    BY <1>10 DEF BlacklistInv, BLTypeOK
  <2>2. c \notin failed' => throughout[c] \cap Covering(c) = {}
    <3> SUFFICES ASSUME c \notin failed', NEW d \in Covering(c), d \in throughout[c] PROVE FALSE
      OBVIOUS
    <3>1. here \notin throughout[c] /\ c \notin failed
      BY <1>3, <1>9, <2>1
    <3>2. CASE kind[c] = "redirect"
      BY <1>1, <1>2, <3>1, <3>2
    <3>3. CASE kind[c] # "redirect"
      <4>1. PICK i \in 1..Len(w) : d = w[i]
        BY <1>2, <3>3
      <4>2. position[c] = Len(w)
        BY <1>10, <3>3 DEF LastRead
      <4>3. i = position[c] \/ i \in 1..(position[c] - 1)
        BY <1>2, <4>2
      <4> QED BY <1>1, <3>1, <4>1, <4>3
    <3> QED BY <3>2, <3>3
  <2>3. /\ (progress[c] = "idle" \/ kind[c] = "redirect" => position[c] = 1)'
        /\ ReadingIsRight(c)' /\ VerdictIsRight(c)'
    BY <1>1, <1>3, <1>7, <1>10, <2>1, <2>2 DEF ReadingIsRight, VerdictIsRight
  <2> QED BY <1>5, <1>6, <2>3 DEF BlacklistInv
<1>11. CASE ~LastRead(c) /\ UNCHANGED progress /\ position' = [position EXCEPT ![c] = @ + 1]
  <2>1. position'[c] = position[c] + 1 /\ progress'[c] = "reading" /\ kind[c] # "redirect"
    BY <1>1, <1>11 DEF BlacklistInv, BLTypeOK, LastRead
  <2>2. c \notin failed' => \A i \in 1..position[c] : w[i] \notin throughout[c]
    <3> SUFFICES ASSUME c \notin failed', NEW i \in 1..position[c] PROVE w[i] \notin throughout[c]
      OBVIOUS
    <3>1. here \notin throughout[c] /\ c \notin failed
      BY <1>3, <1>9, <2>1
    <3>2. i = position[c] \/ i \in 1..(position[c] - 1)
      BY <1>1, <1>2
    <3> QED BY <1>1, <3>1, <3>2
  <2>3. position'[c] - 1 = position[c]
    BY <1>1, <1>2, <2>1
  <2>4. /\ (progress[c] = "idle" \/ kind[c] = "redirect" => position[c] = 1)'
        /\ ReadingIsRight(c)' /\ VerdictIsRight(c)'
    BY <1>1, <1>3, <1>7, <2>1, <2>2, <2>3 DEF ReadingIsRight, VerdictIsRight
  <2> QED BY <1>5, <1>6, <2>4 DEF BlacklistInv
<1> QED BY <1>4, <1>8, <1>10, <1>11

\* The inductive invariant of the blacklist (isHostBlacklisted, service.go:66-81).
THEOREM BlacklistInvariance == BLSpec => []BlacklistInv
<1>1. BlacklistInv /\ [BLNext]_BLvars => BlacklistInv'
  <2> SUFFICES ASSUME BlacklistInv, [BLNext]_BLvars PROVE BlacklistInv'
    OBVIOUS
  <2>1. ASSUME NEW c \in Checks, Begin(c) PROVE BlacklistInv'
    BY <2>1, BeginKeeps
  <2>2. ASSUME NEW c \in Checks, Read(c) PROVE BlacklistInv'
    BY <2>2, ReadKeeps
  <2>3. ASSUME NEW d \in Domains, AddBlacklistDomain(d) \/ RemoveBlacklistDomain(d)
        PROVE  BlacklistInv'
    <3>1. listed \cup {d} \in SUBSET Domains /\ listed \ {d} \in SUBSET Domains
      BY DEF BlacklistInv, BLTypeOK
    <3> QED BY <2>3, <3>1, EditKeeps DEF AddBlacklistDomain, RemoveBlacklistDomain
  <2>4. CASE UNCHANGED BLvars
    BY <2>4 DEF BLvars, BlacklistInv, BLTypeOK, ReadingIsRight, VerdictIsRight, Covering
  <2> QED BY <2>1, <2>2, <2>3, <2>4 DEF BLNext
<1> QED BY <1>1, BLInitial, PTL DEF BLSpec

\* A host listed during a whole check is refused unless a read failed, and none is refused
\* that was not listed at some time of its check, however the list is edited meanwhile.
THEOREM VerdictsRight == BLSpec => []VerdictsAreRight
<1>1. BlacklistInv => VerdictsAreRight
  BY DEF BlacklistInv, VerdictsAreRight, VerdictIsRight
<1> QED BY <1>1, BlacklistInvariance, PTL

-----------------------------------------------------------------------------
-----------------------------------------------------------------------------
(* LinkReports: definitions *)

\* No entry of the sequence occurs twice.
OneEach(s) == \A i, j \in 1..Len(s) : s[i] = s[j] => i = j

\* Sequences of clicks, and the clicks that were given up on.
ClickTypes ==
    /\ accepted \in Seq(Visits) /\ pending \in Seq(Visits)
    /\ log \in Seq(Visits) /\ begun \in Seq(Visits)
    /\ late \subseteq Visits

\* A click is only once in each sequence,
ClicksOnce == OneEach(pending) /\ OneEach(log) /\ OneEach(begun)

\* it waits, was given up on or is written,
ClicksApart ==
    /\ \A i \in 1..Len(pending), j \in 1..Len(log) : pending[i] # log[j]
    /\ \A i \in 1..Len(pending) : pending[i] \notin late
    /\ \A i \in 1..Len(log) : log[i] \notin late

IsAccepted(v) == \E k \in 1..Len(accepted) : accepted[k] = v
IsDated(v)    == \E k \in 1..Len(begun) : begun[k] = v

\* was accepted, and is written by an INSERT that has begun.
ClicksKnown ==
    /\ \A i \in 1..Len(pending) : IsAccepted(pending[i])
    /\ \A i \in 1..Len(log) : IsAccepted(log[i])
    /\ \A v \in late : IsAccepted(v)
    /\ \A i \in 1..Len(log) : IsDated(log[i])

ClicksOK == ClickTypes /\ ClicksOnce /\ ClicksApart /\ ClicksKnown

Told(r, op) == pc[r] = "answered" /\ input[r].op = op

\* What a report has found out so far is right, and the rest is still empty.
ReportInv(r) ==
    /\ began[r] \in 0..Len(log)
    /\ pc[r] \in {"idle", "requested", "found"} => total[r] = 0
    /\ pc[r] \in {"idle"} \cup Stages => campaigns[r] = 0
    /\ pc[r] \in {"totalled", "grouped"} => input[r].op = "analytics" /\ TotalAddsUp(r)
    /\ pc[r] = "grouped" => DaysAddUp(r)
    /\ Told(r, "analytics") => SummaryAddsUp(r)
    /\ Told(r, "export") => ExportIsNewest(r)

\* The inductive invariant of the reports.
LinkReportsInv == LRTypeOK /\ ClicksOK /\ \A r \in Reports : ReportInv(r)

\* The log has only grown, and the days and dates of what was in it stand.
Grown ==
    /\ Len(log) <= Len(log')
    /\ \A i \in 1..Len(log) : log'[i] = log[i] /\ clickedOn'[log[i]] = clickedOn[log[i]]
    /\ Len(begun) <= Len(begun')
    /\ \A k \in 1..Len(begun) : begun'[k] = begun[k]

\* Nothing of a report has changed but where it is.
SameReport(r) ==
    /\ input' = input
    /\ cutoff'[r] = cutoff[r] /\ total'[r] = total[r] /\ days'[r] = days[r]
    /\ campaigns'[r] = campaigns[r] /\ exported'[r] = exported[r]
    /\ began'[r] = began[r] /\ broken'[r] = broken[r]

-----------------------------------------------------------------------------
(* The log of clicks *)

\* An entry that is new to a sequence is still there only once at its end.
LEMMA AppendedOnce ==
    ASSUME NEW S, NEW s \in Seq(S), NEW e \in S, OneEach(s), \A i \in 1..Len(s) : s[i] # e
    PROVE  LET t == Append(s, e) IN
           /\ t \in Seq(S) /\ OneEach(t)
           /\ Len(s) \in Nat /\ Len(t) = Len(s) + 1
           /\ \A i \in 1..Len(s) : t[i] = s[i] /\ s[i] \in S
           /\ t[Len(s) + 1] = e
           /\ \A i \in 1..Len(t) : i \in 1..Len(s) \/ i = Len(s) + 1
<1> DEFINE t == Append(s, e)
<1>1. /\ t \in Seq(S) /\ Len(s) \in Nat /\ Len(t) = Len(s) + 1
      /\ \A i \in 1..Len(s) : t[i] = s[i] /\ s[i] \in S
      /\ t[Len(s) + 1] = e
  BY AppendProperties, LenProperties, ElementOfSeq
<1> HIDE DEF t
<1>2. \A i \in 1..Len(t) : i \in 1..Len(s) \/ i = Len(s) + 1
  BY <1>1
<1>3. ASSUME NEW i \in 1..Len(t), NEW j \in 1..Len(t), t[i] = t[j] PROVE i = j
  <2>1. CASE i \in 1..Len(s) /\ j \in 1..Len(s)
    BY <1>1, <1>3, <2>1 DEF OneEach
  <2>2. CASE i = Len(s) + 1 /\ j \in 1..Len(s)
    BY <1>1, <1>3, <2>2
  <2>3. CASE i \in 1..Len(s) /\ j = Len(s) + 1
    BY <1>1, <1>3, <2>3
  <2> QED BY <1>2, <2>1, <2>2, <2>3
<1>4. OneEach(t)
  BY <1>3 DEF OneEach
<1> QED BY <1>1, <1>2, <1>4 DEF t

\* What the lengths of the sequences are, and what is in them.
LEMMA ClickLengths ==
    ASSUME ClickTypes
    PROVE  /\ Len(accepted) \in Nat /\ Len(pending) \in Nat /\ Len(log) \in Nat /\ Len(begun) \in Nat
           /\ DOMAIN log = 1..Len(log) /\ DOMAIN begun = 1..Len(begun)
           /\ DOMAIN accepted = 1..Len(accepted)
           /\ \A i \in 1..Len(log) : log[i] \in Visits
           /\ \A k \in 1..Len(begun) : begun[k] \in Visits
<1>1. ASSUME NEW s \in Seq(Visits)
      PROVE  Len(s) \in Nat /\ DOMAIN s = 1..Len(s) /\ \A i \in 1..Len(s) : s[i] \in Visits
  BY <1>1, LenProperties, ElementOfSeq
<1> QED BY <1>1 DEF ClickTypes

\* The first click that waits is neither written nor given up on.
LEMMA OldestPending ==
    ASSUME ClicksOK, pending # <<>>
    PROVE  LET h == Head(pending) IN
           /\ h \in Visits /\ h \notin late /\ IsAccepted(h)
           /\ \A i \in 1..Len(log) : log[i] # h
           /\ Tail(pending) \in Seq(Visits) /\ OneEach(Tail(pending))
           /\ \A i \in 1..Len(Tail(pending)) :
                /\ Tail(pending)[i] # h /\ Tail(pending)[i] \notin late
                /\ IsAccepted(Tail(pending)[i])
                /\ \A j \in 1..Len(log) : Tail(pending)[i] # log[j]
<1> DEFINE h == Head(pending)
           t == Tail(pending)
<1>1. pending \in Seq(Visits)
  BY DEF ClicksOK, ClickTypes
<1>2. /\ Len(pending) \in Nat /\ Len(pending) > 0 /\ h = pending[1] /\ h \in Visits
      /\ t \in Seq(Visits) /\ Len(t) = Len(pending) - 1
      /\ \A i \in 1..Len(t) : t[i] = pending[i + 1]
  BY <1>1, HeadTailProperties, LenProperties, EmptySeq
<1> HIDE DEF h, t
<1>3. 1 \in 1..Len(pending) /\ \A i \in 1..Len(t) : i + 1 \in 1..Len(pending) /\ i + 1 # 1
  BY <1>2
<1>4. h \notin late /\ IsAccepted(h) /\ \A i \in 1..Len(log) : log[i] # h
  BY <1>2, <1>3 DEF ClicksOK, ClicksApart, ClicksKnown
<1>5. OneEach(pending)
  BY DEF ClicksOK, ClicksOnce
<1>6. ASSUME NEW i \in 1..Len(t), NEW j \in 1..Len(t), t[i] = t[j] PROVE i = j
  <2>1. i + 1 \in 1..Len(pending) /\ j + 1 \in 1..Len(pending) /\ pending[i + 1] = pending[j + 1]
    BY <1>2, <1>3, <1>6
  <2>2. i + 1 = j + 1
    BY <1>5, <2>1 DEF OneEach
  <2> QED BY <2>2
<1>7. OneEach(t)
  BY <1>6 DEF OneEach
<1>8. ASSUME NEW i \in 1..Len(t)
      PROVE  /\ t[i] # h /\ t[i] \notin late /\ IsAccepted(t[i])
             /\ \A j \in 1..Len(log) : t[i] # log[j]
  <2>1. i + 1 \in 1..Len(pending) /\ i + 1 # 1 /\ t[i] = pending[i + 1]
    BY <1>2, <1>3
  <2>2. t[i] # h
    BY <1>2, <1>3, <1>5, <2>1 DEF OneEach
  <2> QED BY <2>1, <2>2 DEF ClicksOK, ClicksApart, ClicksKnown
<1> QED BY <1>2, <1>4, <1>7, <1>8 DEF h, t

\* A click that the log does not have goes behind what is in it.
LEMMA WrittenGrows ==
    ASSUME LRTypeOK, ClicksOK, NEW v \in Visits, Begun(v), log' = Append(log, v),
           UNCHANGED <<accepted, begun, clickedOn>>,
           \A i \in 1..Len(log) : log[i] # v, IsAccepted(v)
    PROVE  /\ log' \in Seq(Visits) /\ OneEach(log') /\ Grown
           /\ \A i \in 1..Len(log') : log'[i] = v \/ (i \in 1..Len(log) /\ log'[i] = log[i])
           /\ \A i \in 1..Len(log') : IsAccepted(log'[i]) /\ IsDated(log'[i])
<1>1. log \in Seq(Visits) /\ OneEach(log) /\ Len(begun) \in Nat /\ DOMAIN begun = 1..Len(begun)
  BY ClickLengths DEF ClicksOK, ClickTypes, ClicksOnce
<1>2. /\ log' \in Seq(Visits) /\ OneEach(log')
      /\ Len(log) \in Nat /\ Len(log') = Len(log) + 1
      /\ \A i \in 1..Len(log) : log'[i] = log[i]
      /\ log'[Len(log) + 1] = v
      /\ \A i \in 1..Len(log') : i \in 1..Len(log) \/ i = Len(log) + 1
  BY <1>1, AppendedOnce
<1>3. Grown
  BY <1>1, <1>2 DEF Grown
<1>4. \A i \in 1..Len(log') : log'[i] = v \/ (i \in 1..Len(log) /\ log'[i] = log[i])
  BY <1>2
<1>5. IsDated(v)
  BY <1>1 DEF Begun, IsDated
<1>6. \A i \in 1..Len(log) : IsAccepted(log[i]) /\ IsDated(log[i])
  BY DEF ClicksOK, ClicksKnown
<1>7. ASSUME NEW i \in 1..Len(log') PROVE IsAccepted(log'[i]) /\ IsDated(log'[i])
  <2>1. CASE log'[i] = v
    BY <1>5, <2>1
  <2>2. CASE i \in 1..Len(log) /\ log'[i] = log[i]
    BY <1>6, <2>2
  <2> QED BY <1>4, <2>1, <2>2
<1> QED BY <1>2, <1>3, <1>4, <1>7

\* What was accepted or dated still is, after a step that leaves these two alone.
LEMMA StillKnown ==
    ASSUME UNCHANGED <<accepted, begun>>, NEW v
    PROVE  IsAccepted(v)' = IsAccepted(v) /\ IsDated(v)' = IsDated(v)
BY DEF IsAccepted, IsDated

\* The worker writes the oldest pending click, which the log does not have, loses it, or
\* gives it up.
LEMMA SettleGrows ==
    ASSUME LRTypeOK, ClicksOK, Settle
    PROVE  ClicksOK' /\ Grown
<1> DEFINE h == Head(pending)
           t == Tail(pending)
<1>1. /\ pending # <<>> /\ pending' = t
      /\ UNCHANGED <<accepted, begun, clickedOn>>
      /\ \/ log' = log /\ late' \in {late, late \cup {h}}
         \/ log' = Append(log, h) /\ log' # log /\ late' = late /\ Begun(h)
  BY DEF Settle, Log!Settle
<1>2. /\ h \in Visits /\ h \notin late /\ IsAccepted(h)
      /\ \A i \in 1..Len(log) : log[i] # h
      /\ t \in Seq(Visits) /\ OneEach(t)
      /\ \A i \in 1..Len(t) : t[i] # h /\ t[i] \notin late /\ IsAccepted(t[i])
                              /\ \A j \in 1..Len(log) : t[i] # log[j]
  BY <1>1, OldestPending
<1> HIDE DEF h, t
<1>3. OneEach(begun') /\ begun' \in Seq(Visits) /\ accepted' \in Seq(Visits)
  BY <1>1 DEF ClicksOK, ClicksOnce, ClickTypes
<1>4. CASE log' = log /\ late' \in {late, late \cup {h}}
  <2>1. Grown
    BY <1>1, <1>4, ClickLengths DEF Grown, ClicksOK
  <2>2. ClickTypes' /\ ClicksOnce'
    BY <1>1, <1>2, <1>3, <1>4 DEF ClicksOK, ClickTypes, ClicksOnce, OneEach
  <2>3. ClicksApart'
    BY <1>1, <1>2, <1>4 DEF ClicksOK, ClicksApart
  <2>4. ClicksKnown'
    <3>1. \A v \in late' : IsAccepted(v)
      BY <1>2, <1>4 DEF ClicksOK, ClicksKnown
    <3>2. \A i \in 1..Len(log) : IsAccepted(log[i]) /\ IsDated(log[i])
      BY DEF ClicksOK, ClicksKnown
    <3> QED BY <1>1, <1>2, <1>4, <3>1, <3>2, StillKnown DEF ClicksKnown
  <2> QED BY <2>1, <2>2, <2>3, <2>4 DEF ClicksOK
<1>5. CASE log' = Append(log, h) /\ late' = late /\ Begun(h)
  <2>1. /\ log' \in Seq(Visits) /\ OneEach(log') /\ Grown
        /\ \A i \in 1..Len(log') : log'[i] = h \/ (i \in 1..Len(log) /\ log'[i] = log[i])
        /\ \A i \in 1..Len(log') : IsAccepted(log'[i]) /\ IsDated(log'[i])
    BY <1>1, <1>2, <1>5, WrittenGrows
  <2>2. ClickTypes' /\ ClicksOnce'
    BY <1>1, <1>2, <1>3, <1>5, <2>1 DEF ClicksOK, ClickTypes, ClicksOnce, OneEach
  <2>3. ClicksApart'
    <3>1. \A i \in 1..Len(log) : log[i] \notin late
      BY DEF ClicksOK, ClicksApart
    <3>2. \A i \in 1..Len(log') : log'[i] \notin late
      BY <1>2, <2>1, <3>1
    <3>3. \A i \in 1..Len(t), j \in 1..Len(log') : t[i] # log'[j]
      BY <1>2, <2>1
    <3> QED BY <1>1, <1>2, <1>5, <3>2, <3>3 DEF ClicksApart
  <2>4. ClicksKnown'
    <3>1. \A v \in late : IsAccepted(v)
      BY DEF ClicksOK, ClicksKnown
    <3> QED BY <1>1, <1>2, <1>5, <2>1, <3>1, StillKnown DEF ClicksKnown
  <2> QED BY <2>1, <2>2, <2>3, <2>4 DEF ClicksOK
<1> QED BY <1>1, <1>4, <1>5

\* An INSERT that was given up on writes a click that the log does not have.
LEMMA LandGrows ==
    ASSUME LRTypeOK, ClicksOK, NEW v \in Visits, Land(v)
    PROVE  ClicksOK' /\ Grown
<1>1. /\ v \in late /\ late' = late \ {v} /\ log' = Append(log, v) /\ Begun(v)
      /\ UNCHANGED <<accepted, pending, begun, clickedOn>>
  BY DEF Land, Log!Land
<1>2. /\ \A i \in 1..Len(log) : log[i] # v /\ log[i] \notin late
      /\ \A i \in 1..Len(pending) : pending[i] # v /\ pending[i] \notin late
      /\ IsAccepted(v)
  BY <1>1 DEF ClicksOK, ClicksApart, ClicksKnown
<1>3. /\ log' \in Seq(Visits) /\ OneEach(log') /\ Grown
      /\ \A i \in 1..Len(log') : log'[i] = v \/ (i \in 1..Len(log) /\ log'[i] = log[i])
      /\ \A i \in 1..Len(log') : IsAccepted(log'[i]) /\ IsDated(log'[i])
  BY <1>1, <1>2, WrittenGrows
<1>4. ClickTypes'
  BY <1>1, <1>3 DEF ClicksOK, ClickTypes
<1>5. ClicksOnce'
  <2>1. OneEach(pending') /\ OneEach(begun')
    BY <1>1 DEF ClicksOK, ClicksOnce, OneEach
  <2> QED BY <1>3, <2>1 DEF ClicksOnce
<1>6. ClicksApart'
  <2>1. \A i \in 1..Len(log') : log'[i] \notin late'
    BY <1>1, <1>2, <1>3
  <2>2. \A i \in 1..Len(pending), j \in 1..Len(log) : pending[i] # log[j]
    BY DEF ClicksOK, ClicksApart
  <2>3. \A i \in 1..Len(pending), j \in 1..Len(log') : pending[i] # log'[j]
    BY <1>2, <1>3, <2>2
  <2> QED BY <1>1, <1>2, <2>1, <2>3 DEF ClicksApart
<1>7. ClicksKnown'
  <2>1. \A u \in late' : IsAccepted(u)
    BY <1>1 DEF ClicksOK, ClicksKnown
  <2>2. \A i \in 1..Len(pending) : IsAccepted(pending[i])
    BY DEF ClicksOK, ClicksKnown
  <2> QED BY <1>1, <1>3, <2>1, <2>2, StillKnown DEF ClicksKnown
<1> QED BY <1>3, <1>4, <1>5, <1>6, <1>7 DEF ClicksOK

\* An INSERT that begins dates a click that is not written yet.
LEMMA BeginGrows ==
    ASSUME LRTypeOK, ClicksOK, NEW v \in Visits, BeginInsert(v)
    PROVE  ClicksOK' /\ Grown /\ clickedOn' \in [Visits -> Days]
<1>1. /\ v \in late \/ (pending # <<>> /\ v = Head(pending))
      /\ ~Begun(v) /\ begun' = Append(begun, v)
      /\ clickedOn' = [clickedOn EXCEPT ![v] = today]
      /\ UNCHANGED <<accepted, pending, late, log>>
  BY DEF BeginInsert
<1>2. begun \in Seq(Visits) /\ OneEach(begun) /\ \A k \in 1..Len(begun) : begun[k] # v
  BY <1>1, ClickLengths DEF Begun, ClicksOK, ClickTypes, ClicksOnce
<1>3. /\ begun' \in Seq(Visits) /\ OneEach(begun')
      /\ Len(begun) \in Nat /\ Len(begun') = Len(begun) + 1
      /\ \A k \in 1..Len(begun) : begun'[k] = begun[k]
  BY <1>1, <1>2, AppendedOnce
<1>4. \A i \in 1..Len(log) : log[i] # v
  <2>1. CASE v \in late
    BY <2>1 DEF ClicksOK, ClicksApart
  <2>2. CASE pending # <<>> /\ v = Head(pending)
    BY <2>2, OldestPending
  <2> QED BY <1>1, <2>1, <2>2
<1>5. clickedOn' \in [Visits -> Days] /\ \A i \in 1..Len(log) : clickedOn'[log[i]] = clickedOn[log[i]]
  <2>1. \A i \in 1..Len(log) : log[i] \in Visits
    BY ClickLengths DEF ClicksOK
  <2> QED BY <1>1, <1>4, <2>1 DEF LRTypeOK
<1>6. Grown
  BY <1>1, <1>3, <1>5, ClickLengths DEF Grown, ClicksOK
<1>7. ClickTypes'
  BY <1>1, <1>3 DEF ClicksOK, ClickTypes
<1>8. ClicksOnce'
  <2>1. OneEach(pending') /\ OneEach(log')
    BY <1>1 DEF ClicksOK, ClicksOnce, OneEach
  <2> QED BY <1>3, <2>1 DEF ClicksOnce
<1>9. ClicksApart'
  BY <1>1 DEF ClicksOK, ClicksApart
<1>10. ClicksKnown'
  <2>1. \A u : IsAccepted(u)' = IsAccepted(u)
    BY <1>1 DEF IsAccepted
  <2>2. ASSUME NEW u, IsDated(u) PROVE IsDated(u)'
    <3>1. \A k \in 1..Len(begun) : k \in 1..Len(begun')
      BY <1>3
    <3> QED BY <1>3, <2>2, <3>1 DEF IsDated
  <2> QED BY <1>1, <2>1, <2>2 DEF ClicksOK, ClicksKnown
<1> QED BY <1>5, <1>6, <1>7, <1>8, <1>9, <1>10 DEF ClicksOK

\* A click is accepted once, so what waits stays without repetition.
LEMMA AcceptGrows ==
    ASSUME LRTypeOK, ClicksOK, NEW v \in Visits, Log!Accept(v), UNCHANGED <<begun, clickedOn>>
    PROVE  ClicksOK' /\ Grown
<1>1. /\ accepted' = Append(accepted, v) /\ pending' = Append(pending, v)
      /\ UNCHANGED <<late, log>>
      /\ \A i \in DOMAIN accepted : accepted[i] # v
  BY DEF Log!Accept
<1>2. /\ accepted \in Seq(Visits) /\ pending \in Seq(Visits) /\ OneEach(pending)
      /\ DOMAIN accepted = 1..Len(accepted)
  BY ClickLengths DEF ClicksOK, ClickTypes, ClicksOnce
<1>3. /\ accepted' \in Seq(Visits) /\ Len(accepted) \in Nat /\ Len(accepted') = Len(accepted) + 1
      /\ \A i \in 1..Len(accepted) : accepted'[i] = accepted[i]
      /\ accepted'[Len(accepted) + 1] = v
  BY <1>1, <1>2, AppendProperties, LenProperties
<1>4. ~IsAccepted(v)
  BY <1>1, <1>2 DEF IsAccepted
<1>5. /\ \A i \in 1..Len(pending) : pending[i] # v
      /\ \A i \in 1..Len(log) : log[i] # v
      /\ v \notin late
  BY <1>4 DEF ClicksOK, ClicksKnown
<1>6. /\ pending' \in Seq(Visits) /\ OneEach(pending')
      /\ \A i \in 1..Len(pending) : pending'[i] = pending[i]
      /\ pending'[Len(pending) + 1] = v
      /\ \A i \in 1..Len(pending') : i \in 1..Len(pending) \/ i = Len(pending) + 1
  BY <1>1, <1>2, <1>5, AppendedOnce
<1>7. IsAccepted(v)' /\ \A u : IsAccepted(u) => IsAccepted(u)'
  <2>1. Len(accepted) + 1 \in 1..Len(accepted') /\ \A k \in 1..Len(accepted) : k \in 1..Len(accepted')
    BY <1>3
  <2> QED BY <1>3, <2>1 DEF IsAccepted
<1>8. ClickTypes'
  BY <1>1, <1>3, <1>6 DEF ClicksOK, ClickTypes
<1>9. ClicksOnce'
  <2>1. OneEach(log') /\ OneEach(begun')
    BY <1>1 DEF ClicksOK, ClicksOnce, OneEach
  <2> QED BY <1>6, <2>1 DEF ClicksOnce
<1>10. ClicksApart'
  BY <1>1, <1>5, <1>6 DEF ClicksOK, ClicksApart
<1>11. ClicksKnown'
  <2>1. \A u : IsDated(u)' = IsDated(u)
    BY DEF IsDated
  <2>2. ASSUME NEW i \in 1..Len(pending') PROVE IsAccepted(pending[i])'
    <3>1. CASE i \in 1..Len(pending)
      <4>1. IsAccepted(pending[i]) /\ pending'[i] = pending[i]
        BY <1>6, <3>1 DEF ClicksOK, ClicksKnown
      <4>2. PICK k \in 1..Len(accepted) : accepted[k] = pending[i]
        BY <4>1 DEF IsAccepted
      <4>3. k \in 1..Len(accepted') /\ accepted'[k] = pending'[i]
        BY <1>3, <4>1, <4>2
      <4> QED BY <4>3 DEF IsAccepted
    <3>2. CASE i = Len(pending) + 1
      <4>1. pending'[i] = v
        BY <1>6, <3>2
      <4>2. Len(accepted) + 1 \in 1..Len(accepted') /\ accepted'[Len(accepted) + 1] = v
        BY <1>3
      <4> QED BY <4>1, <4>2 DEF IsAccepted
    <3> QED BY <1>6, <3>1, <3>2
  <2> QED BY <1>1, <1>7, <2>1, <2>2 DEF ClicksOK, ClicksKnown
<1>12. Grown
  BY <1>1, ClickLengths DEF Grown, ClicksOK
<1> QED BY <1>8, <1>9, <1>10, <1>11, <1>12 DEF ClicksOK

\* The end of the process loses what waits, but perhaps not the oldest, and leaves the log.
LEMMA StopGrows ==
    ASSUME LRTypeOK, ClicksOK, Log!Stop, UNCHANGED <<begun, clickedOn>>
    PROVE  ClicksOK' /\ Grown
<1>1. /\ pending # <<>> /\ pending' = <<>>
      /\ UNCHANGED <<accepted, log, begun>>
      /\ late' \in {late, late \cup {Head(pending)}}
  BY DEF Log!Stop
<1>2. pending' \in Seq(Visits) /\ 1..Len(pending') = {}
  BY <1>1, EmptySeq
<1>3. /\ Head(pending) \in Visits /\ IsAccepted(Head(pending))
      /\ \A i \in 1..Len(log) : log[i] # Head(pending)
  BY <1>1, OldestPending
<1>4. Grown
  BY <1>1, ClickLengths DEF ClicksOK, Grown
<1>5. ClickTypes'
  BY <1>1, <1>2, <1>3 DEF ClicksOK, ClickTypes
<1>6. ClicksOnce'
  BY <1>1, <1>2 DEF ClicksOK, ClicksOnce, OneEach
<1>7. ClicksApart'
  BY <1>1, <1>2, <1>3 DEF ClicksOK, ClicksApart
<1>8. ClicksKnown'
  BY <1>1, <1>2, <1>3, StillKnown DEF ClicksOK, ClicksKnown
<1> QED BY <1>4, <1>5, <1>6, <1>7, <1>8 DEF ClicksOK

\* Steps of reports and of the clock do not touch the log.
LEMMA SameGrows ==
    ASSUME LRTypeOK, ClicksOK, UNCHANGED clickVars
    PROVE  ClicksOK' /\ Grown
<1>1. UNCHANGED <<accepted, pending, late, log, begun, clickedOn>>
  BY DEF clickVars
<1>2. Grown
  BY <1>1, ClickLengths DEF ClicksOK, Grown
<1>3. ClickTypes' /\ ClicksOnce'
  BY <1>1 DEF ClicksOK, ClickTypes, ClicksOnce, OneEach
<1>4. ClicksApart' /\ ClicksKnown'
  BY <1>1, StillKnown DEF ClicksOK, ClicksApart, ClicksKnown
<1> QED BY <1>2, <1>3, <1>4 DEF ClicksOK

-----------------------------------------------------------------------------
(* Counting *)

\* Smaller sets have fewer elements.
LEMMA Fewer ==
    ASSUME NEW n \in Nat, NEW T \in SUBSET (1..n), NEW S \in SUBSET T
    PROVE  /\ IsFiniteSet(S) /\ IsFiniteSet(T)
           /\ Cardinality(S) \in Nat /\ Cardinality(T) \in Nat
           /\ Cardinality(S) <= Cardinality(T)
<1>1. IsFiniteSet(1..n)
  BY FS_Interval
<1>2. IsFiniteSet(T)
  BY <1>1, FS_Subset
<1> QED BY <1>2, FS_Subset, FS_CardinalityType

\* A set of places in a sequence has a greatest one.
LEMMA HasGreatest ==
    ASSUME NEW n \in Nat, NEW S \in SUBSET (1..n), S # {}
    PROVE  \E m \in S : \A k \in S : k <= m
<1> DEFINE T == {j \in Nat : \E m \in S : j = n - m}
<1>1. T \subseteq Nat /\ T # {}
  <2>1. PICK m \in S : TRUE
    OBVIOUS
  <2>2. n - m \in Nat
    OBVIOUS
  <2> QED BY <2>1, <2>2
<1> HIDE DEF T
<1>2. PICK x \in T : \A y \in T : ~(<<y, x>> \in OpToRel(<, Nat))
  BY <1>1, NatLessThanWellFounded, WFMin
<1>3. \A y \in T : ~(y < x)
  BY <1>1, <1>2 DEF OpToRel
<1>4. PICK m \in S : x = n - m
  BY DEF T
<1>5. ASSUME NEW k \in S PROVE k <= m
  <2>1. n - k \in T
    BY DEF T
  <2> QED BY <1>3, <1>4, <2>1
<1> QED BY <1>5

\* The members of S in class d, and one pair for each of those that are counted.
OfClass(S, g, d) == {i \in S : g[i] = d}
Pairs(D, h) == UNION {{d} \X (1..h[d]) : d \in D}

\* Counted one class at a time a finite set has as many elements as counted at once.
LEMMA CountedByClass ==
    ASSUME NEW S, IsFiniteSet(S), NEW D, NEW g \in [S -> D], NEW h \in [D -> Nat],
           \A d \in D : h[d] = Cardinality(OfClass(S, g, d))
    PROVE  Cardinality(Pairs(D, h)) = Cardinality(S)
<1> USE DEF OfClass, Pairs
<1> DEFINE P == Pairs(D, h)
           Class(d) == OfClass(S, g, d)
           B == [d \in D |-> CHOOSE b : b \in Bijection(Class(d), 1..h[d])]
           f == [i \in S |-> <<g[i], B[g[i]][i]>>]
<1>1. ASSUME NEW d \in D PROVE B[d] \in Bijection(Class(d), 1..h[d])
  <2>1. Class(d) \in SUBSET S
    OBVIOUS
  <2>2. IsFiniteSet(Class(d))
    BY <2>1, FS_Subset
  <2>3. IsFiniteSet(1..h[d]) /\ Cardinality(1..h[d]) = h[d]
    BY FS_Interval
  <2>4. Cardinality(Class(d)) = Cardinality(1..h[d])
    BY <2>3
  <2>5. ExistsBijection(Class(d), 1..h[d])
    BY <2>2, <2>3, <2>4, FS_SameCardinalityBij
  <2>6. \E b : b \in Bijection(Class(d), 1..h[d])
    BY <2>5 DEF ExistsBijection
  <2> QED BY <2>6
<1> HIDE DEF B
<1>2. ASSUME NEW d \in D
      PROVE  /\ \A i \in Class(d) : B[d][i] \in 1..h[d]
             /\ \A i, j \in Class(d) : B[d][i] = B[d][j] => i = j
             /\ \A k \in 1..h[d] : \E i \in Class(d) : B[d][i] = k
  <2>1. B[d] \in [Class(d) -> 1..h[d]]
    BY <1>1 DEF Bijection, Injection
  <2>2. \A i, j \in Class(d) : B[d][i] = B[d][j] => i = j
    BY <1>1 DEF Bijection, Injection, IsInjective
  <2>3. \A k \in 1..h[d] : \E i \in Class(d) : B[d][i] = k
    BY <1>1 DEF Bijection, Surjection
  <2> QED BY <2>1, <2>2, <2>3
<1>3. \A i \in S : g[i] \in D /\ i \in Class(g[i])
  OBVIOUS
<1>4. f \in [S -> P]
  BY <1>2, <1>3
<1>5. \A i, j \in S : f[i] = f[j] => i = j
  BY <1>2, <1>3
<1>6. ASSUME NEW p \in P PROVE \E i \in S : f[i] = p
  <2>1. PICK d \in D : p \in {d} \X (1..h[d])
    OBVIOUS
  <2>2. PICK k \in 1..h[d] : p = <<d, k>>
    BY <2>1
  <2>3. PICK i \in Class(d) : B[d][i] = k
    BY <1>2
  <2> QED BY <2>2, <2>3
<1> HIDE DEF f, P
<1>7. f \in Bijection(S, P)
  BY <1>4, <1>5, <1>6 DEF Bijection, Injection, Surjection, IsInjective
<1>8. ExistsBijection(S, P)
  BY <1>7 DEF ExistsBijection
<1> QED BY <1>8, FS_Bijection DEF P

\* Of some places, those with fewer than ExportLimit after them: the last ones.
LEMMA NewestAreLast ==
    ASSUME ExportLimit \in Nat \ {0}, NEW n \in Nat, NEW R \in SUBSET (1..n)
    PROVE  /\ Newest(R) \subseteq R
           /\ Cardinality(Newest(R)) <= ExportLimit
           /\ \A i \in R \ Newest(R) :
                Cardinality(Newest(R)) = ExportLimit /\ \A j \in Newest(R) : j > i
<1> DEFINE N == Newest(R)
           After(i) == {j \in R : j > i}
<1>1. N \in SUBSET R /\ \A i \in R : i \in N <=> Cardinality(After(i)) < ExportLimit
  BY DEF Newest
<1> HIDE DEF N
<1>2. /\ \A i \in R : i \in Int /\ i \in 1..n
      /\ \A i \in N : i \in R /\ i \in Int
      /\ \A i \in R : After(i) \in SUBSET (1..n)
  <2>1. \A i \in R : i \in 1..n
    OBVIOUS
  <2>2. \A i \in 1..n : i \in Int
    OBVIOUS
  <2>3. ASSUME NEW i \in R PROVE After(i) \in SUBSET (1..n)
    BY <2>1
  <2> QED BY <1>1, <2>1, <2>2, <2>3
<1>3. ASSUME NEW i \in R \ N, NEW j \in N PROVE j > i
  <2> SUFFICES ASSUME ~(j > i) PROVE FALSE
    OBVIOUS
  <2>1. i \in Int /\ j \in Int /\ j \in R /\ i \in R
    BY <1>2
  <2>2. After(j) \in SUBSET (1..n) /\ \A k \in R : k > i => k > j
    BY <1>2, <2>1
  <2>3. After(i) \in SUBSET After(j)
    BY <2>2
  <2>4. Cardinality(After(i)) <= Cardinality(After(j)) /\ Cardinality(After(i)) \in Nat /\ Cardinality(After(j)) \in Nat
    BY <2>2, <2>3, Fewer
  <2> QED BY <1>1, <2>1, <2>4
<1>4. Cardinality(N) <= ExportLimit
  <2>1. CASE N = {}
    BY <2>1, FS_EmptySet
  <2>2. CASE N # {}
    <3>1. PICK x \in N : \A k \in N : x <= k
      <4> DEFINE T == {j \in 1..n : n + 1 - j \in N}
      <4>1. T \in SUBSET (1..n) /\ T # {}
        <5>1. PICK y \in N : TRUE
          BY <2>2
        <5>2. n + 1 - y \in T
          BY <1>1, <5>1
        <5> QED BY <5>2
      <4>2. PICK m \in T : \A k \in T : k <= m
        BY <4>1, HasGreatest
      <4>3. ASSUME NEW k \in N PROVE n + 1 - m <= k
        <5>1. n + 1 - k \in T
          BY <1>1
        <5> QED BY <1>1, <4>2, <5>1
      <4> QED BY <4>2, <4>3
    <3>2. N \in SUBSET (After(x) \cup {x}) /\ After(x) \in SUBSET (1..n) /\ x \notin After(x)
      <4>1. \A k \in N : k \in R /\ (k = x \/ k > x)
        BY <1>2, <3>1
      <4>2. x \in Int /\ ~(x > x) /\ x \in R
        BY <1>2
      <4> QED BY <1>2, <4>1, <4>2
    <3>3. IsFiniteSet(After(x)) /\ Cardinality(After(x)) \in Nat /\ Cardinality(After(x)) < ExportLimit
      BY <1>1, <3>2, Fewer
    <3>4. /\ IsFiniteSet(After(x) \cup {x})
          /\ Cardinality(After(x) \cup {x}) = Cardinality(After(x)) + 1
      BY <3>2, <3>3, FS_AddElement
    <3>5. Cardinality(N) <= Cardinality(After(x) \cup {x}) /\ IsFiniteSet(N)
      BY <3>2, <3>4, FS_Subset
    <3>6. Cardinality(N) \in Nat
      BY <3>5, FS_CardinalityType
    <3> QED BY <3>3, <3>4, <3>5, <3>6
  <2> QED BY <2>1, <2>2
<1>5. ASSUME NEW i \in R \ N PROVE Cardinality(N) = ExportLimit
  <2>1. R \ N \in SUBSET (1..n) /\ R \ N # {} /\ N \in SUBSET (1..n)
    BY <1>1
  <2>2. PICK m \in R \ N : \A k \in R \ N : k <= m
    BY <2>1, HasGreatest
  <2>3. After(m) \in SUBSET N
    <3>1. m \in Int /\ \A k \in R : k > m => k \in N
      BY <1>2, <2>2
    <3> QED BY <3>1
  <2>4. Cardinality(After(m)) <= Cardinality(N) /\ Cardinality(After(m)) \in Nat /\ Cardinality(N) \in Nat
    BY <2>1, <2>3, Fewer
  <2>5. Cardinality(After(m)) >= ExportLimit
    BY <1>1, <2>4
  <2> QED BY <1>4, <2>4, <2>5
<1> QED BY <1>1, <1>3, <1>4, <1>5 DEF N

-----------------------------------------------------------------------------
(* What a report has found stays right while clicks are written *)

\* A prefix of the log has finitely many clicks, and a longer one no fewer.
LEMMA YoungIsFinite ==
    ASSUME NEW r, NEW n \in Nat
    PROVE  /\ Young(r, n) \in SUBSET (1..n)
           /\ IsFiniteSet(Young(r, n)) /\ Cardinality(Young(r, n)) \in Nat
           /\ \A m \in 0..n : Young(r, m) \in SUBSET Young(r, n)
                              /\ Cardinality(Young(r, m)) \in Nat
                              /\ Cardinality(Young(r, m)) <= Cardinality(Young(r, n))
<1>1. Young(r, n) \in SUBSET (1..n)
  BY DEF Young, RowsOf
<1>2. IsFiniteSet(Young(r, n)) /\ Cardinality(Young(r, n)) \in Nat
  BY <1>1, Fewer
<1>3. ASSUME NEW m \in 0..n
      PROVE  /\ Young(r, m) \in SUBSET Young(r, n)
             /\ Cardinality(Young(r, m)) \in Nat
             /\ Cardinality(Young(r, m)) <= Cardinality(Young(r, n))
  <2>1. \A i \in 1..m : i \in 1..n
    OBVIOUS
  <2>2. Young(r, m) \in SUBSET Young(r, n)
    BY <2>1 DEF Young, RowsOf
  <2> QED BY <1>1, <2>2, Fewer
<1> QED BY <1>1, <1>2, <1>3

\* As the log grows, the clicks of a report in each prefix stay and those in all grow.
LEMMA YoungGrows ==
    ASSUME ClicksOK, ClicksOK', Grown, NEW r, input' = input, cutoff'[r] = cutoff[r]
    PROVE  /\ \A n \in 0..Len(log) : RowsOf(r, n)' = RowsOf(r, n) /\ Young(r, n)' = Young(r, n)
           /\ Most(r) \in Nat /\ Most(r)' \in Nat /\ Most(r) <= Most(r)'
<1>1. Len(log) \in Nat /\ Len(log') \in Nat /\ Len(log) \in 0..Len(log')
  BY LenProperties DEF ClicksOK, ClickTypes, Grown
<1>2. ASSUME NEW n \in 0..Len(log)
      PROVE  RowsOf(r, n)' = RowsOf(r, n) /\ Young(r, n)' = Young(r, n)
  <2>1. \A i \in 1..n : i \in 1..Len(log)
    BY <1>1
  <2>2. \A i \in 1..n : log'[i] = log[i] /\ clickedOn'[log'[i]] = clickedOn[log[i]]
    BY <2>1 DEF Grown
  <2>3. RowsOf(r, n)' = RowsOf(r, n)
    BY <2>2 DEF RowsOf
  <2>4. \A i \in RowsOf(r, n) : i \in 1..n
    BY DEF RowsOf
  <2> QED BY <2>2, <2>3, <2>4 DEF Young
<1>3. PICK n \in Nat, m \in Nat : n = Len(log) /\ m = Len(log') /\ n <= m
  BY <1>1 DEF Grown
<1>4. Most(r) = Cardinality(Young(r, n)) /\ Most(r)' = Cardinality(Young(r, m)')
  BY <1>3 DEF Most, Young, RowsOf
<1>5. Young(r, n) = Young(r, n)'
  BY <1>2, <1>3
<1>6. Young(r, m)' \in SUBSET (1..m) /\ Young(r, n)' \in SUBSET Young(r, m)'
  <2>1. \A i \in 1..n : i \in 1..m
    BY <1>3
  <2> QED BY <2>1 DEF Young, RowsOf
<1> QED BY <1>2, <1>4, <1>5, <1>6, Fewer

\* The sum of the days is a number: there are finitely many pairs.
LEMMA DaySumType ==
    ASSUME LRTypeOK, NEW r \in Reports
    PROVE  DaySum(r) \in Nat
<1> DEFINE part == [d \in Days |-> {d} \X (1..days[r][d])]
           S == {{d} \X (1..days[r][d]) : d \in Days}
<1>1. IsFiniteSet(Days)
  BY LinkReportsAssumption, FS_Interval DEF LinkReportsAssumption, Days
<1>2. part \in Surjection(Days, S)
  BY DEF Surjection
<1>3. IsFiniteSet(S)
  <2> HIDE DEF part, S
  <2> QED BY <1>1, <1>2, FS_Surjection
<1>4. ASSUME NEW T \in S PROVE IsFiniteSet(T)
  <2>1. PICK d \in Days : T = {d} \X (1..days[r][d])
    OBVIOUS
  <2>2. PICK k \in Int : k = days[r][d]
    BY DEF LRTypeOK
  <2>3. IsFiniteSet({d})
    BY FS_Singleton, Zenon
  <2>4. IsFiniteSet(1..k)
    BY FS_Interval
  <2> QED BY <2>1, <2>2, <2>3, <2>4, FS_Product
<1>5. IsFiniteSet(UNION S)
  <2> HIDE DEF S
  <2> QED BY <1>3, <1>4, FS_UNION
<1> QED BY <1>5, FS_CardinalityType DEF DaySum

\* The parts of a report that has them stay right.
LEMMA PartsKeep ==
    ASSUME LRTypeOK, ClicksOK, ClicksOK', Grown, NEW r \in Reports, SameReport(r),
           began[r] \in 0..Len(log)
    PROVE  /\ TotalAddsUp(r) => TotalAddsUp(r)'
           /\ DaysAddUp(r) => DaysAddUp(r)'
           /\ CampaignsAddUp(r) => CampaignsAddUp(r)'
<1>1. /\ input'[r] = input[r] /\ input' = input /\ cutoff'[r] = cutoff[r]
      /\ total'[r] = total[r] /\ days'[r] = days[r] /\ campaigns'[r] = campaigns[r]
      /\ began'[r] = began[r] /\ broken'[r] = broken[r]
  BY DEF SameReport
<1>2. /\ Most(r) \in Nat /\ Most(r)' \in Nat /\ Most(r) <= Most(r)'
      /\ \A n \in 0..Len(log) : Young(r, n)' = Young(r, n)
  BY <1>1, YoungGrows
<1>3. Cardinality(Young(r, began[r]))' = Cardinality(Young(r, began[r]))
  <2>1. PICK n \in 0..Len(log) : n = began[r]
    OBVIOUS
  <2>2. Young(r, began[r])' = Young(r, n)'
    BY <1>1, <2>1 DEF Young, RowsOf
  <2> QED BY <1>2, <2>1, <2>2
<1>4. DaySum(r)' = DaySum(r)
  BY <1>1 DEF DaySum
<1>5. total[r] \in Nat /\ campaigns[r] \in Nat /\ DaySum(r) \in Nat
  BY DaySumType DEF LRTypeOK
<1>6. TotalAddsUp(r) => TotalAddsUp(r)'
  BY <1>1, <1>2, <1>3, <1>5 DEF TotalAddsUp
<1>7. DaysAddUp(r) => DaysAddUp(r)'
  BY <1>1, <1>2, <1>4, <1>5 DEF DaysAddUp
<1>8. CampaignsAddUp(r) => CampaignsAddUp(r)'
  BY <1>1, <1>2, <1>4, <1>5 DEF CampaignsAddUp
<1> QED BY <1>6, <1>7, <1>8

\* A file that was the newest when it was made stays so: it is not asked for clicks written
\* later, and the dates of the others stand.
LEMMA FileKeeps ==
    ASSUME LRTypeOK, ClicksOK, ClicksOK', Grown, NEW r \in Reports, SameReport(r),
           began[r] \in 0..Len(log), ExportIsNewest(r)
    PROVE  ExportIsNewest(r)'
<1>1. /\ input' = input /\ cutoff'[r] = cutoff[r]
      /\ exported'[r] = exported[r] /\ began'[r] = began[r]
  BY DEF SameReport
<1>2. PICK n \in Nat, m \in Nat, b \in Nat :
        n = Len(log) /\ m = Len(log') /\ n <= m /\ b = began[r] /\ b \in 0..n
  BY LenProperties DEF ClicksOK, ClickTypes, Grown
<1>3. \A i \in 1..n : i \in 1..m /\ log'[i] = log[i]
  BY <1>2 DEF Grown
<1>4. RowsOf(r, began[r])' = RowsOf(r, b) /\ \A i \in RowsOf(r, b) : log'[i] = log[i]
  <2>1. \A i \in 1..b : i \in 1..n
    BY <1>2
  <2> QED BY <1>1, <1>2, <1>3, <2>1 DEF RowsOf
<1>5. \A i \in RowsOf(r, n) : i \in RowsOf(r, m)' /\ log'[i] = log[i]
  BY <1>1, <1>3 DEF RowsOf
<1>6. exported'[r] \subseteq {log'[i] : i \in RowsOf(r, Len(log))'}
  <2>1. RowsOf(r, Len(log))' = RowsOf(r, m)'
    BY <1>2 DEF RowsOf
  <2> QED BY <1>1, <1>2, <1>5, <2>1 DEF ExportIsNewest
<1>7. ASSUME NEW u, NEW v, Older(u, v) PROVE Older(u, v)'
  <2>1. Len(begun) \in Nat /\ DOMAIN begun = 1..Len(begun) /\ DOMAIN begun' = 1..Len(begun')
    <3>1. begun \in Seq(Visits) /\ begun' \in Seq(Visits)
      BY DEF ClicksOK, ClickTypes
    <3> QED BY <3>1, LenProperties
  <2> QED BY <1>7, <2>1 DEF Older, Grown
<1> QED BY <1>1, <1>2, <1>4, <1>6, <1>7 DEF ExportIsNewest

\* Whatever others do, a report that itself takes no step stays right.
LEMMA OthersKeep ==
    ASSUME LRTypeOK, ClicksOK, ClicksOK', Grown, NEW r \in Reports, ReportInv(r), SameReport(r),
           pc'[r] = pc[r] \/ pc'[r] = "failed"
    PROVE  ReportInv(r)'
<1>1. began[r] \in 0..Len(log)
  BY DEF ReportInv
<1>2. /\ TotalAddsUp(r) => TotalAddsUp(r)'
      /\ DaysAddUp(r) => DaysAddUp(r)'
      /\ CampaignsAddUp(r) => CampaignsAddUp(r)'
      /\ ExportIsNewest(r) => ExportIsNewest(r)'
  BY <1>1, PartsKeep, FileKeeps
<1>3. began[r]' \in 0..Len(log')
  BY <1>1, LenProperties DEF SameReport, Grown, ClicksOK, ClickTypes
<1>4. /\ input'[r] = input[r] /\ total'[r] = total[r] /\ campaigns'[r] = campaigns[r]
  BY DEF SameReport
<1> QED BY <1>1, <1>2, <1>3, <1>4 DEF ReportInv, Told, SummaryAddsUp, Stages

-----------------------------------------------------------------------------
(* The statements of a report *)

\* A statement of a report touches neither the log nor another report.
LEMMA StepFrame ==
    ASSUME LRTypeOK, NEW r \in Reports, ReportStep(r)
    PROVE  /\ UNCHANGED <<clickVars, today, input>>
           /\ \A q \in Reports \ {r} : SameReport(q) /\ pc'[q] = pc[q]
<1> USE DEF LRTypeOK, SameReport, Goto, Ignore
<1>1. CASE Open(r)
  BY <1>1 DEF Open
<1>2. CASE FindLink(r)
  BY <1>2 DEF FindLink
<1>3. CASE CountTotal(r)
  BY <1>3 DEF CountTotal
<1>4. CASE GroupByDay(r)
  BY <1>4 DEF GroupByDay
<1>5. CASE BreakDown(r)
  BY <1>5 DEF BreakDown
<1>6. CASE Export(r)
  BY <1>6 DEF Export
<1> QED BY <1>1, <1>2, <1>3, <1>4, <1>5, <1>6 DEF ReportStep

\* A report that begins has found nothing yet.
LEMMA OpenKeeps ==
    ASSUME LinkReportsInv, NEW r \in Reports, Open(r)
    PROVE  LRTypeOK' /\ ReportInv(r)'
<1>1. LRTypeOK /\ ReportInv(r) /\ Len(log) \in Nat
  BY ClickLengths DEF LinkReportsInv, ClicksOK
<1>2. PICK s \in {"forbidden", "requested"} : Goto(r, s)
  BY DEF Open
<1>3. pc' \in [Reports -> {"idle"} \cup Stages \cup Answers] /\ began' \in [Reports -> Nat]
  BY <1>1, <1>2 DEF LRTypeOK, Open, Goto, Stages, Answers
<1>4. LRTypeOK'
  BY <1>1, <1>3 DEF LRTypeOK, Open, clickVars
<1>5. /\ began'[r] = Len(log) /\ pc'[r] \in {"forbidden", "requested"} /\ pc[r] = "idle"
      /\ UNCHANGED <<log, total, campaigns, exported>>
  BY <1>1, <1>2 DEF LRTypeOK, Open, Goto, clickVars
<1> QED BY <1>1, <1>5, <1>4 DEF ReportInv, Told, Stages

\* Only a QR code is answered when the link is found.
LEMMA FindLinkKeeps ==
    ASSUME LinkReportsInv, NEW r \in Reports, FindLink(r)
    PROVE  LRTypeOK' /\ ReportInv(r)'
<1>1. LRTypeOK /\ ReportInv(r)
  BY DEF LinkReportsInv
<1>2. PICK s \in {"forbidden", "found", "notfound", "failed", "answered"} :
        Goto(r, s) /\ (s = "answered" => input[r].op = "qr")
  BY DEF FindLink, Owned
<1>3. pc' \in [Reports -> {"idle"} \cup Stages \cup Answers] /\ pc'[r] = s
  BY <1>1, <1>2 DEF LRTypeOK, Goto, Stages, Answers
<1>4. LRTypeOK'
  BY <1>1, <1>3 DEF LRTypeOK, FindLink, clickVars
<1>5. pc[r] = "requested" /\ UNCHANGED <<log, total, campaigns, exported, began, input>>
  BY DEF FindLink, clickVars
<1> QED BY <1>1, <1>2, <1>3, <1>4, <1>5 DEF ReportInv, Told, Stages

\* A count is the number of rows it counts.
LEMMA CountTotalKeeps ==
    ASSUME LinkReportsInv, NEW r \in Reports, CountTotal(r)
    PROVE  LRTypeOK' /\ ReportInv(r)'
<1> DEFINE from == today - Retention(r)
           count == Cardinality(RowsSince(r, from))
<1>1. LRTypeOK /\ ClicksOK /\ ReportInv(r)
  BY DEF LinkReportsInv
<1>2. /\ pc[r] = "found" /\ input[r].op = "analytics"
      /\ pc' = [pc EXCEPT ![r] = "totalled"] /\ cutoff' = [cutoff EXCEPT ![r] = from]
      /\ \/ total' = [total EXCEPT ![r] = count] /\ broken' = broken
         \/ total' = total /\ broken' = [broken EXCEPT ![r] = TRUE]
      /\ UNCHANGED <<clickVars, today, input, days, campaigns, exported, began>>
  BY DEF CountTotal, Goto, Ignore
<1>3. /\ pc'[r] = "totalled" /\ cutoff'[r] = from
      /\ total'[r] = count \/ (total' = total /\ broken'[r] = TRUE)
  <2> HIDE DEF from, count
  <2>1. pc'[r] = "totalled" /\ cutoff'[r] = from
    BY <1>1, <1>2 DEF LRTypeOK
  <2>2. total' = [total EXCEPT ![r] = count] => total'[r] = count
    BY <1>1 DEF LRTypeOK
  <2>3. broken' = [broken EXCEPT ![r] = TRUE] => broken'[r] = TRUE
    BY <1>1 DEF LRTypeOK
  <2> QED BY <1>2, <2>1, <2>2, <2>3
<1>4. PICK n \in Nat, b \in Nat : n = Len(log) /\ b = began[r] /\ b \in 0..n
  <2>1. Len(log) \in Nat /\ began[r] \in 0..Len(log)
    BY <1>1, ClickLengths DEF ReportInv, ClicksOK
  <2> QED BY <2>1
<1>5. /\ Most(r)' = count
      /\ Cardinality(Young(r, began[r]))' = Cardinality({i \in RowsOf(r, b) : clickedOn[log[i]] >= from})
      /\ RowsSince(r, from) \in SUBSET (1..n)
      /\ {i \in RowsOf(r, b) : clickedOn[log[i]] >= from} \in SUBSET RowsSince(r, from)
  <2>1. \A i \in 1..b : i \in 1..n
    BY <1>4
  <2>2. Young(r, Len(log))' = RowsSince(r, from)
    BY <1>3, <1>2 DEF Young, RowsOf, RowsSince, clickVars
  <2>3. Young(r, began[r])' = {i \in RowsOf(r, b) : clickedOn[log[i]] >= from}
    BY <1>3, <1>2, <1>4 DEF Young, RowsOf, clickVars
  <2>4. RowsSince(r, from) \in SUBSET (1..n)
    BY <1>4 DEF RowsSince, RowsOf
  <2>5. {i \in RowsOf(r, b) : clickedOn[log[i]] >= from} \in SUBSET RowsSince(r, from)
    BY <1>4, <2>1 DEF RowsSince, RowsOf
  <2> QED BY <2>2, <2>3, <2>4, <2>5 DEF Most
<1>6. count \in Nat /\ Cardinality(Young(r, began[r]))' \in Nat
      /\ Cardinality(Young(r, began[r]))' <= count
  BY <1>5, Fewer
<1>7. TotalAddsUp(r)'
  <2>1. CASE total'[r] = count
    BY <1>5, <1>6, <2>1 DEF TotalAddsUp
  <2>2. CASE total' = total /\ broken'[r] = TRUE
    <3>1. total[r] = 0
      BY <1>1, <1>2 DEF ReportInv
    <3> QED BY <1>5, <1>6, <2>2, <3>1 DEF TotalAddsUp
  <2> QED BY <1>3, <2>1, <2>2
<1>8. LRTypeOK'
  <2>1. from \in Int
    BY <1>1, LinkReportsAssumption DEF LRTypeOK, Retention, LinkReportsAssumption, Days
  <2>2. cutoff' \in [Reports -> Int] /\ total' \in [Reports -> Nat] /\ broken' \in [Reports -> BOOLEAN]
    BY <1>1, <1>2, <1>6, <2>1 DEF LRTypeOK
  <2>3. pc' \in [Reports -> {"idle"} \cup Stages \cup Answers]
    BY <1>1 DEF CountTotal, Goto, LRTypeOK, Stages
  <2> QED BY <1>1, <1>2, <2>2, <2>3 DEF LRTypeOK, clickVars
<1> QED BY <1>3, <1>1, <1>2, <1>7, <1>8 DEF ReportInv, Told, Stages, clickVars

\* What later statements of a report compare themselves with has not changed.
LEMMA SameYoung ==
    ASSUME NEW r, UNCHANGED <<clickVars, input>>, cutoff'[r] = cutoff[r], began'[r] = began[r]
    PROVE  /\ Most(r)' = Most(r)
           /\ Cardinality(Young(r, began[r]))' = Cardinality(Young(r, began[r]))
           /\ Most(r) = Cardinality(RowsSince(r, cutoff[r]))
BY DEF Most, Young, RowsOf, RowsSince, clickVars

\* Grouped by day the rows are as many as together.
LEMMA GroupByDayKeeps ==
    ASSUME LinkReportsInv, NEW r \in Reports, GroupByDay(r)
    PROVE  LRTypeOK' /\ ReportInv(r)'
<1> DEFINE R == RowsSince(r, cutoff[r])
           Day(i) == clickedOn[log[i]]
<1>1. LRTypeOK /\ ClicksOK /\ ReportInv(r)
  BY DEF LinkReportsInv
<1>2. /\ pc[r] = "totalled" /\ pc'[r] \in {"grouped", "failed"}
      /\ pc' \in [Reports -> {"idle"} \cup Stages \cup Answers]
      /\ UNCHANGED <<clickVars, today, input, cutoff, total, campaigns, exported, began>>
  BY <1>1 DEF GroupByDay, Goto, LRTypeOK, Stages, Answers
<1>3. PICK n \in Nat : n = Len(log)
  BY <1>1, ClickLengths DEF ClicksOK
<1>4. R \in SUBSET (1..n) /\ \A i \in R : Day(i) \in Days
  <2>1. R \in SUBSET (1..n)
    BY <1>3 DEF RowsSince, RowsOf
  <2>2. \A i \in 1..n : log[i] \in Visits
    BY <1>1, <1>3, ClickLengths DEF ClicksOK
  <2> QED BY <1>1, <2>1, <2>2 DEF LRTypeOK
<1>5. CASE UNCHANGED <<days, broken>> /\ pc'[r] = "failed"
  <2>1. LRTypeOK'
    BY <1>1, <1>2, <1>5 DEF LRTypeOK, clickVars
  <2> QED BY <1>1, <1>2, <1>5, <2>1 DEF ReportInv, Told, Stages, clickVars
<1>6. ASSUME NEW last \in -1..LastDay,
             days' = [days EXCEPT ![r] = [d \in Days |->
                        Cardinality({i \in R : Day(i) = d /\ d <= last})]],
             IF last < LastDay THEN Ignore(r) ELSE UNCHANGED broken,
             pc'[r] = "grouped"
      PROVE  LRTypeOK' /\ ReportInv(r)'
  <2> DEFINE S == {i \in R : Day(i) <= last}
             g == [i \in S |-> Day(i)]
             h == [d \in Days |-> Cardinality({i \in R : Day(i) = d /\ d <= last})]
  <2>1. days'[r] = h
    BY <1>1, <1>6 DEF LRTypeOK
  <2>2. S \in SUBSET R /\ g \in [S -> Days]
    BY <1>4
  <2>3. /\ IsFiniteSet(S) /\ Cardinality(S) \in Nat /\ Cardinality(R) \in Nat
        /\ Cardinality(S) <= Cardinality(R)
    <3> HIDE DEF S, R
    <3> QED BY <1>4, <2>2, Fewer
  <2>4. \A d \in Days : {i \in R : Day(i) = d /\ d <= last} = OfClass(S, g, d)
    BY DEF OfClass
  <2>5. ASSUME NEW d \in Days PROVE Cardinality({i \in R : Day(i) = d /\ d <= last}) \in Nat
    <3> DEFINE T == {i \in R : Day(i) = d /\ d <= last}
    <3>1. T \in SUBSET R
      OBVIOUS
    <3> HIDE DEF T, R
    <3>2. Cardinality(T) \in Nat
      BY <1>4, <3>1, Fewer
    <3> QED BY <3>2 DEF T, R
  <2>6. h \in [Days -> Nat] /\ \A d \in Days : h[d] = Cardinality(OfClass(S, g, d))
    <3>1. h \in [Days -> Nat]
      BY <2>5
    <3>2. \A d \in Days : h[d] = Cardinality({i \in R : Day(i) = d /\ d <= last})
      OBVIOUS
    <3> HIDE DEF h, S, g
    <3> QED BY <2>4, <3>1, <3>2
  <2>7. Cardinality(Pairs(Days, h)) = Cardinality(S)
    <3> HIDE DEF S, g, h
    <3> QED BY <2>2, <2>3, <2>6, CountedByClass
  <2>8. DaySum(r)' = Cardinality(S)
    <3> HIDE DEF S, h
    <3> QED BY <2>1, <2>7 DEF DaySum, Pairs
  <2>9. broken'[r] = TRUE \/ (S = R /\ broken' = broken)
    <3>1. CASE last < LastDay
      <4>1. broken \in [Reports -> BOOLEAN] /\ broken' = [broken EXCEPT ![r] = TRUE]
        BY <1>1, <1>6, <3>1 DEF Ignore, LRTypeOK
      <4> QED BY <4>1
    <3>2. CASE ~(last < LastDay)
      <4>1. last = LastDay
        BY <1>6, <3>2, LinkReportsAssumption DEF LinkReportsAssumption
      <4>2. \A i \in R : Day(i) <= LastDay
        BY <1>4, LinkReportsAssumption DEF Days, LinkReportsAssumption
      <4> QED BY <1>6, <3>2, <4>1, <4>2
    <3> QED BY <3>1, <3>2
  <2>10. /\ Most(r)' = Most(r) /\ Most(r) = Cardinality(R)
         /\ Cardinality(Young(r, began[r]))' = Cardinality(Young(r, began[r]))
    BY <1>2, SameYoung
  <2>11. TotalAddsUp(r)
    BY <1>1, <1>2 DEF ReportInv
  <2>12. TotalAddsUp(r)' /\ DaysAddUp(r)'
    <3> HIDE DEF S, R
    <3>1. total'[r] = total[r] /\ (~broken'[r] => ~broken[r])
      BY <1>2, <2>9
    <3>2. TotalAddsUp(r)'
      BY <2>10, <2>11, <3>1 DEF TotalAddsUp
    <3>3. DaysAddUp(r)'
      BY <2>3, <2>8, <2>9, <2>10, <2>11, <3>1 DEF TotalAddsUp, DaysAddUp
    <3> QED BY <3>2, <3>3
  <2>13. LRTypeOK'
    <3>1. days' \in [Reports -> [Days -> Nat]]
      <4> HIDE DEF h
      <4>1. days' = [days EXCEPT ![r] = h]
        BY <1>6 DEF h
      <4> QED BY <1>1, <2>6, <4>1 DEF LRTypeOK
    <3>2. broken' \in [Reports -> BOOLEAN]
      BY <1>1, <1>6 DEF Ignore, LRTypeOK
    <3> QED BY <1>1, <1>2, <3>1, <3>2 DEF LRTypeOK, clickVars
  <2>14. input[r].op = "analytics" /\ campaigns[r] = 0
    BY <1>1, <1>2 DEF ReportInv, Stages
  <2> QED BY <1>1, <1>2, <1>6, <2>12, <2>13, <2>14 DEF ReportInv, Told, Stages, clickVars
<1>7. \/ UNCHANGED <<days, broken>> /\ pc'[r] = "failed"
      \/ \E last \in -1..LastDay :
            /\ days' = [days EXCEPT ![r] = [d \in Days |->
                          Cardinality({i \in R : Day(i) = d /\ d <= last})]]
            /\ IF last < LastDay THEN Ignore(r) ELSE UNCHANGED broken
            /\ pc'[r] = "grouped"
  BY <1>1 DEF GroupByDay, Goto, LRTypeOK
<1> QED BY <1>5, <1>6, <1>7

\* The breakdown counts all young rows, hence no fewer than the days do.
LEMMA BreakDownKeeps ==
    ASSUME LinkReportsInv, NEW r \in Reports, BreakDown(r)
    PROVE  LRTypeOK' /\ ReportInv(r)'
<1> DEFINE count == Cardinality(RowsSince(r, cutoff[r]))
<1>1. LRTypeOK /\ ClicksOK /\ ReportInv(r)
  BY DEF LinkReportsInv
<1>2. /\ pc[r] = "grouped" /\ pc' = [pc EXCEPT ![r] = "answered"]
      /\ UNCHANGED <<clickVars, today, input, cutoff, total, days, exported, began>>
  BY DEF BreakDown, Goto
<1>3. /\ input[r].op = "analytics" /\ campaigns[r] = 0
      /\ TotalAddsUp(r) /\ DaysAddUp(r)
  BY <1>1, <1>2 DEF ReportInv, Stages
<1>4. /\ Most(r)' = Most(r) /\ Most(r) = count
      /\ Cardinality(Young(r, began[r]))' = Cardinality(Young(r, began[r]))
  BY <1>2, SameYoung
<1>5. count \in Nat
  <2>1. RowsSince(r, cutoff[r]) \in SUBSET (1..Len(log)) /\ Len(log) \in Nat
    BY <1>1, ClickLengths DEF RowsSince, RowsOf, ClicksOK
  <2> QED BY <2>1, Fewer
<1>6. DaySum(r)' = DaySum(r)
  BY <1>2 DEF DaySum
<1>7. /\ campaigns' \in [Reports -> Nat] /\ broken' \in [Reports -> BOOLEAN]
      /\ \/ campaigns'[r] = count /\ broken' = broken
         \/ campaigns' = campaigns /\ broken'[r] = TRUE
         \/ /\ ~(input[r].plan \in PaidPlans /\ input[r].link \in Tagged)
            /\ campaigns' = campaigns /\ broken' = broken
  <2> HIDE DEF count
  <2>1. \/ campaigns' = [campaigns EXCEPT ![r] = count] /\ broken' = broken
        \/ campaigns' = campaigns /\ broken' = [broken EXCEPT ![r] = TRUE]
        \/ /\ ~(input[r].plan \in PaidPlans /\ input[r].link \in Tagged)
           /\ campaigns' = campaigns /\ broken' = broken
    BY DEF BreakDown, Ignore, count
  <2>2. campaigns' = [campaigns EXCEPT ![r] = count] =>
          campaigns' \in [Reports -> Nat] /\ campaigns'[r] = count
    BY <1>1, <1>5 DEF LRTypeOK
  <2>3. broken' = [broken EXCEPT ![r] = TRUE] =>
          broken' \in [Reports -> BOOLEAN] /\ broken'[r] = TRUE
    BY <1>1 DEF LRTypeOK
  <2>4. campaigns \in [Reports -> Nat] /\ broken \in [Reports -> BOOLEAN]
    BY <1>1 DEF LRTypeOK
  <2> QED BY <2>1, <2>2, <2>3, <2>4
<1> HIDE DEF count
<1>8. total'[r] = total[r] /\ (~broken'[r] => ~broken[r])
  BY <1>2, <1>7
<1>9. TotalAddsUp(r)'
  BY <1>3, <1>4, <1>8 DEF TotalAddsUp
<1>10. DaysAddUp(r)'
  BY <1>3, <1>4, <1>6, <1>8 DEF DaysAddUp
<1>11. CampaignsAddUp(r)'
  BY <1>2, <1>3, <1>4, <1>5, <1>6, <1>7 DEF DaysAddUp, CampaignsAddUp
<1>12. LRTypeOK' /\ pc'[r] = "answered"
  <2>1. pc' \in [Reports -> {"idle"} \cup Stages \cup Answers] /\ pc'[r] = "answered"
    BY <1>1, <1>2 DEF LRTypeOK, Answers
  <2> QED BY <1>1, <1>2, <1>7, <2>1 DEF LRTypeOK, clickVars
<1> QED BY <1>1, <1>2, <1>3, <1>9, <1>10, <1>11, <1>12 DEF ReportInv, Told, Stages, SummaryAddsUp, clickVars

\* The file has the newest rows, each of another visit.
LEMMA ExportKeeps ==
    ASSUME LinkReportsInv, NEW r \in Reports, Export(r)
    PROVE  LRTypeOK' /\ ReportInv(r)'
<1>1. LRTypeOK /\ ClicksOK /\ ReportInv(r)
  BY DEF LinkReportsInv
<1>2. PICK n \in Nat, b \in Nat, m \in Nat :
        n = Len(log) /\ b = began[r] /\ b \in 0..n /\ m = Len(begun) /\ DOMAIN begun = 1..m
  <2>1. began[r] \in 0..Len(log)
    BY <1>1 DEF ReportInv
  <2>2. Len(log) \in Nat /\ Len(begun) \in Nat /\ DOMAIN begun = 1..Len(begun)
    BY <1>1, ClickLengths DEF ClicksOK
  <2>3. began[r] \in Nat
    BY <2>1, <2>2
  <2> QED BY <2>1, <2>2, <2>3
<1> DEFINE R == Written(r)
           N == Newest(R)
           file == {begun[k] : k \in N}
<1>3. /\ pc[r] = "found" /\ input[r].op = "export"
      /\ UNCHANGED <<clickVars, today, input, cutoff, total, days, campaigns, began, broken>>
      /\ \/ exported' = [exported EXCEPT ![r] = file] /\ pc' = [pc EXCEPT ![r] = "answered"]
         \/ exported' = exported /\ pc' = [pc EXCEPT ![r] = "failed"]
  BY DEF Export, Goto
<1>4. /\ R \in SUBSET (1..m)
      /\ \A k \in R : \E i \in RowsOf(r, n) : log[i] = begun[k]
      /\ \A i \in RowsOf(r, b) : \E k \in R : begun[k] = log[i]
      /\ \A k \in 1..m : begun[k] \in Visits
  <2>1. R \in SUBSET (1..m)
    BY <1>2 DEF Written
  <2>2. ASSUME NEW k \in R PROVE \E i \in RowsOf(r, n) : log[i] = begun[k]
    <3>1. PICK i \in 1..n : log[i] = begun[k] /\ LinkOf[begun[k]] = input[r].link
      BY <1>1, <1>2, ClickLengths DEF Written, ClicksOK
    <3> QED BY <3>1 DEF RowsOf
  <2>3. ASSUME NEW i \in RowsOf(r, b) PROVE \E k \in R : begun[k] = log[i]
    <3>1. i \in 1..n /\ i \in DOMAIN log /\ LinkOf[log[i]] = input[r].link
      BY <1>1, <1>2, ClickLengths DEF RowsOf, ClicksOK
    <3>2. PICK k \in 1..m : begun[k] = log[i]
      BY <1>1, <1>2, <3>1 DEF ClicksOK, ClicksKnown, IsDated
    <3> QED BY <1>2, <3>1, <3>2 DEF Written
  <2>4. \A k \in 1..m : begun[k] \in Visits
    BY <1>1, <1>2, ClickLengths DEF ClicksOK
  <2> QED BY <2>1, <2>2, <2>3, <2>4
<1> HIDE DEF R
<1>5. /\ N \in SUBSET R /\ Cardinality(N) <= ExportLimit
      /\ \A k \in R \ N : Cardinality(N) = ExportLimit /\ \A l \in N : l > k
  BY <1>4, NewestAreLast, LinkReportsAssumption DEF LinkReportsAssumption
<1> HIDE DEF N
<1>6. file \in SUBSET Visits /\ file \subseteq {log[i] : i \in RowsOf(r, n)}
  BY <1>4, <1>5
<1>7. Cardinality(file) = Cardinality(N)
  <2> DEFINE f == [k \in N |-> begun[k]]
  <2>1. \A k, l \in N : begun[k] = begun[l] => k = l
    BY <1>1, <1>2, <1>4, <1>5 DEF ClicksOK, ClicksOnce, OneEach
  <2>2. f \in Bijection(N, file)
    BY <2>1 DEF Bijection, Injection, Surjection, IsInjective
  <2>3. IsFiniteSet(N)
    BY <1>4, <1>5, Fewer
  <2>4. ExistsBijection(N, file)
    BY <2>2 DEF ExistsBijection
  <2> QED BY <2>3, <2>4, FS_Bijection
<1>8. ASSUME NEW i \in RowsOf(r, b), log[i] \notin file
      PROVE  Cardinality(file) = ExportLimit /\ \A v \in file : Older(log[i], v)
  <2>1. PICK k \in R : begun[k] = log[i]
    BY <1>4
  <2>2. k \notin N
    BY <1>8, <2>1
  <2>3. ASSUME NEW l \in N PROVE Older(log[i], begun[l])
    <3>1. k \in 1..m /\ l \in 1..m /\ k < l
      BY <1>4, <1>5, <2>2
    <3> QED BY <1>2, <2>1, <3>1 DEF Older
  <2> QED BY <1>5, <1>7, <2>2, <2>3
<1> HIDE DEF file
<1>9. CASE exported' = [exported EXCEPT ![r] = file] /\ pc' = [pc EXCEPT ![r] = "answered"]
  <2>1. /\ exported' \in [Reports -> SUBSET Visits] /\ exported'[r] = file
        /\ pc' \in [Reports -> {"idle"} \cup Stages \cup Answers] /\ pc'[r] = "answered"
    BY <1>1, <1>6, <1>9 DEF LRTypeOK, Answers
  <2>2. LRTypeOK'
    BY <1>1, <1>3, <2>1 DEF LRTypeOK, clickVars
  <2>3. /\ RowsOf(r, began[r])' = RowsOf(r, b) /\ RowsOf(r, Len(log))' = RowsOf(r, n)
        /\ UNCHANGED <<log, begun>>
    BY <1>2, <1>3 DEF RowsOf, clickVars
  <2>4. \A u, v : Older(u, v)' <=> Older(u, v)
    BY <2>3 DEF Older
  <2>5. ExportIsNewest(r)'
    BY <1>5, <1>6, <1>7, <1>8, <2>1, <2>3, <2>4 DEF ExportIsNewest
  <2> QED BY <1>1, <1>3, <1>6, <2>1, <2>2, <2>5 DEF ReportInv, Told, Stages, clickVars
<1>10. CASE exported' = exported /\ pc' = [pc EXCEPT ![r] = "failed"]
  <2>1. pc' \in [Reports -> {"idle"} \cup Stages \cup Answers] /\ pc'[r] = "failed"
    BY <1>1, <1>10 DEF LRTypeOK, Answers
  <2>2. LRTypeOK'
    BY <1>1, <1>3, <1>10, <2>1 DEF LRTypeOK, clickVars
  <2> QED BY <1>1, <1>3, <1>10, <2>1, <2>2 DEF ReportInv, Told, Stages, clickVars
<1> QED BY <1>3, <1>9, <1>10

-----------------------------------------------------------------------------
(* The theorems *)

\* At first the log is empty and no report has begun.
LEMMA LRInitial == LRInit => LinkReportsInv
<1> SUFFICES ASSUME LRInit PROVE LinkReportsInv
  OBVIOUS
<1>1. accepted = <<>> /\ pending = <<>> /\ late = {} /\ log = <<>> /\ begun = <<>>
  BY DEF LRInit, Log!Init
<1>2. ClicksOK /\ Len(log) = 0
  <2>1. /\ accepted \in Seq(Visits) /\ pending \in Seq(Visits)
        /\ log \in Seq(Visits) /\ begun \in Seq(Visits)
        /\ Len(pending) = 0 /\ Len(log) = 0 /\ Len(begun) = 0
    BY <1>1, EmptySeq
  <2>2. 1..Len(pending) = {} /\ 1..Len(log) = {} /\ 1..Len(begun) = {}
    BY <2>1
  <2> QED BY <1>1, <2>1, <2>2 DEF ClicksOK, ClickTypes, ClicksOnce, ClicksApart, ClicksKnown, OneEach
<1>3. LRTypeOK
  <2>1. 0 \in Days
    BY LinkReportsAssumption DEF LinkReportsAssumption, Days
  <2>2. pc \in [Reports -> {"idle"} \cup Stages \cup Answers]
    BY DEF LRInit
  <2>3. begun \in Seq(Visits)
    BY <1>2 DEF ClicksOK, ClickTypes
  <2> QED BY <2>1, <2>2, <2>3 DEF LRInit, LRTypeOK
<1>4. ASSUME NEW r \in Reports PROVE ReportInv(r)
  BY <1>2 DEF LRInit, ReportInv, Told, Stages
<1> QED BY <1>2, <1>3, <1>4 DEF LinkReportsInv

\* Statements of a report keep the invariant of all reports.
LEMMA ReportStepKeeps ==
    ASSUME LinkReportsInv, NEW r \in Reports, ReportStep(r)
    PROVE  LinkReportsInv'
<1>1. LRTypeOK /\ ClicksOK /\ \A q \in Reports : ReportInv(q)
  BY DEF LinkReportsInv
<1>2. LRTypeOK' /\ ReportInv(r)'
  BY OpenKeeps, FindLinkKeeps, CountTotalKeeps, GroupByDayKeeps, BreakDownKeeps, ExportKeeps DEF ReportStep
<1>3. /\ UNCHANGED clickVars
      /\ \A q \in Reports \ {r} : SameReport(q) /\ pc'[q] = pc[q]
  BY <1>1, StepFrame
<1>4. ClicksOK' /\ Grown
  BY <1>1, <1>3, SameGrows
<1>5. ASSUME NEW q \in Reports \ {r} PROVE ReportInv(q)'
  BY <1>1, <1>3, <1>4, OthersKeep
<1> QED BY <1>2, <1>4, <1>5 DEF LinkReportsInv

\* So do clicks, their INSERTs, the clock and the restart of the process.
LEMMA ClicksKeep ==
    ASSUME LinkReportsInv,
           (\E v \in Visits : Accept(v) \/ BeginInsert(v) \/ Land(v)) \/ Settle \/ NextDay \/ Restart
    PROVE  LinkReportsInv'
<1>1. LRTypeOK /\ ClicksOK /\ \A r \in Reports : ReportInv(r)
  BY DEF LinkReportsInv
<1>2. ClicksOK' /\ Grown /\ clickedOn' \in [Visits -> Days]
  <2>1. ASSUME NEW v \in Visits, Accept(v) PROVE ClicksOK' /\ Grown /\ clickedOn' = clickedOn
    BY <1>1, <2>1, AcceptGrows DEF Accept
  <2>2. ASSUME NEW v \in Visits, Land(v) PROVE ClicksOK' /\ Grown /\ clickedOn' = clickedOn
    BY <1>1, <2>2, LandGrows DEF Land
  <2>3. ASSUME NEW v \in Visits, BeginInsert(v)
        PROVE  ClicksOK' /\ Grown /\ clickedOn' \in [Visits -> Days]
    BY <1>1, <2>3, BeginGrows
  <2>4. CASE Settle
    BY <1>1, <2>4, SettleGrows DEF Settle, LRTypeOK
  <2>5. CASE NextDay
    BY <1>1, <2>5, SameGrows DEF NextDay, clickVars, LRTypeOK
  <2>6. CASE Restart
    BY <1>1, <2>6, StopGrows DEF Restart, LRTypeOK
  <2>7. clickedOn \in [Visits -> Days]
    BY <1>1 DEF LRTypeOK
  <2> QED BY <2>1, <2>2, <2>3, <2>4, <2>5, <2>6, <2>7
<1>3. /\ UNCHANGED <<input, cutoff, total, days, campaigns, exported, began, broken>>
      /\ \A r \in Reports : pc'[r] = pc[r] \/ pc'[r] = "failed"
      /\ pc' \in [Reports -> {"idle"} \cup Stages \cup Answers]
  <2>1. CASE ~Restart
    BY <1>1, <2>1 DEF Accept, BeginInsert, Land, Settle, NextDay, reportVars, LRTypeOK
  <2>2. CASE Restart
    BY <1>1, <2>2 DEF Restart, LRTypeOK, Answers
  <2> QED BY <2>1, <2>2
<1>4. today' \in Days
  BY <1>1, LinkReportsAssumption
  DEF Accept, BeginInsert, Land, Settle, NextDay, Restart, LRTypeOK, Days, LinkReportsAssumption
<1>5. LRTypeOK'
  <2>1. begun' \in Seq(Visits)
    BY <1>2 DEF ClicksOK, ClickTypes
  <2> QED BY <1>1, <1>2, <1>3, <1>4, <2>1 DEF LRTypeOK
<1>6. ASSUME NEW r \in Reports PROVE ReportInv(r)'
  BY <1>1, <1>2, <1>3, OthersKeep DEF SameReport
<1> QED BY <1>2, <1>5, <1>6 DEF LinkReportsInv

\* The inductive invariant of the reports: each click is written at most once, and what a
\* report has found so far is right (GetLinkAnalytics, GetExportAnalytics).
THEOREM ReportsInvariance == LRSpec => []LinkReportsInv
<1>1. LinkReportsInv /\ [LRNext]_LRvars => LinkReportsInv'
  <2> SUFFICES ASSUME LinkReportsInv, [LRNext]_LRvars PROVE LinkReportsInv'
    OBVIOUS
  <2>1. CASE LRNext
    BY <2>1, ReportStepKeeps, ClicksKeep DEF LRNext
  <2>2. CASE UNCHANGED LRvars
    <3>1. /\ UNCHANGED <<clickVars, today, input, cutoff, total, days, campaigns, exported, began, broken>>
          /\ pc' = pc
      BY <2>2 DEF LRvars, reportVars
    <3>2. LRTypeOK /\ ClicksOK /\ \A r \in Reports : ReportInv(r)
      BY DEF LinkReportsInv
    <3>3. LRTypeOK'
      BY <3>1, <3>2 DEF LRTypeOK, clickVars
    <3>4. ClicksOK' /\ Grown
      BY <3>1, <3>2, SameGrows
    <3>5. ASSUME NEW r \in Reports PROVE ReportInv(r)'
      BY <3>1, <3>2, <3>4, OthersKeep DEF SameReport
    <3> QED BY <3>3, <3>4, <3>5 DEF LinkReportsInv
  <2> QED BY <2>1, <2>2
<1> QED BY <1>1, LRInitial, PTL DEF LRSpec

\* What an owner is told adds up: total, days and campaigns are wrong by no more than the
\* clicks written meanwhile and in one direction, and an export has the newest clicks.
THEOREM ReportsAreRight == LRSpec => []ReportsAddUp
<1>1. LinkReportsInv => ReportsAddUp
  BY DEF LinkReportsInv, ReportInv, Told, ReportsAddUp
<1> QED BY <1>1, ReportsInvariance, PTL

-----------------------------------------------------------------------------
-----------------------------------------------------------------------------
(* RateLimiter *)

USE RateLimiterAssumption

\* A client that evict drops has a full bucket: the call sees the level it would see
\* without eviction.
LEMMA EvictedAreFull ==
    ASSUME IInv, NEW ip \in IPs
    PROVE  /\ LevelOf(ip) = Level(ip)
           /\ Level(ip) \in 0..Cap
           /\ ip \in Kept => ip \in DOMAIN limiters
<1>1. CASE ip \notin DOMAIN limiters
    BY <1>1 DEF IInv, TypeOK, LevelOf, Level, Kept
<1>2. CASE ip \in DOMAIN limiters
  <2>1. limiters[ip] \in Bucket /\ limiters[ip].at <= lastSeen[ip] /\ lastSeen[ip] \in 0..now
      BY <1>2 DEF IInv, TypeOK
  <2>2. Filled(limiters[ip]) \in 0..Cap
      BY <2>1 DEF Filled, Bucket, IInv, TypeOK
  <2>3. CASE ip \in Kept
      BY <1>2, <2>2, <2>3 DEF LevelOf, Level
  <2>4. CASE ip \notin Kept
    <3>1. now - lastSeen[ip] > IdleTTL
        BY <1>2, <2>4 DEF Kept, IInv, TypeOK
    <3>2. Filled(limiters[ip]) = Cap
        BY <2>1, <3>1 DEF Filled, Bucket, IInv, TypeOK
    <3> QED BY <1>2, <2>4, <3>2 DEF LevelOf, Level
  <2> QED BY <2>3, <2>4
<1> QED BY <1>1, <1>2

\* What a call does to the buckets, seen from outside: it takes the price of a request
\* from its client's bucket or nothing, and touches no other bucket.
LEMMA AllowStep ==
    ASSUME IInv, NEW ip \in IPs, Allow(ip)
    PROVE  /\ IInv'
           /\ \A i \in IPs \ {ip} : Level(i)' = Level(i)
           /\ \/ /\ Level(ip) >= Cost
                 /\ Level(ip)' = Level(ip) - Cost
                 /\ answers' = [answers EXCEPT ![ip].allowed = @ + 1]
              \/ /\ Level(ip) < Cost
                 /\ Level(ip)' = Level(ip)
                 /\ answers' = [answers EXCEPT ![ip].denied = @ + 1]
<1> DEFINE paid == LevelOf(ip) >= Cost
           left == [level |-> LevelOf(ip) - Cost, at |-> now]
<1>1. /\ now' = now /\ now \in Nat
      /\ DOMAIN limiters' = Kept \cup {ip} /\ DOMAIN lastSeen' = Kept \cup {ip}
      /\ lastSeen'[ip] = now
      /\ \A i \in Kept \ {ip} : limiters'[i] = limiters[i] /\ lastSeen'[i] = lastSeen[i]
      /\ limiters'[ip] = IF paid THEN left ELSE limiters[ip]
    BY DEF Allow, IInv, TypeOK
<1>2. Kept \subseteq DOMAIN limiters /\ DOMAIN limiters \subseteq IPs /\ DOMAIN lastSeen = DOMAIN limiters
    BY DEF IInv, TypeOK, Kept
<1>3. /\ LevelOf(ip) = Level(ip) /\ Level(ip) \in 0..Cap
    BY EvictedAreFull
<1>4. ~paid => ip \in Kept
    BY DEF LevelOf
<1>5. limiters'[ip] \in Bucket /\ limiters'[ip].at <= now
  <2>1. CASE paid
      BY <1>1, <1>3, <2>1 DEF Bucket
  <2>2. CASE ~paid
      BY <1>1, <1>2, <1>4, <2>2 DEF IInv, TypeOK
  <2> QED BY <2>1, <2>2
<1>6. TypeOK'
  <2>1. \A i \in DOMAIN limiters' : limiters'[i] \in Bucket /\ limiters'[i].at <= now'
      BY <1>1, <1>2, <1>5 DEF IInv, TypeOK
  <2>2. \A i \in DOMAIN lastSeen' : lastSeen'[i] \in 0..now'
      BY <1>1, <1>2 DEF IInv, TypeOK
  <2>3. lastCleanup' \in Int /\ lastCleanup' <= now'
      BY <1>1 DEF Allow, IInv, TypeOK
  <2>4. answers' \in [IPs -> [allowed : Nat, denied : Nat]]
      BY DEF Allow, IInv, TypeOK
  <2> QED BY <1>1, <1>2, <2>1, <2>2, <2>3, <2>4 DEF TypeOK
<1>7. \A i \in DOMAIN limiters' :
        limiters'[i].at <= lastSeen'[i] /\ lastCleanup' - lastSeen'[i] <= IdleTTL
  <2>1. \A i \in DOMAIN limiters' : limiters'[i].at <= lastSeen'[i]
      BY <1>1, <1>2, <1>5 DEF IInv, TypeOK
  <2>2. \A i \in DOMAIN limiters' : lastCleanup' - lastSeen'[i] <= IdleTTL
    <3>1. CASE now - lastCleanup > IdleTTL
        BY <1>1, <1>2, <3>1 DEF Allow, Kept, IInv, TypeOK
    <3>2. CASE ~(now - lastCleanup > IdleTTL)
        BY <1>1, <1>2, <3>2 DEF Allow, IInv, TypeOK
    <3> QED BY <3>1, <3>2
  <2> QED BY <2>1, <2>2
<1>8. \A i \in IPs \ {ip} : Level(i)' = Level(i)
  <2> SUFFICES ASSUME NEW i \in IPs \ {ip} PROVE Level(i)' = Level(i)
      OBVIOUS
  <2>1. LevelOf(i) = Level(i)
      BY EvictedAreFull
  <2>2. CASE i \in Kept
      BY <1>1, <1>2, <2>2 DEF Level, Filled
  <2>3. CASE i \notin Kept
      BY <1>1, <2>1, <2>3 DEF Level, LevelOf
  <2> QED BY <2>2, <2>3
<1>9. Level(ip)' = IF paid THEN Level(ip) - Cost ELSE Level(ip)
  <2>1. Level(ip)' = IF limiters'[ip].level + (now - limiters'[ip].at) < Cap
                     THEN limiters'[ip].level + (now - limiters'[ip].at) ELSE Cap
      BY <1>1 DEF Level, Filled
  <2>2. CASE paid
      BY <1>1, <1>3, <2>1, <2>2
  <2>3. CASE ~paid
      BY <1>1, <1>2, <1>4, <2>1, <2>3 DEF Level, Filled
  <2> QED BY <2>2, <2>3
<1>10. answers' = IF paid THEN [answers EXCEPT ![ip].allowed = @ + 1]
                          ELSE [answers EXCEPT ![ip].denied = @ + 1]
    BY DEF Allow
<1>11. NeverOverdrawn'
  <2> SUFFICES ASSUME NEW i \in IPs
               PROVE  answers'[i].allowed * Cost + Level(i)' <= Cap + now'
      BY DEF NeverOverdrawn
  <2>1. answers[i].allowed * Cost + Level(i) <= Cap + now /\ answers[i].allowed \in Nat
      BY DEF IInv, TypeOK, NeverOverdrawn
  <2>2. CASE i = ip /\ paid
    <3>1. answers'[i].allowed = answers[i].allowed + 1
        BY <1>10, <2>2 DEF IInv, TypeOK
    <3>2. Level(i)' = Level(i) - Cost
        BY <1>9, <2>2
    <3>3. answers'[i].allowed * Cost = answers[i].allowed * Cost + Cost
        BY <2>1, <3>1
    <3> QED BY <1>1, <1>3, <2>1, <2>2, <3>2, <3>3
  <2>3. CASE ~(i = ip /\ paid)
    <3>1. answers'[i].allowed = answers[i].allowed
        BY <1>10, <2>3 DEF IInv, TypeOK
    <3>2. Level(i)' = Level(i)
        BY <1>8, <1>9, <2>3
    <3> QED BY <1>1, <2>1, <3>1, <3>2
  <2> QED BY <2>2, <2>3
<1>12. IInv'
    BY <1>6, <1>7, <1>11 DEF IInv
<1> QED BY <1>3, <1>8, <1>9, <1>10, <1>12

\* A tick fills every bucket that is not full by one unit.
LEMMA TickStep ==
    ASSUME IInv, Tick
    PROVE  /\ IInv'
           /\ \A i \in IPs : Level(i)' = IF Level(i) < Cap THEN Level(i) + 1 ELSE Cap
<1>1. now' = now + 1 /\ now \in Nat
    BY DEF Tick, IInv, TypeOK
<1>2. UNCHANGED <<limiters, lastSeen, lastCleanup, answers>>
    BY DEF Tick
<1>3. TypeOK'
    BY <1>1, <1>2 DEF IInv, TypeOK, Bucket
<1>4. \A i \in IPs : Level(i)' = IF Level(i) < Cap THEN Level(i) + 1 ELSE Cap
  <2> SUFFICES ASSUME NEW i \in IPs
               PROVE  Level(i)' = IF Level(i) < Cap THEN Level(i) + 1 ELSE Cap
      OBVIOUS
  <2>1. CASE i \notin DOMAIN limiters
      BY <1>2, <2>1 DEF Level
  <2>2. CASE i \in DOMAIN limiters
    <3>1. PICK b \in Bucket : b = limiters[i] /\ b.at <= now
        BY <2>2 DEF IInv, TypeOK
    <3>2. Level(i) = Filled(b) /\ Level(i)' = Filled(b)'
        BY <1>2, <2>2, <3>1 DEF Level, Filled
    <3>3. b.level \in Int /\ b.level <= Cap /\ b.at \in Int /\ Cap \in Int
        BY <3>1 DEF Bucket, RateLimiterAssumption
    <3> QED BY <1>1, <3>1, <3>2, <3>3 DEF Filled
  <2> QED BY <2>1, <2>2
<1>5. NeverOverdrawn'
  <2> SUFFICES ASSUME NEW i \in IPs
               PROVE  answers'[i].allowed * Cost + Level(i)' <= Cap + now'
      BY DEF NeverOverdrawn
  <2>1. Level(i) \in 0..Cap
      BY EvictedAreFull
  <2>2. answers[i].allowed * Cost + Level(i) <= Cap + now /\ answers[i].allowed * Cost \in Nat
      BY DEF IInv, TypeOK, NeverOverdrawn
  <2>3. Level(i)' <= Level(i) + 1
      BY <1>4, <2>1
  <2>4. Level(i)' \in 0..Cap
      BY <1>4, <2>1
  <2> QED BY <1>1, <1>2, <2>1, <2>2, <2>3, <2>4
<1> QED BY <1>2, <1>3, <1>4, <1>5 DEF IInv

\* The maps are empty and every bucket is full at the start.
LEMMA InitInv == Init => IInv
<1> SUFFICES ASSUME Init PROVE IInv
    OBVIOUS
<1>1. TypeOK
    BY DEF Init, TypeOK
<1>2. \A ip \in IPs : Level(ip) = Cap /\ answers[ip].allowed = 0
    BY DEF Init, Level
<1>3. NeverOverdrawn
  <2> SUFFICES ASSUME NEW ip \in IPs
               PROVE  answers[ip].allowed * Cost + Level(ip) <= Cap + now
      BY DEF NeverOverdrawn
  <2>1. answers[ip].allowed * Cost = 0
      BY <1>2
  <2> QED BY <1>2, <2>1 DEF Init
<1> QED BY <1>1, <1>3 DEF IInv, Init

\* Every step keeps the invariant of the limiter.
LEMMA NextInv == IInv /\ [Next]_vars => IInv'
<1> SUFFICES ASSUME IInv, [Next]_vars PROVE IInv'
    OBVIOUS
<1>1. CASE Tick
    BY <1>1, TickStep
<1>2. ASSUME NEW ip \in IPs, Allow(ip) PROVE IInv'
    BY <1>2, AllowStep
<1>3. CASE UNCHANGED vars
  <2>1. TypeOK'
      BY <1>3 DEF IInv, TypeOK, vars
  <2>2. NeverOverdrawn'
      BY <1>3 DEF IInv, NeverOverdrawn, Level, Filled, vars
  <2> QED BY <1>3, <2>1, <2>2 DEF IInv, vars
<1> QED BY <1>1, <1>2, <1>3 DEF Next

\* The invariant of the limiter, its types among it (ratelimit.go:54-81).
THEOREM LimiterInvariance == Spec => []IInv
<1> QED BY InitInv, NextInv, PTL DEF Spec

\* No client gets more requests than a full bucket and the time since the start pay for,
\* whoever is evicted when (ratelimit.go:54-81).
THEOREM NobodyIsOverdrawn == Spec => []NeverOverdrawn
<1>1. IInv => NeverOverdrawn
    BY DEF IInv
<1> QED BY <1>1, LimiterInvariance, PTL

\* A client that waits for the price of a request between two calls is never refused
\* (ratelimit.go:54-71).
THEOREM PatienceIsRewarded == Spec => PatienceRewarded
<1>1. IInv /\ [Next]_vars =>
        [\A ip \in IPs : answers'[ip].denied > answers[ip].denied =>
            /\ ip \in DOMAIN lastSeen
            /\ now - lastSeen[ip] < Cost]_vars
  <2> SUFFICES ASSUME IInv, Next, NEW i \in IPs, answers'[i].denied > answers[i].denied
               PROVE  i \in DOMAIN lastSeen /\ now - lastSeen[i] < Cost
      BY DEF vars
  <2>1. ~Tick
      BY DEF Tick, IInv, TypeOK
  <2>2. PICK ip \in IPs : Allow(ip)
      BY <2>1 DEF Next
  <2>3. /\ Level(ip) < Cost
        /\ answers' = [answers EXCEPT ![ip].denied = @ + 1]
    <3>1. CASE answers' = [answers EXCEPT ![ip].allowed = @ + 1]
        BY <3>1 DEF IInv, TypeOK
    <3> QED BY <2>2, <3>1, AllowStep
  <2>4. i = ip
      BY <2>3 DEF IInv, TypeOK
  <2>5. ip \in DOMAIN limiters
      BY <2>3 DEF Level
  <2>6. limiters[ip] \in Bucket /\ limiters[ip].at <= lastSeen[ip] /\ lastSeen[ip] \in 0..now
      BY <2>5 DEF IInv, TypeOK
  <2>7. now - limiters[ip].at < Cost
      BY <2>3, <2>5, <2>6 DEF Level, Filled, Bucket, IInv, TypeOK
  <2> QED BY <2>4, <2>5, <2>6, <2>7 DEF Bucket, IInv, TypeOK
<1> QED BY <1>1, LimiterInvariance, PTL DEF Spec, PatienceRewarded

\* A call leaves nobody in memory who has been idle for twice the idle time
\* (ratelimit.go:59-61, 73-81).
THEOREM IdleIsForgotten == Spec => IdleForgotten
<1>1. IInv /\ [Next]_vars =>
        [answers' # answers => \A ip \in DOMAIN lastSeen' : now - lastSeen'[ip] <= 2 * IdleTTL]_vars
  <2> SUFFICES ASSUME IInv, Next, answers' # answers, NEW i \in DOMAIN lastSeen'
               PROVE  now - lastSeen'[i] <= 2 * IdleTTL
      BY DEF vars
  <2>1. PICK ip \in IPs : Allow(ip)
      BY DEF Next, Tick
  <2>2. IInv'
      BY <2>1, AllowStep
  <2>3. now - lastCleanup' <= IdleTTL
      BY <2>1 DEF Allow, IInv, TypeOK
  <2>4. lastCleanup' - lastSeen'[i] <= IdleTTL
      BY <2>2 DEF IInv, TypeOK
  <2>5. now \in Nat /\ now' = now
      BY <2>1 DEF Allow, IInv, TypeOK
  <2>6. lastCleanup' \in Int /\ lastSeen'[i] \in 0..now'
      BY <2>2 DEF IInv, TypeOK
  <2>7. \A seen, cleaned \in Int :
            now - cleaned <= IdleTTL /\ cleaned - seen <= IdleTTL => now - seen <= 2 * IdleTTL
      BY <2>5
  <2>8. lastSeen'[i] \in Int
      BY <2>5, <2>6
  <2> QED BY <2>3, <2>4, <2>6, <2>7, <2>8
<1> QED BY <1>1, LimiterInvariance, PTL DEF Spec, IdleForgotten

\* Lazy buckets with eviction implement buckets that are filled every tick and never
\* forgotten (ratelimit.go:54-81).
THEOREM LimiterImplementation == Spec => ImplementsBuckets
<1> DEFINE level == [ip \in IPs |-> Level(ip)]
<1>1. Init => Buckets!Init
    BY DEF Init, Buckets!Init, Level
<1>2. IInv /\ [Next]_vars => [Buckets!Next]_Buckets!vars
  <2> SUFFICES ASSUME IInv, [Next]_vars PROVE [Buckets!Next]_Buckets!vars
      OBVIOUS
  <2>1. CASE Tick
    <3>1. \A i \in IPs : Level(i)' = IF Level(i) < Cap THEN Level(i) + 1 ELSE Cap
        BY <2>1, TickStep
    <3>2. answers' = answers
        BY <2>1 DEF Tick
    <3>3. Buckets!Refill
        BY <3>1, <3>2 DEF Buckets!Refill
    <3> QED BY <3>3 DEF Buckets!Next
  <2>2. ASSUME NEW ip \in IPs, Allow(ip) PROVE [Buckets!Next]_Buckets!vars
    <3>1. \A i \in IPs \ {ip} : Level(i)' = Level(i)
        BY <2>2, AllowStep
    <3>2. CASE /\ Level(ip) >= Cost
               /\ Level(ip)' = Level(ip) - Cost
               /\ answers' = [answers EXCEPT ![ip].allowed = @ + 1]
        BY <3>1, <3>2 DEF Buckets!Next, Buckets!Allow
    <3>3. CASE /\ Level(ip) < Cost
               /\ Level(ip)' = Level(ip)
               /\ answers' = [answers EXCEPT ![ip].denied = @ + 1]
        BY <3>1, <3>3 DEF Buckets!Next, Buckets!Deny
    <3> QED BY <2>2, <3>2, <3>3, AllowStep
  <2>3. CASE UNCHANGED vars
      BY <2>3 DEF vars, Buckets!vars, Level, Filled
  <2> QED BY <2>1, <2>2, <2>3 DEF Next
<1> QED BY <1>1, <1>2, LimiterInvariance, PTL DEF Spec, ImplementsBuckets, Buckets!Spec
=============================================================================
