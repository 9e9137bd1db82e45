---------------------------- MODULE LinkReports ----------------------------
(***************************************************************************)
(* GET /v1/links/analytics, /v1/analytics/export and /v1/links/qr: what    *)
(* users are told about a link while its clicks are being written.         *)
(*                                                                         *)
(* A report is several SELECTs outside any transaction, each with the      *)
(* snapshot of its own start; the click worker writes between them.  Some  *)
(* of their errors fail the report, others are ignored.  The worker's side *)
(* is the abstract log ClickLog, which ClickPipeline implements; a click   *)
(* is dated when its INSERT begins and visible when it ends.  Time is      *)
(* counted in days.                                                        *)
(***************************************************************************)
EXTENDS Integers, Sequences, FiniteSets

CONSTANTS
    Visits,
    Links,
    LinkOf,       \* the link of each visit
    Tagged,       \* links with a campaign row
    Reports,      \* requests for a report
    Inputs,       \* what a request may be
    FreeDays,     \* retention of the FREE plan (7 in the code)
    PaidDays,     \* and of the others (90)
    ExportLimit,  \* rows of an export (10000 in the code)
    LastDay       \* bound of the clock

Plans == {"FREE", "PRO", "BUSINESS"}
PaidPlans == {"PRO", "BUSINESS"}

\* owns: the user is the link's owner, which never changes.
Input == [op : {"analytics", "export", "qr"}, plan : Plans, link : Links, owns : BOOLEAN]

ASSUME LinkReportsAssumption ==
    /\ LinkOf \in [Visits -> Links]
    /\ Tagged \subseteq Links
    /\ Inputs \subseteq Input
    /\ FreeDays \in Nat /\ PaidDays \in Nat
    /\ ExportLimit \in Nat \ {0}
    /\ LastDay \in Nat

VARIABLES
    accepted, pending, late, log,   \* the click log
    today,
    begun,      \* visits whose INSERT has begun, in the order of click_events.clicked_at
    clickedOn,  \* the day of click_events.clicked_at of those visits
    input, pc,  \* of each report
    cutoff,     \* the first day that it shows
    total,      \* total_clicks
    days,       \* daily_clicks
    campaigns,  \* the sum of campaign_breakdown
    exported,   \* the visits in the CSV file
    began,      \* history: the length of the log when the report began
    broken      \* history: the report went on after an error

clickVars  == <<accepted, pending, late, log, begun, clickedOn>>
reportVars == <<input, pc, cutoff, total, days, campaigns, exported, began, broken>>
LRvars == <<clickVars, today, reportVars>>

Log == INSTANCE ClickLog

Days    == 0..LastDay
Stages  == {"requested", "found", "totalled", "grouped"}
Answers == {"answered", "notfound", "forbidden", "failed"}

LRTypeOK ==
    /\ today \in Days
    /\ begun \in Seq(Visits)
    /\ clickedOn \in [Visits -> Days]
    /\ input \in [Reports -> Inputs]
    /\ pc \in [Reports -> {"idle"} \cup Stages \cup Answers]
    /\ cutoff \in [Reports -> Int]
    /\ total \in [Reports -> Nat]
    /\ days \in [Reports -> [Days -> Nat]]
    /\ campaigns \in [Reports -> Nat]
    /\ exported \in [Reports -> SUBSET Visits]
    /\ began \in [Reports -> Nat]
    /\ broken \in [Reports -> BOOLEAN]

LRInit ==
    /\ Log!Init
    /\ today = 0
    /\ begun = <<>>
    /\ clickedOn = [v \in Visits |-> 0]
    /\ input \in [Reports -> Inputs]
    /\ pc = [r \in Reports |-> "idle"]
    /\ cutoff = [r \in Reports |-> 0]
    /\ total = [r \in Reports |-> 0]
    /\ days = [r \in Reports |-> [d \in Days |-> 0]]
    /\ campaigns = [r \in Reports |-> 0]
    /\ exported = [r \in Reports |-> {}]
    /\ began = [r \in Reports |-> 0]
    /\ broken = [r \in Reports |-> FALSE]

-----------------------------------------------------------------------------
(* Clicks and time *)

Accept(v) == Log!Accept(v) /\ UNCHANGED <<begun, clickedOn, today, reportVars>>

Begun(v) == \E k \in DOMAIN begun : begun[k] = v

\* The INSERT of the oldest pending click begins in the database, or that of a click its
\* caller has given up on: NOW() is the time of this moment.
BeginInsert(v) ==
    /\ v \in late \/ (pending # <<>> /\ v = Head(pending))
    /\ ~Begun(v)
    /\ begun' = Append(begun, v)
    /\ clickedOn' = [clickedOn EXCEPT ![v] = today]
    /\ UNCHANGED <<accepted, pending, late, log, today, reportVars>>

\* A click is written only by an INSERT that has begun, or it is lost or given up on.
Settle ==
    /\ Log!Settle
    /\ log' # log => Begun(Head(pending))
    /\ UNCHANGED <<begun, clickedOn, today, reportVars>>

\* An INSERT that its caller has given up on takes effect.
Land(v) ==
    /\ Log!Land(v) /\ Begun(v)
    /\ UNCHANGED <<begun, clickedOn, today, reportVars>>

NextDay ==
    /\ today < LastDay
    /\ today' = today + 1
    /\ UNCHANGED <<clickVars, reportVars>>

-----------------------------------------------------------------------------
(* The reports *)

Goto(r, stage) == pc' = [pc EXCEPT ![r] = stage]

\* An error that the report goes on after.
Ignore(r) == broken' = [broken EXCEPT ![r] = TRUE]

\* Places in the log of the clicks on the report's link, among the first n.
RowsOf(r, n) == {i \in 1..n : LinkOf[log[i]] = input[r].link}

Retention(r) == IF input[r].plan \in PaidPlans THEN PaidDays ELSE FreeDays

\* Mutant: every statement takes the retention from the present day.
RowsNow(r, from) == {i \in RowsOf(r, Len(log)) : clickedOn[log[i]] >= today - Retention(r)}

\* WHERE link_id = $1 AND clicked_at >= $2
RowsSince(r, from) == {i \in RowsOf(r, Len(log)) : clickedOn[log[i]] >= from}

\* The handler; an export asks for the plan before it looks at the link.
Open(r) ==
    /\ pc[r] = "idle"
    /\ began' = [began EXCEPT ![r] = Len(log)]
    /\ Goto(r, IF input[r].op = "export" /\ input[r].plan \notin PaidPlans
               THEN "forbidden" ELSE "requested")
    /\ UNCHANGED <<clickVars, today, input, cutoff, total, days, campaigns, exported, broken>>

\* The comparison of the owner.  A QR code needs nothing more.
Owned(r) ==
    CASE ~input[r].owns     -> "forbidden"
      [] input[r].op = "qr" -> "answered"
      [] OTHER              -> "found"

\* GetLinkByID.
FindLink(r) ==
    /\ pc[r] = "requested"
    /\ \/ Goto(r, Owned(r))
       \/ Goto(r, "notfound") \/ Goto(r, "failed")
    /\ UNCHANGED <<clickVars, today, input, cutoff, total, days, campaigns, exported, began, broken>>

\* The cutoff is fixed, then the clicks are counted; a failed count is a count of 0.
CountTotal(r) ==
    /\ pc[r] = "found" /\ input[r].op = "analytics"
    /\ LET from == today - Retention(r) IN
       /\ cutoff' = [cutoff EXCEPT ![r] = from]
       /\ \/ total' = [total EXCEPT ![r] = Cardinality(RowsSince(r, from))] /\ UNCHANGED broken
          \/ Ignore(r) /\ UNCHANGED total
    /\ Goto(r, "totalled")
    /\ UNCHANGED <<clickVars, today, input, days, campaigns, exported, began>>

\* GROUP BY DATE: an error of the query fails the report, one while the rows are read
\* leaves out the later days.
GroupByDay(r) ==
    /\ pc[r] = "totalled"
    /\ \/ /\ \E last \in -1..LastDay :
              /\ days' = [days EXCEPT ![r] = [d \in Days |->
                    Cardinality({i \in RowsSince(r, cutoff[r]) : clickedOn[log[i]] = d /\ d <= last})]]
              /\ IF last < LastDay THEN Ignore(r) ELSE UNCHANGED broken
          /\ Goto(r, "grouped")
       \/ Goto(r, "failed") /\ UNCHANGED <<days, broken>>
    /\ UNCHANGED <<clickVars, today, input, cutoff, total, campaigns, exported, began>>

\* For paid plans the clicks joined with the link's campaign row; an error leaves the
\* breakdown out.
BreakDown(r) ==
    /\ pc[r] = "grouped"
    /\ \/ /\ input[r].plan \in PaidPlans /\ input[r].link \in Tagged
          /\ campaigns' = [campaigns EXCEPT ![r] = Cardinality(RowsSince(r, cutoff[r]))]
          /\ UNCHANGED broken
       \/ /\ input[r].plan \in PaidPlans /\ Ignore(r)
          /\ UNCHANGED campaigns
       \/ /\ ~(input[r].plan \in PaidPlans /\ input[r].link \in Tagged)
          /\ UNCHANGED <<campaigns, broken>>
    /\ Goto(r, "answered")
    /\ UNCHANGED <<clickVars, today, input, cutoff, total, days, exported, began>>

\* The clicks on the report's link that are written, by their places in begun.
Written(r) ==
    {k \in DOMAIN begun : LinkOf[begun[k]] = input[r].link /\ \E i \in DOMAIN log : log[i] = begun[k]}

\* ORDER BY clicked_at DESC LIMIT $2
Newest(rows) == {k \in rows : Cardinality({l \in rows : l > k}) < ExportLimit}

\* One statement, about clicks of any age; every error of it fails the export.
Export(r) ==
    /\ pc[r] = "found" /\ input[r].op = "export"
    /\ \/ /\ exported' = [exported EXCEPT ![r] = {begun[k] : k \in Newest(Written(r))}]
          /\ Goto(r, "answered")
       \/ Goto(r, "failed") /\ UNCHANGED exported
    /\ UNCHANGED <<clickVars, today, input, cutoff, total, days, campaigns, began, broken>>

ReportStep(r) ==
    Open(r) \/ FindLink(r) \/ CountTotal(r) \/ GroupByDay(r) \/ BreakDown(r) \/ Export(r)

\* The process ends and starts again: clicks that were pending and reports are lost, but
\* for a click whose INSERT was sent.
Restart ==
    /\ Log!Stop
    /\ pc' = [r \in Reports |-> IF pc[r] \in Stages THEN "failed" ELSE pc[r]]
    /\ UNCHANGED <<begun, clickedOn, today, input, cutoff, total, days, campaigns, exported, began, broken>>

LRNext ==
    \/ \E v \in Visits : Accept(v) \/ BeginInsert(v) \/ Land(v)
    \/ Settle \/ NextDay \/ Restart
    \/ \E r \in Reports : ReportStep(r)

LRSpec == LRInit /\ [][LRNext]_LRvars

-----------------------------------------------------------------------------

\* The clicks on the link among the first n of the log that are young enough.
Young(r, n) == {i \in RowsOf(r, n) : clickedOn[log[i]] >= cutoff[r]}

Most(r) == Cardinality(Young(r, Len(log)))

\* The sum of daily_clicks: each day has one pair per click it shows.
DaySum(r) == Cardinality(UNION {{d} \X (1..days[r][d]) : d \in Days})

\* The three parts of a report; broken: it went on after an error.
TotalAddsUp(r) ==
    /\ total[r] <= Most(r)
    /\ ~broken[r] => Cardinality(Young(r, began[r])) <= total[r]
DaysAddUp(r) ==
    /\ DaySum(r) <= Most(r)
    /\ ~broken[r] => total[r] <= DaySum(r)
CampaignsAddUp(r) ==
    /\ campaigns[r] <= Most(r)
    /\ ~broken[r] /\ input[r].plan \in PaidPlans /\ input[r].link \in Tagged =>
         DaySum(r) <= campaigns[r]

\* A report is wrong by no more than the clicks that are written while it runs, and its
\* parts are wrong in one direction: total_clicks has every click that was written
\* before the report began and is young enough, the days have those and perhaps more,
\* the campaigns perhaps more still, and none has more than are written.  Only an error
\* the code ignores (broken) lets one have less (repository.go:126-178).
SummaryAddsUp(r) == TotalAddsUp(r) /\ DaysAddUp(r) /\ CampaignsAddUp(r)

\* One click is dated before the other.
Older(u, v) == \E k, l \in DOMAIN begun : k < l /\ begun[k] = u /\ begun[l] = v

\* A CSV file has written clicks of its link only and, up to its limit, every click that was
\* written before the export began; a click that is left out for the limit is older than all
\* that are in it, also when clicks are not written in the order of their dates
\* (repository.go:224-257).
ExportIsNewest(r) ==
    /\ exported[r] \subseteq {log[i] : i \in RowsOf(r, Len(log))}
    /\ Cardinality(exported[r]) <= ExportLimit
    /\ \A i \in RowsOf(r, began[r]) : log[i] \notin exported[r] =>
        Cardinality(exported[r]) = ExportLimit /\ \A v \in exported[r] : Older(log[i], v)

\* What an owner is told adds up, however the clicks, the days and the statements of a
\* report interleave (service.go:245-254, 302-343).
ReportsAddUp ==
    /\ LRTypeOK
    /\ \A r \in Reports : pc[r] = "answered" =>
        /\ input[r].op = "analytics" => SummaryAddsUp(r)
        /\ input[r].op = "export"    => ExportIsNewest(r)
=============================================================================
