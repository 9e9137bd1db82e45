--------------------------- MODULE MCLinkReports ---------------------------
(* An instance of LinkReports for TLC. *)
EXTENDS LinkReports, TLC

CONSTANTS l1, l2, v1, v2, v3

\* The last visit is to the link without a campaign.
LinkOfVisit == [v \in Visits |-> IF v = v3 THEN l2 ELSE l1]

Ask(op, plan, link) == [op |-> op, plan |-> plan, link |-> link, owns |-> TRUE]

\* Every kind of report, on every plan that makes a difference.
AllReports ==
    {Ask("analytics", "FREE", l1), Ask("analytics", "PRO", l1), Ask("analytics", "BUSINESS", l2),
     Ask("export", "FREE", l1), Ask("export", "PRO", l1), Ask("qr", "FREE", l1),
     [Ask("analytics", "PRO", l1) EXCEPT !.owns = FALSE]}

\* Visits to one link are alike.
VisitSymmetry == Permutations({v1, v2})
=============================================================================
