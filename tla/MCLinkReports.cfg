\* One report over three clicks on two links, three days, one row in an export.
CONSTANTS
    l1 = l1
    l2 = l2
    v1 = v1
    v2 = v2
    v3 = v3
    Links = {l1, l2}
    Visits = {v1, v2, v3}
    LinkOf <- LinkOfVisit
    Tagged = {l1}
    Reports = {r1}
    Inputs <- AllReports
    FreeDays = 0
    PaidDays = 1
    ExportLimit = 1
    LastDay = 2
SPECIFICATION LRSpec
SYMMETRY VisitSymmetry
INVARIANTS
    ReportsAddUp
\* Every click has been settled and every report has ended.
CHECK_DEADLOCK FALSE
