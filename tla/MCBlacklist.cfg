\* Two checks of hosts with common parents, and two edits.
CONSTANTS
    sub = sub
    site = site
    other = other
    com = com
    Domains = {sub, site, other, com}
    Hosts = {sub, other}
    Walk <- WalkOf
    Checks = {c1, c2}
    MaxEdits = 2
SPECIFICATION BLSpec
SYMMETRY CheckSymmetry
INVARIANTS
    VerdictsAreRight
\* When every check has ended and every edit is made nothing happens.
CHECK_DEADLOCK FALSE
