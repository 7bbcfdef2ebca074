SPECIFICATION Spec
CONSTANTS
    None = None
    e1 = e1
    c1 = c1
    Emails = {e1, e2}
    Cohorts = {c1}
    Prefixes = {p1}
    Admissions = {}
    Jobs = {j1, j2}
    Limit = 2
    Legacy <- MCLegacy
    MaxRequests = 4
SYMMETRY Symmetry
CHECK_DEADLOCK FALSE
INVARIANTS
    NumbersUnique
    NoSpuriousDuplicate
    StaffSeriesCapped
    EmailFreeUnlessForestalled
PROPERTY NumbersPromise
