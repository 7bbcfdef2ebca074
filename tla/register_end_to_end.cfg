SPECIFICATION Spec
CONSTANTS
    None = None
    Emails = {e1, e2}
    Cohorts = {c1}
    Prefixes = {p1}
    Admissions = {}
    Jobs = {j1}
    Limit = 2
    Legacy <- NoLegacy
    MaxRequests = 2
    Codes = {x}
    Calls = {k1, k2}
    MaxOtps = 2
SYMMETRY Symmetry
CHECK_DEADLOCK FALSE
INVARIANT EveryMemberVerified
