SPECIFICATION FormSpec
CONSTANTS
    None = None
    Emails = {e1, e2}
    Cohorts = {c1}
    Prefixes = {}
    Admissions = {a1}
    Jobs = {j1}
    Limit = 2
    Legacy <- NoLegacy
    MaxRequests = 2
    Codes = {x}
    Calls = {k1}
    MaxOtps = 2
    MaxOthers = 1
    OtherAdmissions = {a1}
SYMMETRY Symmetry
VIEW Seen
CHECK_DEADLOCK FALSE
INVARIANTS
    VerifiedOwnsToken
    FailureToldTruly
    WelcomedAreOnRecord
