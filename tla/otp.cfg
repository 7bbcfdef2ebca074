SPECIFICATION Spec
CONSTANTS
    None = None
    Emails = {e1}
    Codes = {x, y}
    Calls = {k1, k2}
    MaxOtps = 3
SYMMETRY Symmetry
CHECK_DEADLOCK FALSE
INVARIANTS
    AcceptedOncePerCall
    FewCodes
