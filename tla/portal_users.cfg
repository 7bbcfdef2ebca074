SPECIFICATION MCSpec
CONSTANTS
    None = None
    Members = {m1}
    Jobs = {j1, j2}
    Asks <- MCAsks
    MaxAccounts = 2
    MaxRequests = 4
    PageRequests = 3
    PageAccounts = 1
SYMMETRY Symmetry
CHECK_DEADLOCK FALSE
INVARIANTS
    NewestLinkCounts
    NobodyWaitsInVain
    RevokedActOnlyLate
PROPERTIES
    LinksPromise
    PermissionsReplacedKnowingly
    EditsUndoOnlyWhatTheListMissed
