SPECIFICATION SpaceFairSpec
CONSTANTS
    Unset = Unset
    Ids = {i1}
    Handlers = {j1, j2}
    MaxArrivals = 5
    MaxCrashes = 1
CHECK_DEADLOCK FALSE
INVARIANTS
    CalmLogAlternates
    CalmStatusFollowsLog
    CalmBannedOutside
    OnlyLateScansEnterBanned
    CooldownKept
PROPERTY RequestsAnswered
