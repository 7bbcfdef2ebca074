SPECIFICATION MCSpec
CONSTANTS
    None = None
    Default = Default
    k1 = k1
    a = a
    r1 = r1
    r2 = r2
    r3 = r3
    Keys = {k1}
    OwnKeys = {o1}
    Texts = {a}
    Older <- MCOlder
    MaxIds = 3
    Jobs = {j1, j2}
    Recipients = {r1, r2, r3}
    Lists <- MCLists
    MaxRows = 3
    Batch = 2
    MaxRequests = 3
    PageRequests = 2
    PageIds = 2
SYMMETRY Symmetry
CHECK_DEADLOCK FALSE
INVARIANTS
    ListensWithIndex
    EveryRowMailedOnce
    DraftFitsSelection
PROPERTY EditsGiveWayOnlyToRaces
