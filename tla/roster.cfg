SPECIFICATION Spec
CONSTANTS
    None = None
    Shown = y1
    Entries = {1, 2, 3}
    Years = {y1, y2}
    Jobs = {j1, j2}
    MaxRequests = 3
SYMMETRY Symmetry
CHECK_DEADLOCK FALSE
INVARIANTS
    OrdersApart
    ScreenFollowsServer
    PhotosOfTheirOwn
PROPERTY RemovedStayRemoved
