SPECIFICATION ClubsSpec
CONSTANTS
    None = None
    Root = Root
    People = {l, m, n}
    Clubs = {c1}
    Jobs = {j1, j2}
    MaxRequests = 2
SYMMETRY Symmetry
CHECK_DEADLOCK FALSE
INVARIANTS
    ClicksAddUp
    GrantedBelong
PROPERTY LeadsGrantWhatTheyHold
