SPECIFICATION MCSpec
CONSTANTS
    None = None
    Root = Root
    People = {p1}
    Clubs = {c1, c2}
    Events = {e1}
    Tasks = {t1, t2}
    Choosers = {Root}
    MaxRequests = 3
    PageRequests = 2
SYMMETRY Symmetry
CHECK_DEADLOCK FALSE
 
PROPERTIES
    EventsStayWithTheirClub
    CoordinatorsKept
    AnsweredIsCarriedOut
