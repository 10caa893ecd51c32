SPECIFICATION Spec
CONSTANTS
    g1 = g1
    g2 = g2
    a1 = a1
    r1 = r1
    r2 = r2
    c1 = c1
    c2 = c2
    UUIDs = {g1, g2}
    Actions = {a1}
    Results = {r1, r2}
    NoResult = NoResult
    NoEntry = NoEntry
    Askers = {c1, c2}
    ActionOf <- MCOneAction
    ClientRequests <- MCRequests
    GivenResults <- MCGivenResults
PROPERTIES
    EarlierRequestsAreAnswered
CHECK_DEADLOCK FALSE
