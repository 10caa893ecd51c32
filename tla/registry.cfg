SPECIFICATION CallSpec
CONSTANTS
    s1 = s1
    a1 = a1
    c1 = c1
    c2 = c2
    PlainServices = {s1}
    Actions = {a1}
    Callers = {c1, c2}
    CallersOf <- MCCallersOf
    MaxCalls = 3
    OtherType <- MCOtherType
    NoEntry = NoEntry
    d1 = d1
    d2 = d2
    Senders = {d1, d2}
    MaxRequests = 3
    Words = {"rt", "rq", "rr", "/", "_", "Request", "Reply", "send_goal", "get_result", "feedback", "status", "text"}
    MaxWords = 4
INVARIANTS
    TypeOK
    EndpointIsComplete
    EndpointsAreOwned
    ServedActionIsWhole
    DiscoveredIsNotified
    CallTypeOK
    RequestIdsDiffer
    RequestIsAnswerable
    AnnouncedIsRecognised
    RecognisedIsAddressable
PROPERTIES
    AnnouncedKeepsEndpoint
CONSTRAINTS
    MCOneAtATime
SYMMETRY MCSymmetry
CHECK_DEADLOCK FALSE
