SPECIFICATION FairSpec
CONSTANTS
    discovery = discovery
    pipe = pipe
    application = application
    Threads = {discovery, pipe, application}
    CallsOf <- MCCallsOf
    MaxCalls = 1
    Created = {"topic", "goal", "request"}
INVARIANTS
    TypeOK
    NoLostNotification
PROPERTIES
    CallReturnsUnlessInverted
CHECK_DEADLOCK FALSE
