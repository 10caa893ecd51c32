SPECIFICATION FairSpec
CONSTANTS
    discovery = discovery
    pipe = pipe
    application = application
    Threads = {discovery, pipe, application}
    CallsOf <- MCCallsOf
    MaxCalls = 1
    Created = {"topic", "goal", "request"}
PROPERTIES
    EveryCallReturns
CHECK_DEADLOCK FALSE
