SPECIFICATION AllSpec
CONSTANTS
    Parts = {"kafka"}
    Consumers = {c1}
    Cancels = {k1}
    Handlers = {c1}
    Last = 2
    Valueless = {}
    Buffer = 1
    None = None
    Queues = {"q1"}
    MaxCalls = 1
    EnsureCalls = {"e1", "e2"}
    EnsureProcesses = {"p1", "p2"}
    EnsurePlaces <- TwoServers
    NoCall = NoCall
    EsCallers = {"a1", "a2"}
    Indices = {"i1", "i2"}
    Docs = {"d1", "d2"}
    NoDoc = "none"
    BatchSize = 1
    EsMaxCalls = 2
INVARIANT CommittedIsHandled
CHECK_DEADLOCK FALSE
