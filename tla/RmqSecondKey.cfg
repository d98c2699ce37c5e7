SPECIFICATION AllSpec
CONSTANTS
    Parts = {"bodies"}
    Consumers = {c1}
    Cancels = {k1}
    Handlers = {}
    Last = 2
    Valueless = {}
    Buffer = 1
    None = None
    Queues = {"q1", "q2"}
    MaxCalls = 5
    EnsureCalls = {"e1", "e2"}
    EnsureProcesses = {"p1", "p2"}
    EnsurePlaces <- TwoServers
    NoCall = NoCall
    EsCallers = {"a1", "a2"}
    Indices = {"i1", "i2"}
    Docs = {"d1", "d2"}
    NoDoc = "none"
    BatchSize = 1
    EsMaxCalls = 2
PROPERTY BindingsAreMade
CHECK_DEADLOCK FALSE
