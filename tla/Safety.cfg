SPECIFICATION AllSpec
CONSTANTS
    Parts = {"kafka", "bodies", "stream", "joda", "ensure", "es", "search"}
    Consumers = {c1, c2}
    Cancels = {k1}
    Handlers = {c2}
    Last = 2
    Valueless = {2}
    Buffer = 1
    None = None
    Queues = {"q1", "q2"}
    MaxCalls = 4
    EnsureCalls = {"e1", "e2"}
    EnsureProcesses = {"p1", "p2"}
    EnsurePlaces <- TwoServers
    NoCall = NoCall
    EsCallers = {"a1", "a2"}
    Indices = {"i1", "i2"}
    Docs = {"d1", "d2"}
    NoDoc = "none"
    BatchSize = 1
    EsMaxCalls = 2
INVARIANTS
    CanBeCancelled CommittedIsGiven PipelineEnds FormattedIsParsed Ensured EsAnswers SearchIsAsked
PROPERTY BodiesArrive
CHECK_DEADLOCK FALSE
