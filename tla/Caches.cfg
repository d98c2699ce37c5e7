SPECIFICATION AllSpec
CONSTANTS
    Callers = {c1, c2}
    Nobody = Nobody
    Exchanges = {"x"}
    Queues = {"q"}
    RoutingKeys = {"k"}
    Pushes = {"p1", "p2"}
    Topics = {"t"}
    TopicOf <- OneTopic
    Protocol <- Configured
    Calls <- AllCalls
    MaxAttempts = 2
    Names = {"n1", "n2"}
    MaxMade = 3
INVARIANTS OneOfEach CachedExists BodyIsWhole
PROPERTIES NothingStoredAfterClose PushEnds
CHECK_DEADLOCK FALSE
