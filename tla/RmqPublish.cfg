SPECIFICATION Spec
CONSTANTS
    p1 = p1
    p2 = p2
    c1 = c1
    q1 = q1
    q2 = q2
    NoQueue = NoQueue
    Nobody = Nobody
    Pushers = {p1, p2}
    Consumers = {c1}
    Queues = {q1, q2}
    Target <- Targets
    Bound <- BoundQueues
    Delayed = {p2}
    Confirming = {p1, p2}
    ConfirmSlots = {s1, s3}
    PlainSlots = {s2}
    MaxIdle = 1
    AttemptTimes = 2
SYMMETRY Symmetry
INVARIANTS NothingHeld NobodyWaits NobodyIsStuck
PROPERTY ConfirmedIsStored
CHECK_DEADLOCK FALSE
