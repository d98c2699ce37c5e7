SPECIFICATION Spec
CONSTANTS
    p1 = p1
    p2 = p2
    Procs = {p1, p2}
    Callers = {t1}
    ProcOf <- OneProcess
    Queues = {q1}
    Msgs = {1, 2}
    Delays = {0, 1}
    Limit = 1
    MaxTime = 1
    MaxExecs = 1
    Fleets <- MixedFleets
    Nobody = Nobody
INVARIANT NoDuplicate
PROPERTIES EarliestFirst ReadyDaemonExits DelayedIsDelivered
CHECK_DEADLOCK FALSE
