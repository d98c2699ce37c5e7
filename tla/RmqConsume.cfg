SPECIFICATION AllSpec
CONSTANTS
    Parts = {"rmq"}
    Calls = {c1, c2}
    Cancels = {k1}
    WithChannel = {c1, c2}
    Workers = {w1}
    Capacity = 1
    Batches = 2
    Closer = cl
    None = None
    Listeners = {r1, r2}
    QueueCancels = {q1, q2}
    Buffer = 1
INVARIANT CancelChanIsHeard
PROPERTY ConsumersStop
CHECK_DEADLOCK FALSE
