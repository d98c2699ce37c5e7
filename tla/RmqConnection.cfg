SPECIFICATION Spec
CONSTANTS
    Callers = {p1}
    Daemon = daemon
    Closer = closer
    Conns = {c1, c2, c3}
    NoConn = NoConn
    NoThread = NoThread
    AttemptTimes = 2
INVARIANTS ReadyIsWatched ClosedForGood
PROPERTIES DaemonExits RequestsEnd
