------------------------- MODULE MCRedisDelayQueue -------------------------
\* Instances of RedisDelayQueue for TLC.
EXTENDS RedisDelayQueue

CONSTANTS p1, p2

\* The goroutines that push are all of one process; the other one only has its
\* daemon.
OneProcess == [t \in Callers |-> p1]

\* The packages that may share a Redis: goredis works with a cluster and with a
\* single server.  Crashes are left to one fleet, and a second message to another.
Fleet(first, second, sharded, crashes, msgs) ==
    [package |-> [p \in Procs |-> IF p = p1 THEN first ELSE second],
     sharded |-> sharded, crashes |-> crashes, msgs |-> msgs]
MixedFleets ==
    {Fleet("goredis", "single", FALSE, TRUE, {1}), Fleet("goredis", "single", FALSE, FALSE, Msgs),
     Fleet("single", "sentinel", FALSE, FALSE, {1}),
     Fleet("sentinel", "goredis", FALSE, FALSE, {1}),
     Fleet("cluster", "goredis", TRUE, FALSE, {1})}
=============================================================================
