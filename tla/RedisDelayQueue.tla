--------------------------- MODULE RedisDelayQueue ---------------------------
(***************************************************************************)
(* The delay queues of a RedisOperator (src/goredis/queue.go and redis.go, *)
(* and the packages single, cluster and sentinel, whose copies of the code *)
(* differ in the key of the sorted set): pushing a message with a delay,   *)
(* the daemon that moves messages that are due to the ready list with a    *)
(* Lua script, and Close.                                                  *)
(*                                                                         *)
(* Processes share one Redis: the set of known queues, for each queue a    *)
(* sorted set of members with the time they are due, and the ready list.   *)
(* A command may fail, take effect although its reply is lost, and be sent *)
(* again by the client.  A member is a number, which is its place in the   *)
(* lexicographic order Redis uses between equal scores.  A key is a queue  *)
(* and whether it is written as a hash tag.                                *)
(***************************************************************************)
EXTENDS Naturals, Sequences, FiniteSets, Functions

CONSTANTS
    Procs,       \* processes that use an operator
    Callers,     \* goroutines that push
    ProcOf,      \* the process of a caller
    Queues, Msgs,
    Delays,      \* delays a push may ask for
    Limit,       \* messages one script moves (100 in the code)
    MaxTime,     \* bound on the clock
    MaxExecs,    \* bound on how often a message is added
    Fleets,      \* the package of each process, whether the Redis they share
                 \* is a cluster, whether processes may end without notice, and
                 \* the messages that are pushed
    Nobody       \* op.mu is free

NoScore == MaxTime + 1   \* not a member of the sorted set
Packages == {"goredis", "single", "cluster", "sentinel"}
Keys == [tagged : BOOLEAN, queue : Queues]

ASSUME DelayQueueAssumption ==
    /\ ProcOf \in [Callers -> Procs]
    /\ Msgs \subseteq Nat /\ IsFiniteSet(Msgs) /\ Delays \subseteq Nat
    /\ Limit \in Nat \ {0} /\ MaxTime \in Nat /\ MaxExecs \in Nat
    /\ Fleets \subseteq [package : [Procs -> Packages], sharded : BOOLEAN,
                          crashes : BOOLEAN, msgs : SUBSET Msgs]
    /\ Nobody \notin Callers \cup Procs /\ Callers \cap Procs = {}

VARIABLES
    fleet,       \* the member of Fleets that runs
    now,         \* the clock
    known,       \* the set potato_delay_queues
    zset,        \* score of each message in the sorted set of each key
    ready,       \* the ready lists
    execs,       \* how often a message was added to Redis
    popped,      \* how often a message was taken from the ready list
    delayQueues, \* op.delayQueues of each process
    mu,          \* holder of op.mu of each process
    open,        \* op.client is open
    closed,      \* op.closed
    daemon,      \* where the daemon of each process is
    todo,        \* queues the daemon has not moved in this round
    pc, push     \* where each caller is, and what it pushes

redis == <<known, zset, ready, execs, popped>>
locals == <<delayQueues, mu, open, closed, daemon, todo>>
vars == <<fleet, now, redis, locals, pc, push>>

NoPush == [queue |-> Nobody, msg |-> 0, delay |-> 0]
Goto(t, l) == pc' = [pc EXCEPT ![t] = l]
Queue(t) == push[t].queue
Runs(p, package) == fleet.package[p] = package

\* Mutant of DelayTimeoutKey: goredis has the same key for every kind of client.
DelayTimeoutKeyPlain(p, q) == [tagged |-> Runs(p, "cluster"), queue |-> q]

\* delayTimeoutKey: the key of a sorted set has the queue as a hash tag if the
\* client is one of a cluster; the package cluster always writes it so, single
\* and sentinel never do.
DelayTimeoutKey(p, q) ==
    [tagged |-> Runs(p, "cluster") \/ (Runs(p, "goredis") /\ fleet.sharded), queue |-> q]

\* A cluster runs a script only on keys of one slot: the ready list and the
\* sorted set of its hash tag.
OneSlot(k) == fleet.sharded => k.tagged

Init ==
    /\ fleet \in Fleets
    /\ now = 0 /\ known = {}
    /\ zset = [k \in Keys |-> [m \in Msgs |-> NoScore]]
    /\ ready = [q \in Queues |-> <<>>]
    /\ execs = [q \in Queues |-> [m \in Msgs |-> 0]]
    /\ popped = [q \in Queues |-> [m \in Msgs |-> 0]]
    /\ delayQueues = [p \in Procs |-> {}]
    /\ mu = [p \in Procs |-> Nobody]
    /\ open = [p \in Procs |-> TRUE]
    /\ closed = [p \in Procs |-> FALSE]
    /\ daemon = [p \in Procs |-> "down"]
    /\ todo = [p \in Procs |-> {}]
    /\ pc = [t \in Callers |-> "idle"]
    /\ push = [t \in Callers |-> NoPush]

----------------------------------------------------------------------------
\* PushDelayMessage: the queue is looked up without the lock.
Push(t, q, m, d) ==
    /\ pc[t] = "idle" /\ daemon[ProcOf[t]] # "down"
    /\ execs[q][m] < MaxExecs /\ now + d <= MaxTime
    /\ push' = [push EXCEPT ![t] = [queue |-> q, msg |-> m, delay |-> d]]
    /\ Goto(t, IF q \in delayQueues[ProcOf[t]] THEN "zadd" ELSE "lock")
    /\ UNCHANGED <<fleet, now, redis, locals>>

\* Under op.mu the queue is looked up again and stored ...
PushLock(t) ==
    LET p == ProcOf[t] IN
    /\ pc[t] = "lock" /\ mu[p] = Nobody
    /\ IF Queue(t) \in delayQueues[p]
       THEN Goto(t, "zadd") /\ UNCHANGED <<delayQueues, mu>>
       ELSE /\ delayQueues' = [delayQueues EXCEPT ![p] = @ \cup {Queue(t)}]
            /\ mu' = [mu EXCEPT ![p] = t]
            /\ Goto(t, "sadd")
    /\ UNCHANGED <<fleet, now, redis, open, closed, daemon, todo, push>>

\* ... and only then made known to the other processes.
SAddOk(t) ==
    /\ pc[t] = "sadd" /\ open[ProcOf[t]]
    /\ known' = known \cup {Queue(t)}
    /\ mu' = [mu EXCEPT ![ProcOf[t]] = Nobody]
    /\ Goto(t, "zadd")
    /\ UNCHANGED <<fleet, now, zset, ready, execs, popped, delayQueues, open, closed, daemon, todo, push>>

SAddFails(t) ==
    /\ pc[t] = "sadd"
    /\ known' = known \/ (open[ProcOf[t]] /\ known' = known \cup {Queue(t)})
    /\ mu' = [mu EXCEPT ![ProcOf[t]] = Nobody]
    /\ push' = [push EXCEPT ![t] = NoPush]
    /\ Goto(t, "idle")
    /\ UNCHANGED <<fleet, now, zset, ready, execs, popped, delayQueues, open, closed, daemon, todo>>

\* ZADD: a message that is in the sorted set already gets the new score.
ZAdd(t) ==
    LET key == DelayTimeoutKey(ProcOf[t], Queue(t)) IN
    /\ zset' = [zset EXCEPT ![key][push[t].msg] = now + push[t].delay]
    /\ execs' = [execs EXCEPT ![Queue(t)][push[t].msg] = @ + 1]

ZAddOk(t) ==
    /\ pc[t] = "zadd" /\ open[ProcOf[t]]
    /\ execs[Queue(t)][push[t].msg] < MaxExecs /\ now + push[t].delay <= MaxTime
    /\ ZAdd(t)
    /\ push' = [push EXCEPT ![t] = NoPush]
    /\ Goto(t, "idle")
    /\ UNCHANGED <<fleet, now, known, ready, popped, locals>>

\* The reply is lost and the client sends the command again.
ZAddLost(t) ==
    /\ pc[t] = "zadd" /\ open[ProcOf[t]]
    /\ execs[Queue(t)][push[t].msg] < MaxExecs /\ now + push[t].delay <= MaxTime
    /\ ZAdd(t)
    /\ UNCHANGED <<fleet, now, known, ready, popped, locals, pc, push>>

ZAddFails(t) ==
    /\ pc[t] = "zadd"
    /\ push' = [push EXCEPT ![t] = NoPush]
    /\ Goto(t, "idle")
    /\ UNCHANGED <<fleet, now, redis, locals>>

\* PushMessage: RPUSH without a delay.
PushMessage(t, q, m) ==
    /\ pc[t] = "idle" /\ open[ProcOf[t]] /\ daemon[ProcOf[t]] # "down"
    /\ execs[q][m] < MaxExecs
    /\ ready' = [ready EXCEPT ![q] = Append(@, m)]
    /\ execs' = [execs EXCEPT ![q][m] = @ + 1]
    /\ UNCHANGED <<fleet, now, known, zset, popped, locals, pc, push>>

\* GetMessage: LPOP.
GetMessage(q) ==
    /\ ready[q] # <<>>
    /\ popped' = [popped EXCEPT ![q][Head(ready[q])] = @ + 1]
    /\ ready' = [ready EXCEPT ![q] = Tail(@)]
    /\ UNCHANGED <<fleet, now, known, zset, execs, locals, pc, push>>

----------------------------------------------------------------------------
\* tryMigrationDaemon, first phase: SMEMBERS is tried until it succeeds.
\* op.closed is not looked at.
DaemonInit(p) ==
    /\ daemon[p] = "init" /\ open[p]
    /\ delayQueues' = [delayQueues EXCEPT ![p] = @ \cup known]
    /\ daemon' = [daemon EXCEPT ![p] = "poll"]
    /\ UNCHANGED <<fleet, now, redis, mu, open, closed, todo, pc, push>>

\* Mutant of Poll: the second phase does not look at op.closed.
PollForEver(p) ==
    /\ daemon[p] = "poll"
    /\ daemon' = [daemon EXCEPT ![p] = "round"]
    /\ todo' = [todo EXCEPT ![p] = delayQueues[p]]
    /\ UNCHANGED <<fleet, now, redis, delayQueues, mu, open, closed, pc, push>>

\* Second phase: the poll ticker fires.
Poll(p) ==
    /\ daemon[p] = "poll"
    /\ IF closed[p]
       THEN daemon' = [daemon EXCEPT ![p] = "exit"] /\ UNCHANGED todo
       ELSE /\ daemon' = [daemon EXCEPT ![p] = "round"]
            /\ todo' = [todo EXCEPT ![p] = delayQueues[p]]
    /\ UNCHANGED <<fleet, now, redis, delayQueues, mu, open, closed, pc, push>>

\* The members of a sorted set that are due, and the order it keeps them in.
Due(k) == {m \in Msgs : zset[k][m] <= now}
Before(k, m, n) == zset[k][m] < zset[k][n] \/ (zset[k][m] = zset[k][n] /\ m < n)

\* Mutant of Expired: the members are taken in the order of their names.
ExpiredByName(k) == {m \in Due(k) : Cardinality({n \in Due(k) : n < m}) < Limit}

\* The first Limit members of a sorted set that are due, by score and member.
Expired(k) == {m \in Due(k) : Cardinality({n \in Due(k) : Before(k, n, m)}) < Limit}

\* The script appends them to the ready list in their order.
AppendExpired(q, k) ==
    \E moved \in [1..Cardinality(Expired(k)) -> Expired(k)] :
        /\ \A i, j \in DOMAIN moved : i < j => Before(k, moved[i], moved[j])
        /\ ready' = [ready EXCEPT ![q] = @ \o moved]

\* Mutant of MigrateSingleQueue: ZREM is missing.
MigrateWithoutRemove(p, q) ==
    /\ daemon[p] = "round" /\ q \in todo[p] /\ open[p] /\ Len(ready[q]) < MaxExecs
    /\ OneSlot(DelayTimeoutKey(p, q))
    /\ AppendExpired(q, DelayTimeoutKey(p, q))
    /\ todo' = [todo EXCEPT ![p] = @ \ {q}]
    /\ UNCHANGED <<fleet, now, known, zset, execs, popped, delayQueues, mu, open, closed, daemon, pc, push>>

\* migrateExpiredBody: the script moves them in one step.  If its reply is
\* lost the client may send it again.
MigrateSingleQueue(p, q) ==
    LET key == DelayTimeoutKey(p, q) IN
    /\ daemon[p] = "round" /\ q \in todo[p] /\ open[p] /\ OneSlot(key)
    /\ zset' = [zset EXCEPT ![key] = [m \in Msgs |->
                    IF m \in Expired(key) THEN NoScore ELSE @[m]]]
    /\ AppendExpired(q, key)
    /\ \/ todo' = [todo EXCEPT ![p] = @ \ {q}]
       \/ UNCHANGED todo
    /\ UNCHANGED <<fleet, now, known, execs, popped, delayQueues, mu, open, closed, daemon, pc, push>>

\* The script fails; that is only logged.
MigrateFails(p, q) ==
    /\ daemon[p] = "round" /\ q \in todo[p]
    /\ todo' = [todo EXCEPT ![p] = @ \ {q}]
    /\ UNCHANGED <<fleet, now, redis, delayQueues, mu, open, closed, daemon, pc, push>>

RoundEnd(p) ==
    /\ daemon[p] = "round" /\ todo[p] = {}
    /\ daemon' = [daemon EXCEPT ![p] = "poll"]
    /\ UNCHANGED <<fleet, now, redis, delayQueues, mu, open, closed, todo, pc, push>>

----------------------------------------------------------------------------
\* Close: under op.mu the client is closed, then the flag is set.
CloseLock(p) ==
    /\ ~closed[p] /\ daemon[p] # "down" /\ mu[p] = Nobody
    /\ mu' = [mu EXCEPT ![p] = p]
    /\ UNCHANGED <<fleet, now, redis, delayQueues, open, closed, daemon, todo, pc, push>>

CloseClient(p) ==
    /\ mu[p] = p /\ open[p]
    /\ open' = [open EXCEPT ![p] = FALSE]
    /\ UNCHANGED <<fleet, now, redis, delayQueues, mu, closed, daemon, todo, pc, push>>

CloseMark(p) ==
    /\ mu[p] = p /\ ~open[p]
    /\ closed' = [closed EXCEPT ![p] = TRUE]
    /\ mu' = [mu EXCEPT ![p] = Nobody]
    /\ UNCHANGED <<fleet, now, redis, delayQueues, open, daemon, todo, pc, push>>

\* The process ends; its operator and its goroutines are gone.
Crash(p) ==
    /\ fleet.crashes /\ daemon[p] # "down"
    /\ delayQueues' = [delayQueues EXCEPT ![p] = {}]
    /\ mu' = [mu EXCEPT ![p] = Nobody]
    /\ open' = [open EXCEPT ![p] = TRUE]
    /\ closed' = [closed EXCEPT ![p] = FALSE]
    /\ daemon' = [daemon EXCEPT ![p] = "down"]
    /\ todo' = [todo EXCEPT ![p] = {}]
    /\ pc' = [t \in Callers |-> IF ProcOf[t] = p THEN "idle" ELSE pc[t]]
    /\ push' = [t \in Callers |-> IF ProcOf[t] = p THEN NoPush ELSE push[t]]
    /\ UNCHANGED <<fleet, now, redis>>

\* NewRedisOperator in a new process, once Redis answers.
NewRedisOperator(p) ==
    /\ daemon[p] = "down"
    /\ daemon' = [daemon EXCEPT ![p] = "init"]
    /\ UNCHANGED <<fleet, now, redis, delayQueues, mu, open, closed, todo, pc, push>>

Tick ==
    /\ now < MaxTime
    /\ now' = now + 1
    /\ UNCHANGED <<fleet, redis, locals, pc, push>>

----------------------------------------------------------------------------
TryMigrationDaemon(p) == DaemonInit(p) \/ Poll(p) \/ RoundEnd(p)

MigrateQueues(p) == \E q \in Queues : MigrateSingleQueue(p, q) \/ MigrateFails(p, q)

Daemon(p) == TryMigrationDaemon(p) \/ MigrateQueues(p)

PushDelayMessage(t) ==
    \/ \E q \in Queues, m \in fleet.msgs, d \in Delays : Push(t, q, m, d)
    \/ PushLock(t) \/ SAddOk(t) \/ SAddFails(t) \/ ZAddOk(t) \/ ZAddLost(t) \/ ZAddFails(t)

Close(p) == CloseLock(p) \/ CloseClient(p) \/ CloseMark(p)

\* The packages, each with its copy of the code.
GoredisDaemon(p) == Runs(p, "goredis") /\ Daemon(p)
GoredisPush(t) == Runs(ProcOf[t], "goredis") /\ PushDelayMessage(t)
GoredisEnds(p) == Runs(p, "goredis") /\ (Close(p) \/ NewRedisOperator(p))

SingleDaemon(p) == Runs(p, "single") /\ TryMigrationDaemon(p)
SingleMigrate(p) == Runs(p, "single") /\ MigrateQueues(p)
SinglePush(t) == Runs(ProcOf[t], "single") /\ PushDelayMessage(t)
SingleNew(p) == Runs(p, "single") /\ NewRedisOperator(p)
SingleClose(p) == Runs(p, "single") /\ Close(p)

ClusterDaemon(p) == Runs(p, "cluster") /\ TryMigrationDaemon(p)
ClusterMigrate(p) == Runs(p, "cluster") /\ MigrateQueues(p)
ClusterPush(t) == Runs(ProcOf[t], "cluster") /\ PushDelayMessage(t)
ClusterNew(p) == Runs(p, "cluster") /\ NewRedisOperator(p)
ClusterClose(p) == Runs(p, "cluster") /\ Close(p)

SentinelDaemon(p) == Runs(p, "sentinel") /\ TryMigrationDaemon(p)
SentinelMigrate(p) == Runs(p, "sentinel") /\ MigrateQueues(p)
SentinelPush(t) == Runs(ProcOf[t], "sentinel") /\ PushDelayMessage(t)
SentinelNew(p) == Runs(p, "sentinel") /\ NewRedisOperator(p)
SentinelClose(p) == Runs(p, "sentinel") /\ Close(p)

Next ==
    \/ \E t \in Callers :
        \/ GoredisPush(t) \/ SinglePush(t) \/ ClusterPush(t) \/ SentinelPush(t)
        \/ \E q \in Queues, m \in fleet.msgs : PushMessage(t, q, m)
    \/ \E p \in Procs :
        \/ GoredisDaemon(p) \/ GoredisEnds(p)
        \/ SingleDaemon(p) \/ SingleMigrate(p) \/ SingleNew(p) \/ SingleClose(p)
        \/ ClusterDaemon(p) \/ ClusterMigrate(p) \/ ClusterNew(p) \/ ClusterClose(p)
        \/ SentinelDaemon(p) \/ SentinelMigrate(p) \/ SentinelNew(p) \/ SentinelClose(p)
        \/ Crash(p)
    \/ \E q \in Queues : GetMessage(q)
    \/ Tick

\* Daemons run, tickers fire; a script that is sent every second succeeds some
\* day; a process that ended is started again.
Fairness ==
    /\ WF_vars(Tick)
    /\ \A p \in Procs :
        /\ WF_vars(NewRedisOperator(p) \/ Daemon(p))
        /\ \A q \in Queues :
            SF_vars(MigrateSingleQueue(p, q) /\ todo' = [todo EXCEPT ![p] = @ \ {q}])

Spec == Init /\ [][Next]_vars /\ Fairness

----------------------------------------------------------------------------
(***************************************************************************)
(* Properties.                                                             *)
(***************************************************************************)

\* Every variable has its type.
TypeOK ==
    /\ now \in 0..MaxTime /\ known \subseteq Queues
    /\ fleet \in Fleets
    /\ zset \in [Keys -> [Msgs -> 0..NoScore]]
    /\ \A q \in Queues : Range(ready[q]) \subseteq Msgs
    /\ execs \in [Queues -> [Msgs -> 0..MaxExecs]]
    /\ popped \in [Queues -> [Msgs -> 0..MaxExecs]]
    /\ delayQueues \in [Procs -> SUBSET Queues]
    /\ mu \in [Procs -> Callers \cup Procs \cup {Nobody}]
    /\ open \in [Procs -> BOOLEAN] /\ closed \in [Procs -> BOOLEAN]
    /\ daemon \in [Procs -> {"init", "poll", "round", "exit", "down"}]
    /\ todo \in [Procs -> SUBSET Queues]
    /\ pc \in [Callers -> {"idle", "lock", "sadd", "zadd"}]

Waiting(q, m) == {k \in Keys : k.queue = q /\ zset[k][m] # NoScore}
InReady(q, m) == Cardinality({i \in DOMAIN ready[q] : ready[q][i] = m})

\* However many daemons move the same queue at the same time and however often
\* a script is repeated, a message is delivered at most as often as it was
\* added, the copy that still waits in the sorted set included (and every
\* variable has its type).
NoDuplicate ==
    TypeOK /\ \A q \in Queues, m \in Msgs :
        popped[q][m] + InReady(q, m) + Cardinality(Waiting(q, m)) <= execs[q][m]

\* Messages are moved when they are due and in the order in which they are due,
\* also when more are due than one script moves.
EarliestFirst ==
    [][\A k \in Keys, m, n \in Msgs :
        zset[k][m] # NoScore /\ zset'[k][m] = NoScore =>
            /\ zset[k][m] <= now
            /\ zset[k][n] < zset[k][m] => zset'[k][n] = NoScore]_vars

\* After Close the daemon ends, once its first phase is over.
ReadyDaemonExits ==
    \A p \in Procs : (closed[p] /\ daemon[p] # "init") ~> daemon[p] \in {"exit", "down"}

\* The operator moves queue q, or reads it from Redis before it polls.
Serves(p, q) == open[p] /\ (q \in delayQueues[p] \/ daemon[p] \in {"down", "init"})

\* A delayed message of a queue that is registered in Redis is moved to the
\* ready list by whichever process knows the queue, whatever package of those
\* that may share this Redis it uses, unless all of them are closed or processes
\* go on crashing for ever.
DelayedIsDelivered ==
    <>[][\A p \in Procs : ~Crash(p)]_vars =>
        \A q \in Queues, m \in Msgs :
            (q \in known /\ Waiting(q, m) # {})
                ~> (Waiting(q, m) = {} \/ \A p \in Procs : ~Serves(p, q))
=============================================================================
