----------------------------- MODULE RmqDeclare -----------------------------
(***************************************************************************)
(* Declaring and deleting exchanges, queues and bindings through the       *)
(* opCache of a RabbitMQOperator (src/rabbitmqx/rmq.go): the double-checked*)
(* locking of DeclareExchange, DeclareQueue and BindQueue, and UnBindQueue,*)
(* DeleteExchange and DeleteQueue, which change the broker first and the   *)
(* cache afterwards, without declareMu.  The answer of the broker may get   *)
(* lost; it is waited for (calls with the option NoWait are left out).      *)
(***************************************************************************)
EXTENDS Naturals

CONSTANTS
    Callers,     \* goroutines that use the operator
    Exchanges, Queues, RoutingKeys,
    Nobody       \* declareMu is free

\* The assumption on the constants.
DeclareParameters == Nobody \notin Callers

\* The entities of the broker, and the operations on them.
ExchangeEntity(x) == [kind |-> "exchange", exchange |-> x]
QueueEntity(q) == [kind |-> "queue", queue |-> q]
Binding(x, k, q) == [kind |-> "bind", exchange |-> x, key |-> k, queue |-> q]

Entities ==
    {ExchangeEntity(x) : x \in Exchanges} \cup {QueueEntity(q) : q \in Queues}
    \cup {Binding(x, k, q) : x \in Exchanges, k \in RoutingKeys, q \in Queues}

\* The key of an operation in opCache: a binding's routing key is not in it.
OpKey(e) ==
    IF e.kind = "bind" THEN [kind |-> "bind", exchange |-> e.exchange, queue |-> e.queue]
    ELSE e

NoEntity == [kind |-> "none"]

VARIABLES
    broker,     \* the entities that exist at the broker
    opCache,    \* the keys of opCache
    declareMu,  \* holder of declareMu
    pc,         \* where each caller is
    op,         \* the entity a caller works on
    force,      \* WithForceDeclare was given
    gone        \* history: deleted at the broker behind the back of the cache

vars == <<broker, opCache, declareMu, pc, op, force, gone>>

Goto(c, l) == pc' = [pc EXCEPT ![c] = l]

Init ==
    /\ broker = {} /\ opCache = {}
    /\ declareMu = Nobody
    /\ pc = [c \in Callers |-> "idle"]
    /\ op = [c \in Callers |-> NoEntity]
    /\ force = [c \in Callers |-> FALSE]
    /\ gone = {}

----------------------------------------------------------------------------
\* DeclareExchange, DeclareQueue or BindQueue is called: a cached key returns
\* nil at once unless forceDeclare is set.
Declare(c, e, f) ==
    /\ pc[c] = "idle"
    /\ op' = [op EXCEPT ![c] = e]
    /\ force' = [force EXCEPT ![c] = f]
    /\ IF ~f /\ OpKey(e) \in opCache
       THEN UNCHANGED pc
       ELSE Goto(c, "lock")
    /\ UNCHANGED <<broker, opCache, declareMu, gone>>

DeclareLock(c) ==
    /\ pc[c] = "lock" /\ declareMu = Nobody
    /\ declareMu' = c
    /\ Goto(c, "recheck")
    /\ UNCHANGED <<broker, opCache, op, force, gone>>

\* The second look at the cache, under the lock.
DeclareRecheck(c) ==
    /\ pc[c] = "recheck"
    /\ IF ~force[c] /\ OpKey(op[c]) \in opCache
       THEN declareMu' = Nobody /\ Goto(c, "idle")
       ELSE Goto(c, "call") /\ UNCHANGED declareMu
    /\ UNCHANGED <<broker, opCache, op, force, gone>>

\* ExchangeDeclare, QueueDeclare and QueueBind at the broker; a binding needs
\* both its ends.
Possible(e) ==
    e.kind = "bind" =>
        {ExchangeEntity(e.exchange), QueueEntity(e.queue)} \subseteq broker

DeclareCall(c) ==
    /\ pc[c] = "call" /\ Possible(op[c])
    /\ broker' = broker \cup {op[c]}
    /\ gone' = gone \ broker'
    /\ Goto(c, "store")
    /\ UNCHANGED <<opCache, declareMu, op, force>>

\* It is refused, or its answer is lost.
DeclareFails(c) ==
    /\ pc[c] = "call"
    /\ \/ UNCHANGED broker
       \/ Possible(op[c]) /\ broker' = broker \cup {op[c]}
    /\ gone' = gone \ broker'
    /\ declareMu' = Nobody
    /\ Goto(c, "idle")
    /\ UNCHANGED <<opCache, op, force>>

DeclareStore(c) ==
    /\ pc[c] = "store"
    /\ opCache' = IF force[c] THEN opCache ELSE opCache \cup {OpKey(op[c])}
    /\ declareMu' = Nobody
    /\ Goto(c, "idle")
    /\ UNCHANGED <<broker, op, force, gone>>

----------------------------------------------------------------------------
\* The broker without an entity and what disappears with it.
Without(e) ==
    {b \in broker \ {e} : b.kind = "bind" =>
        IF e.kind = "exchange" THEN b.exchange # e.exchange
        ELSE e.kind = "queue" => b.queue # e.queue}

\* UnBindQueue, DeleteExchange and DeleteQueue: first the broker ...
DeleteCall(c, e) ==
    /\ pc[c] = "idle"
    /\ broker' = Without(e)
    /\ op' = [op EXCEPT ![c] = e]
    /\ Goto(c, "forget")
    /\ UNCHANGED <<opCache, declareMu, force, gone>>

\* ... which refuses, or does it while its answer is lost: on an error the cache
\* is left alone.
DeleteFails(c, e) ==
    /\ pc[c] = "idle"
    /\ broker' \in {broker, Without(e)}
    /\ gone' = gone \cup (broker \ broker')
    /\ UNCHANGED <<opCache, declareMu, pc, op, force>>

\* History: another caller has declared the entity before it was deleted and is
\* about to store it.
Race(c) ==
    gone' = IF \E d \in Callers : pc[d] = "store" /\ op[d] = op[c]
            THEN gone \cup ({op[c]} \ broker) ELSE gone

\* Mutant of DeleteForget: the key stays in the cache.
DeleteForgetNothing(c) ==
    /\ pc[c] = "forget"
    /\ Race(c)
    /\ Goto(c, "idle")
    /\ UNCHANGED <<broker, opCache, declareMu, op, force>>

\* ... then the entity's own key in the cache.
DeleteForget(c) ==
    /\ pc[c] = "forget"
    /\ opCache' = opCache \ {OpKey(op[c])}
    /\ Race(c)
    /\ Goto(c, "idle")
    /\ UNCHANGED <<broker, declareMu, op, force>>

Next ==
    \E c \in Callers :
        \/ \E e \in Entities :
             \/ \E f \in BOOLEAN : Declare(c, e, f)
             \/ DeleteCall(c, e) \/ DeleteFails(c, e)
        \/ DeclareLock(c) \/ DeclareRecheck(c) \/ DeclareCall(c) \/ DeclareFails(c)
        \/ DeclareStore(c) \/ DeleteForget(c)

Spec == Init /\ [][Next]_vars

----------------------------------------------------------------------------
(***************************************************************************)
(* Properties.                                                             *)
(***************************************************************************)

\* Every variable has its type.
TypeOK ==
    /\ broker \in SUBSET Entities
    /\ opCache \in SUBSET {OpKey(e) : e \in Entities}
    /\ declareMu \in Callers \cup {Nobody}
    /\ pc \in [Callers -> {"idle", "lock", "recheck", "call", "store", "forget"}]
    /\ op \in [Callers -> Entities \cup {NoEntity}]
    /\ force \in [Callers -> BOOLEAN]
    /\ gone \subseteq Entities

\* What declareMu and the second look under it are for: while a caller is
\* sending a declaration nobody else caches the same key, so that callers that
\* met at the lock do not send it again one after the other.
NoRepeatedDeclare ==
    \A c \in Callers : pc[c] = "call" /\ ~force[c] => OpKey(op[c]) \notin opCache

\* What "skipped once cached" takes for granted: a cached exchange or queue
\* exists at the broker (nobody else deletes there, and it does not delete by
\* itself) or a deletion is about to forget it.  The cache goes wrong in two ways,
\* and then for good: a deletion came between a declaration and its store, or it
\* took effect while its answer was lost.  (And every variable has its type.)
CachedExists ==
    /\ TypeOK
    /\ \A k \in opCache : k.kind \in {"exchange", "queue"} =>
        \/ k \in broker
        \/ k \in gone
        \/ \E c \in Callers : pc[c] = "forget" /\ op[c] = k
=============================================================================
