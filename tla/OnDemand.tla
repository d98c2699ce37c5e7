------------------------------ MODULE OnDemand ------------------------------
(***************************************************************************)
(* What goroutines make on demand and keep under a name: declarations at   *)
(* the broker (RmqDeclare), Kafka writers (KafkaPush), service clients and *)
(* connections (ServiceCalls), database pools, collections and jobs        *)
(* (Instances).  They share no state, so a behaviour is one of a single    *)
(* part; the others stay as they began.                                    *)
(***************************************************************************)
EXTENDS Naturals, FiniteSets

CONSTANTS
    Callers, Nobody,
    Exchanges, Queues, RoutingKeys,            \* RmqDeclare
    Pushes, Topics, TopicOf,                   \* KafkaPush
    Protocol, Calls, MaxAttempts,              \* ServiceCalls (and KafkaPush)
    Names, MaxMade                             \* Instances

VARIABLES part,
    broker, opCache, declareMu, declarePc, op, force, gone,
    writers, writersMu, openWriters, pushPc, writer, attempt, canceled,
    inflight, acked, stored, result, closing, left,
    client, conn, openConns, names, call, received,
    area, kept, live, made, holder, operator, done, at, name, mine, replaced, stray, results

declareVars == <<broker, opCache, declareMu, declarePc, op, force, gone>>
pushVars == <<writers, writersMu, openWriters, pushPc, writer, attempt, canceled,
              inflight, acked, stored, result, closing, left>>
serviceVars == <<client, conn, openConns, names, call, received>>
instanceVars == <<area, kept, live, made, holder, operator, done, at, name, mine, replaced, stray, results>>

Declaring == INSTANCE RmqDeclare WITH pc <- declarePc
Pushing == INSTANCE KafkaPush WITH None <- Nobody, open <- openWriters, pc <- pushPc
Serving == INSTANCE ServiceCalls WITH open <- openConns
Keeping == INSTANCE Instances WITH None <- Nobody

\* The assumptions of the parts.
ASSUME OnDemandParameters ==
    /\ Declaring!DeclareParameters /\ Pushing!PushParameters
    /\ Serving!ServiceParameters /\ Keeping!InstanceParameters

AllInit ==
    /\ part \in {"declare", "push", "serve", "keep"}
    /\ Declaring!Init /\ Pushing!Init /\ Serving!Init
    /\ Keeping!Init /\ (part # "keep" => area = "once")

AllNext ==
    \/ part = "declare" /\ Declaring!Next /\ UNCHANGED <<pushVars, serviceVars, instanceVars, part>>
    \/ part = "push" /\ Pushing!Next /\ UNCHANGED <<declareVars, serviceVars, instanceVars, part>>
    \/ part = "serve" /\ Serving!Next /\ UNCHANGED <<declareVars, pushVars, instanceVars, part>>
    \/ part = "keep" /\ Keeping!Next /\ UNCHANGED <<declareVars, pushVars, serviceVars, part>>

AllSpec ==
    /\ AllInit /\ [][AllNext]_<<declareVars, pushVars, serviceVars, instanceVars, part>>
    /\ part = "push" => Pushing!Fairness

----------------------------------------------------------------------------
\* Goroutines that find nothing at the same time make one thing in the end, and
\* what is open stays in reach of Close: of the declarations at the broker, the
\* Kafka writers, the service
\* clients and connections, the database pools, the client of mongo, the jobs
\* and the value of a Once.
OneOfEach ==
    /\ Declaring!NoRepeatedDeclare
    /\ Pushing!NoLostWriter
    /\ Serving!OneClient
    /\ Keeping!InReach /\ Keeping!OnceRuns

\* The properties of the parts.
CachedExists == Declaring!CachedExists
BodyIsWhole == Serving!BodyIsWhole
NothingStoredAfterClose == Pushing!NothingStoredAfterClose
PushEnds == Pushing!PushEnds
=============================================================================
