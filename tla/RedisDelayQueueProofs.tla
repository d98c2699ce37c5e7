------------------------ MODULE RedisDelayQueueProofs ------------------------
(***************************************************************************)
(* Proofs about RedisDelayQueue for any fleet of processes, any number of  *)
(* goroutines, queues and messages and any limit of the script: nothing is *)
(* delivered more often than it was added, and what is due first is moved  *)
(* first.                                                                  *)
(***************************************************************************)
EXTENDS RedisDelayQueue, FiniteSetTheorems, TLAPS

\* A push under way knows what it pushes, and ready lists hold messages.
PushOK ==
    /\ DOMAIN push = Callers
    /\ \A t \in Callers : pc[t] \in {"lock", "sadd", "zadd"} =>
         push[t].queue \in Queues /\ push[t].msg \in Msgs /\ push[t].delay \in Delays

ReadyOK == ready \in [Queues -> Seq(Msgs)]

\* The copies of a message: delivered, in the ready list, in a sorted set.
CopiesOK ==
    \A q \in Queues, m \in Msgs :
        popped[q][m] + InReady(q, m) + Cardinality(Waiting(q, m)) <= execs[q][m]

\* The inductive invariant.
IInv == TypeOK /\ PushOK /\ ReadyOK /\ CopiesOK

\* A score is never the one that stands for absence.
LEMMA ScoreBelow == MaxTime \in Nat /\ NoScore \in Nat /\ \A n \in 0..MaxTime : n # NoScore
BY DelayQueueAssumption DEF NoScore

\* Scores and the clock are numbers.
LEMMA Scores ==
    ASSUME TypeOK
    PROVE  /\ zset \in [Keys -> [Msgs -> 0..NoScore]]
           /\ now \in 0..MaxTime /\ MaxTime \in Nat /\ NoScore = MaxTime + 1
           /\ Msgs \subseteq Nat /\ Delays \subseteq Nat
BY DelayQueueAssumption DEF TypeOK, NoScore

\* The packages have the same actions, so a step is one of these.
LEMMA Steps ==
    ASSUME [Next]_vars
    PROVE  \/ \E t \in Callers : PushDelayMessage(t)
           \/ \E t \in Callers, q \in Queues, m \in fleet.msgs : PushMessage(t, q, m)
           \/ \E p \in Procs : Daemon(p) \/ Close(p) \/ NewRedisOperator(p) \/ Crash(p)
           \/ \E q \in Queues : GetMessage(q)
           \/ Tick
           \/ UNCHANGED vars
BY DEF Next, GoredisPush, GoredisDaemon, GoredisEnds, SingleDaemon, SingleMigrate, SinglePush,
       SingleNew, SingleClose, ClusterDaemon, ClusterMigrate, ClusterPush, ClusterNew,
       ClusterClose, SentinelDaemon, SentinelMigrate, SentinelPush, SentinelNew,
       SentinelClose, Daemon

----------------------------------------------------------------------------
(***************************************************************************)
(* How often a message is in a list.                                       *)
(***************************************************************************)
Places(s, m) == {i \in DOMAIN s : s[i] = m}

LEMMA PlacesFinite ==
    ASSUME NEW S, NEW s \in Seq(S), NEW m
    PROVE  IsFiniteSet(Places(s, m)) /\ Cardinality(Places(s, m)) \in Nat
<1>1. IsFiniteSet(1..Len(s))
  BY FS_Interval
<1>2. Places(s, m) \in SUBSET (1..Len(s))
  BY DEF Places
<1> QED BY <1>1, <1>2, FS_Subset, FS_CardinalityType

\* One more element adds at most one to the cardinality.
LEMMA OneMore ==
    ASSUME NEW S, IsFiniteSet(S), NEW x
    PROVE  /\ IsFiniteSet(S \cup {x}) /\ Cardinality(S \cup {x}) \in Nat
           /\ Cardinality(S \cup {x}) <= Cardinality(S) + 1
<1>1. Cardinality(S) \in Nat
  BY FS_CardinalityType
<1>2. /\ IsFiniteSet(S \cup {x})
      /\ Cardinality(S \cup {x}) = IF x \in S THEN Cardinality(S) ELSE Cardinality(S) + 1
  BY FS_AddElement
<1> QED BY <1>1, <1>2

\* Append adds at most one place.
LEMMA PlacesAppend ==
    ASSUME NEW S, NEW s \in Seq(S), NEW e \in S, NEW m
    PROVE  Cardinality(Places(Append(s, e), m)) <=
             Cardinality(Places(s, m)) + IF e = m THEN 1 ELSE 0
<1>1. IsFiniteSet(Places(s, m)) /\ Cardinality(Places(s, m)) \in Nat
  BY PlacesFinite
<1> DEFINE n == Len(s)
<1>2. /\ n \in Nat /\ DOMAIN Append(s, e) = 1..(n + 1) /\ DOMAIN s = 1..n
      /\ \A i \in 1..n : Append(s, e)[i] = s[i]
      /\ Append(s, e)[n + 1] = e
  OBVIOUS
<1> HIDE DEF n
<1>3. 1..(n + 1) = (1..n) \cup {n + 1} /\ n + 1 \notin 1..n
  BY <1>2
<1>4. CASE e = m
  <2>1. Places(Append(s, e), m) = Places(s, m) \cup {n + 1}
    BY <1>2, <1>3, <1>4 DEF Places
  <2>2. Cardinality(Places(Append(s, e), m)) <= Cardinality(Places(s, m)) + 1
    BY <1>1, <2>1, OneMore
  <2> QED BY <1>4, <2>2
<1>5. CASE e # m
  <2>1. Places(Append(s, e), m) = Places(s, m)
    BY <1>2, <1>3, <1>5 DEF Places
  <2> QED BY <1>1, <1>5, <2>1
<1> QED BY <1>4, <1>5

\* Tail removes the place of the head.
LEMMA PlacesTail ==
    ASSUME NEW S, NEW s \in Seq(S), s # <<>>, NEW m
    PROVE  Cardinality(Places(Tail(s), m)) + (IF Head(s) = m THEN 1 ELSE 0) <=
             Cardinality(Places(s, m))
<1> DEFINE A == Places(Tail(s), m)
           B == Places(s, m) \ {1}
           f == [i \in A |-> i + 1]
<1>1. IsFiniteSet(Places(s, m)) /\ Cardinality(Places(s, m)) \in Nat
  BY PlacesFinite
<1>2. /\ IsFiniteSet(B)
      /\ Cardinality(B) = Cardinality(Places(s, m)) - IF Head(s) = m THEN 1 ELSE 0
  <2>1. 1 \in Places(s, m) <=> Head(s) = m
    BY DEF Places
  <2> QED BY <1>1, <2>1, FS_RemoveElement
<1>3. f \in Injection(A, B)
  <2>1. \A i \in A : i \in Nat /\ i + 1 \in B
    BY DEF Places
  <2> QED BY <2>1 DEF Injection, IsInjective
<1>4. Cardinality(A) <= Cardinality(B) /\ Cardinality(A) \in Nat /\ Cardinality(B) \in Nat
  BY <1>2, <1>3, FS_Injection, FS_CardinalityType
<1> QED BY <1>1, <1>2, <1>4

\* Appending a list without repetitions adds at most one place.
LEMMA PlacesConcat ==
    ASSUME NEW S, NEW s \in Seq(S), NEW n \in Nat, NEW u \in [1..n -> S],
           \A i, j \in 1..n : u[i] = u[j] => i = j, NEW m
    PROVE  Cardinality(Places(s \o u, m)) <=
             Cardinality(Places(s, m)) + IF \E i \in 1..n : u[i] = m THEN 1 ELSE 0
<1>1. IsFiniteSet(Places(s, m)) /\ Cardinality(Places(s, m)) \in Nat
  BY PlacesFinite
<1>2. u \in Seq(S) /\ Len(u) = n /\ s \o u \in Seq(S) /\ Len(s \o u) = Len(s) + n
  OBVIOUS
<1>3. \A i \in 1..(Len(s) + n) : (s \o u)[i] = IF i <= Len(s) THEN s[i] ELSE u[i - Len(s)]
  BY <1>2
<1>4. CASE \E i \in 1..n : u[i] = m
  <2>1. PICK i \in 1..n : u[i] = m
    BY <1>4
  <2>2. Places(s \o u, m) \subseteq Places(s, m) \cup {Len(s) + i}
    <3>1. SUFFICES ASSUME NEW x \in Places(s \o u, m), x \notin Places(s, m)
                   PROVE  x = Len(s) + i
      OBVIOUS
    <3>2. x \in 1..(Len(s) + n) /\ (s \o u)[x] = m /\ ~(x <= Len(s))
      BY <1>2, <1>3, <3>1 DEF Places
    <3>3. x - Len(s) \in 1..n /\ u[x - Len(s)] = m
      BY <1>2, <1>3, <3>2
    <3>4. x - Len(s) = i
      BY <2>1, <3>3
    <3> QED BY <1>2, <3>2, <3>4
  <2>3. /\ IsFiniteSet(Places(s, m) \cup {Len(s) + i})
        /\ Cardinality(Places(s, m) \cup {Len(s) + i}) <= Cardinality(Places(s, m)) + 1
    BY <1>1, OneMore
  <2>4. Cardinality(Places(s \o u, m)) <= Cardinality(Places(s, m) \cup {Len(s) + i})
    BY <2>2, <2>3, FS_Subset
  <2>5. /\ Cardinality(Places(s \o u, m)) \in Nat
        /\ Cardinality(Places(s, m) \cup {Len(s) + i}) \in Nat
    BY <1>2, <2>3, PlacesFinite, FS_CardinalityType
  <2> QED BY <1>1, <1>4, <2>3, <2>4, <2>5
<1>5. CASE ~\E i \in 1..n : u[i] = m
  <2>1. Places(s \o u, m) = Places(s, m)
    BY <1>2, <1>3, <1>5 DEF Places
  <2> QED BY <1>1, <1>5, <2>1
<1> QED BY <1>4, <1>5

----------------------------------------------------------------------------
(***************************************************************************)
(* The sorted sets.                                                        *)
(***************************************************************************)

\* There are two keys for a queue.
LEMMA WaitingFinite ==
    ASSUME NEW q \in Queues, NEW m
    PROVE  IsFiniteSet(Waiting(q, m)) /\ Cardinality(Waiting(q, m)) \in Nat
<1> DEFINE both == ({} \cup {[tagged |-> TRUE, queue |-> q]}) \cup {[tagged |-> FALSE, queue |-> q]}
<1>1. IsFiniteSet(both)
  BY FS_EmptySet, FS_AddElement
<1>2. Waiting(q, m) \in SUBSET both
  BY DEF Waiting, Keys
<1> QED BY <1>1, <1>2, FS_Subset, FS_CardinalityType

LEMMA KeyOf ==
    ASSUME NEW p, NEW q \in Queues, TypeOK
    PROVE  DelayTimeoutKey(p, q) \in Keys /\ DelayTimeoutKey(p, q).queue = q
BY DelayQueueAssumption DEF DelayTimeoutKey, Keys, Runs, TypeOK

\* What the script moves is due, and a message that is due earlier than one it
\* moves is moved as well.
LEMMA ExpiredFirst ==
    ASSUME TypeOK, NEW k \in Keys
    PROVE  /\ Expired(k) \subseteq Due(k) /\ IsFiniteSet(Expired(k))
           /\ \A m \in Expired(k), n \in Msgs : zset[k][n] < zset[k][m] => n \in Expired(k)
<1>1. zset[k] \in [Msgs -> Nat] /\ now \in Nat /\ IsFiniteSet(Msgs) /\ Limit \in Nat
  BY ScoreBelow, DelayQueueAssumption DEF TypeOK, NoScore
<1>2. IsFiniteSet(Due(k)) /\ Expired(k) \subseteq Due(k)
  BY <1>1, FS_Subset DEF Due, Expired
<1>3. ASSUME NEW m \in Expired(k), NEW n \in Msgs, zset[k][n] < zset[k][m]
      PROVE  n \in Expired(k)
  <2> DEFINE earlier(x) == {y \in Due(k) : Before(k, y, x)}
  <2>1. n \in Due(k) /\ m \in Due(k)
    BY <1>1, <1>3 DEF Due, Expired
  <2>2. earlier(n) \in SUBSET earlier(m)
    BY <1>1, <1>3, <2>1 DEF Due, Before
  <2>3. IsFiniteSet(earlier(m)) /\ IsFiniteSet(earlier(n))
    BY <1>2, FS_Subset
  <2>4. /\ Cardinality(earlier(n)) <= Cardinality(earlier(m))
        /\ Cardinality(earlier(n)) \in Nat /\ Cardinality(earlier(m)) \in Nat
    BY <2>2, <2>3, FS_Subset, FS_CardinalityType
  <2>5. Cardinality(earlier(m)) < Limit
    BY DEF Expired
  <2> HIDE DEF earlier
  <2>6. Cardinality(earlier(n)) < Limit
    BY <1>1, <2>4, <2>5
  <2> QED BY <2>1, <2>6 DEF Expired, earlier
<1> QED BY <1>2, <1>3, FS_Subset

----------------------------------------------------------------------------
(***************************************************************************)
(* What the actions do to Redis.                                           *)
(***************************************************************************)
counters == <<zset, ready, execs, popped>>

\* ZADD puts a score that is not the one of absence into one place.
LEMMA ZAddFacts ==
    ASSUME IInv, NEW t \in Callers, ZAddOk(t) \/ ZAddLost(t)
    PROVE  \E q \in Queues, m \in Msgs, k \in Keys, n \in 0..MaxTime :
             /\ k.queue = q /\ execs[q][m] < MaxExecs
             /\ zset' = [zset EXCEPT ![k][m] = n]
             /\ execs' = [execs EXCEPT ![q][m] = @ + 1]
             /\ UNCHANGED <<fleet, now, known, ready, popped, locals>>
<1> DEFINE q == push[t].queue
           m == push[t].msg
           k == DelayTimeoutKey(ProcOf[t], q)
           n == now + push[t].delay
<1>1. /\ pc[t] = "zadd" /\ execs[q][m] < MaxExecs /\ n <= MaxTime
      /\ zset' = [zset EXCEPT ![k][m] = n]
      /\ execs' = [execs EXCEPT ![q][m] = @ + 1]
      /\ UNCHANGED <<fleet, now, known, ready, popped, locals>>
  BY DEF ZAddOk, ZAddLost, ZAdd, Queue
<1>2. q \in Queues /\ m \in Msgs /\ push[t].delay \in Delays
  BY <1>1 DEF IInv, PushOK
<1>3. k \in Keys /\ k.queue = q
  BY <1>2, KeyOf DEF IInv
<1>4. n \in 0..MaxTime
  <2>1. push[t].delay \in Nat /\ now \in Nat /\ MaxTime \in Nat
    BY <1>2, Scores DEF IInv
  <2> QED BY <1>1, <2>1
<1> HIDE DEF q, m, k, n
<1> QED BY <1>1, <1>2, <1>3, <1>4

\* The script takes what it moves out of one sorted set and appends each once.
LEMMA MigrateFacts ==
    ASSUME IInv, NEW p \in Procs, NEW q \in Queues, MigrateSingleQueue(p, q)
    PROVE  \E k \in Keys, u \in Seq(Msgs) :
             /\ k.queue = q
             /\ zset' = [zset EXCEPT ![k] = [m \in Msgs |->
                            IF m \in Expired(k) THEN NoScore ELSE @[m]]]
             /\ ready' = [ready EXCEPT ![q] = @ \o u]
             /\ \A i \in 1..Len(u) : u[i] \in Expired(k)
             /\ \A i, j \in 1..Len(u) : u[i] = u[j] => i = j
             /\ UNCHANGED <<fleet, now, known, execs, popped, delayQueues, mu, open, closed,
                            daemon, pc, push>>
             /\ todo' \in {todo, [todo EXCEPT ![p] = @ \ {q}]}
<1> DEFINE k == DelayTimeoutKey(p, q)
           n == Cardinality(Expired(k))
<1>1. k \in Keys /\ k.queue = q
  BY KeyOf DEF IInv
<1>2. /\ zset' = [zset EXCEPT ![k] = [m \in Msgs |->
                     IF m \in Expired(k) THEN NoScore ELSE @[m]]]
      /\ AppendExpired(q, k)
      /\ UNCHANGED <<fleet, now, known, execs, popped, delayQueues, mu, open, closed,
                     daemon, pc, push>>
      /\ todo' \in {todo, [todo EXCEPT ![p] = @ \ {q}]}
  BY DEF MigrateSingleQueue
<1>3. n \in Nat /\ Expired(k) \subseteq Msgs
  BY <1>1, ExpiredFirst, FS_CardinalityType DEF IInv, Due
<1>4. PICK u \in [1..n -> Expired(k)] :
        /\ \A i, j \in DOMAIN u : i < j => Before(k, u[i], u[j])
        /\ ready' = [ready EXCEPT ![q] = @ \o u]
  BY <1>2 DEF AppendExpired
<1> HIDE DEF n
<1>5. u \in Seq(Msgs) /\ Len(u) = n /\ DOMAIN u = 1..n
  BY <1>3, <1>4
<1>6. \A x \in Msgs : zset[k][x] \in Nat /\ x \in Nat
  BY <1>1, Scores DEF IInv
<1> HIDE DEF k
<1>7. \A x \in Msgs : ~Before(k, x, x)
  BY <1>6 DEF Before
<1>8. \A i, j \in 1..n : u[i] = u[j] => i = j
  <2> SUFFICES ASSUME NEW i \in 1..n, NEW j \in 1..n, u[i] = u[j], i # j
               PROVE  FALSE
    OBVIOUS
  <2>1. u[i] \in Msgs
    BY <1>3, <1>4
  <2>2. CASE i < j BY <1>3, <1>4, <1>5, <1>7, <2>1, <2>2
  <2>3. CASE j < i BY <1>3, <1>4, <1>5, <1>7, <2>1, <2>3
  <2> QED BY <1>3, <2>2, <2>3
<1> QED BY <1>1, <1>2, <1>4, <1>5, <1>8

\* The other steps leave the messages in Redis alone.
LEMMA OtherSteps ==
    ASSUME [Next]_vars
    PROVE  \/ \E t \in Callers : ZAddOk(t) \/ ZAddLost(t)
           \/ \E t \in Callers, q \in Queues, m \in fleet.msgs : PushMessage(t, q, m)
           \/ \E p \in Procs, q \in Queues : MigrateSingleQueue(p, q)
           \/ \E q \in Queues : GetMessage(q)
           \/ UNCHANGED counters
<1> USE DEF counters
<1>1. ASSUME NEW t \in Callers, PushDelayMessage(t), ~ZAddOk(t), ~ZAddLost(t)
      PROVE  UNCHANGED counters
  BY <1>1 DEF PushDelayMessage, Push, PushLock, SAddOk, SAddFails, ZAddFails, redis
<1>2. ASSUME NEW p \in Procs, Daemon(p), \A q \in Queues : ~MigrateSingleQueue(p, q)
      PROVE  UNCHANGED counters
  BY <1>2 DEF Daemon, TryMigrationDaemon, MigrateQueues, DaemonInit, Poll, RoundEnd,
              MigrateFails, redis
<1>3. ASSUME NEW p \in Procs, Close(p) \/ NewRedisOperator(p) \/ Crash(p)
      PROVE  UNCHANGED counters
  BY <1>3 DEF Close, CloseLock, CloseClient, CloseMark, NewRedisOperator, Crash, redis
<1>4. ASSUME Tick \/ UNCHANGED vars PROVE UNCHANGED counters
  BY <1>4 DEF Tick, vars, redis
<1> QED BY Steps, <1>1, <1>2, <1>3, <1>4

----------------------------------------------------------------------------
(***************************************************************************)
(* The invariant.                                                          *)
(***************************************************************************)
Copies(q, m) == popped[q][m] + InReady(q, m) + Cardinality(Waiting(q, m))

\* The terms of the sum are numbers.
LEMMA CopiesNat ==
    ASSUME TypeOK, ReadyOK, NEW q \in Queues, NEW m \in Msgs
    PROVE  /\ popped[q][m] \in Nat /\ execs[q][m] \in Nat
           /\ InReady(q, m) = Cardinality(Places(ready[q], m)) /\ InReady(q, m) \in Nat
           /\ Cardinality(Waiting(q, m)) \in Nat
<1>1. popped[q][m] \in Nat /\ execs[q][m] \in Nat
  BY DelayQueueAssumption DEF TypeOK
<1>2. InReady(q, m) = Cardinality(Places(ready[q], m))
  BY DEF InReady, Places
<1>3. Cardinality(Places(ready[q], m)) \in Nat
  BY PlacesFinite DEF ReadyOK
<1> QED BY <1>1, <1>2, <1>3, WaitingFinite

\* An addition to a sorted set is one copy more, if it is not there already.
LEMMA ZAddCopies ==
    ASSUME IInv, NEW t \in Callers, ZAddOk(t) \/ ZAddLost(t)
    PROVE  CopiesOK'
<1>1. PICK q \in Queues, m \in Msgs, k \in Keys, n \in 0..MaxTime :
        /\ k.queue = q
        /\ zset' = [zset EXCEPT ![k][m] = n]
        /\ execs' = [execs EXCEPT ![q][m] = @ + 1]
        /\ ready' = ready /\ popped' = popped
  BY ZAddFacts
<1>2. zset \in [Keys -> [Msgs -> 0..NoScore]] /\ execs \in [Queues -> [Msgs -> 0..MaxExecs]]
  BY DEF IInv, TypeOK
<1> SUFFICES ASSUME NEW r \in Queues, NEW x \in Msgs
             PROVE  Copies(r, x)' <= execs'[r][x]
  BY DEF CopiesOK, Copies
<1>3. Copies(r, x) <= execs[r][x]
  BY DEF IInv, CopiesOK, Copies
<1>4. /\ popped[r][x] \in Nat /\ execs[r][x] \in Nat /\ InReady(r, x) \in Nat
      /\ IsFiniteSet(Waiting(r, x)) /\ Cardinality(Waiting(r, x)) \in Nat
  BY CopiesNat, WaitingFinite DEF IInv
<1>5. popped'[r][x] = popped[r][x] /\ InReady(r, x)' = InReady(r, x)
  BY <1>1 DEF InReady
<1>6. CASE r = q /\ x = m
  <2>1. Waiting(r, x)' \subseteq Waiting(r, x) \cup {k}
    BY <1>1, <1>2, <1>6 DEF Waiting
  <2>2. /\ IsFiniteSet(Waiting(r, x) \cup {k}) /\ Cardinality(Waiting(r, x) \cup {k}) \in Nat
        /\ Cardinality(Waiting(r, x) \cup {k}) <= Cardinality(Waiting(r, x)) + 1
    BY <1>4, OneMore
  <2>3. /\ Cardinality(Waiting(r, x)') <= Cardinality(Waiting(r, x) \cup {k})
        /\ Cardinality(Waiting(r, x)') \in Nat
    BY <2>1, <2>2, FS_Subset, FS_CardinalityType
  <2>4. execs'[r][x] = execs[r][x] + 1
    BY <1>1, <1>2, <1>6
  <2> QED BY <1>3, <1>4, <1>5, <2>2, <2>3, <2>4 DEF Copies
<1>7. CASE ~(r = q /\ x = m)
  <2>1. Waiting(r, x)' = Waiting(r, x)
    BY <1>1, <1>2, <1>7 DEF Waiting
  <2>2. execs'[r][x] = execs[r][x]
    BY <1>1, <1>2, <1>7
  <2> QED BY <1>3, <1>5, <2>1, <2>2 DEF Copies
<1> QED BY <1>6, <1>7

\* So is an addition to a ready list.
LEMMA PushCopies ==
    ASSUME IInv, NEW t \in Callers, NEW q \in Queues, NEW m \in Msgs, PushMessage(t, q, m)
    PROVE  CopiesOK'
<1>1. /\ ready' = [ready EXCEPT ![q] = Append(@, m)]
      /\ execs' = [execs EXCEPT ![q][m] = @ + 1]
      /\ zset' = zset /\ popped' = popped
  BY DEF PushMessage
<1>2. ready \in [Queues -> Seq(Msgs)] /\ execs \in [Queues -> [Msgs -> 0..MaxExecs]]
  BY DEF IInv, TypeOK, ReadyOK
<1> SUFFICES ASSUME NEW r \in Queues, NEW x \in Msgs
             PROVE  Copies(r, x)' <= execs'[r][x]
  BY DEF CopiesOK, Copies
<1>3. Copies(r, x) <= execs[r][x]
  BY DEF IInv, CopiesOK, Copies
<1>4. /\ popped[r][x] \in Nat /\ execs[r][x] \in Nat /\ Cardinality(Waiting(r, x)) \in Nat
      /\ InReady(r, x) = Cardinality(Places(ready[r], x)) /\ InReady(r, x) \in Nat
  BY CopiesNat DEF IInv
<1>5. popped'[r][x] = popped[r][x] /\ Waiting(r, x)' = Waiting(r, x)
  BY <1>1 DEF Waiting
<1>6. InReady(r, x)' = Cardinality(Places(ready'[r], x))
  BY DEF InReady, Places
<1>7. CASE r # q
  <2>1. ready'[r] = ready[r] /\ execs'[r][x] = execs[r][x]
    BY <1>1, <1>2, <1>7
  <2> QED BY <1>3, <1>4, <1>5, <1>6, <2>1 DEF Copies
<1>8. CASE r = q
  <2>1. ready'[r] = Append(ready[r], m) /\ ready[r] \in Seq(Msgs)
    BY <1>1, <1>2, <1>8
  <2>2. execs'[r][x] = execs[r][x] + IF m = x THEN 1 ELSE 0
    BY <1>1, <1>2, <1>4, <1>8
  <2>3. /\ Cardinality(Places(ready'[r], x)) <=
             Cardinality(Places(ready[r], x)) + IF m = x THEN 1 ELSE 0
        /\ Cardinality(Places(ready'[r], x)) \in Nat
    BY <2>1, PlacesAppend, PlacesFinite, Append(ready[r], m) \in Seq(Msgs)
  <2> QED BY <1>3, <1>4, <1>5, <1>6, <2>2, <2>3 DEF Copies
<1> QED BY <1>7, <1>8

\* LPOP takes the copy it delivers out of the list.
LEMMA PopCopies ==
    ASSUME IInv, NEW q \in Queues, GetMessage(q)
    PROVE  CopiesOK'
<1>1. /\ ready[q] # <<>>
      /\ popped' = [popped EXCEPT ![q][Head(ready[q])] = @ + 1]
      /\ ready' = [ready EXCEPT ![q] = Tail(@)]
      /\ zset' = zset /\ execs' = execs
  BY DEF GetMessage
<1>2. ready \in [Queues -> Seq(Msgs)] /\ popped \in [Queues -> [Msgs -> 0..MaxExecs]]
  BY DEF IInv, TypeOK, ReadyOK
<1> SUFFICES ASSUME NEW r \in Queues, NEW x \in Msgs
             PROVE  Copies(r, x)' <= execs'[r][x]
  BY DEF CopiesOK, Copies
<1>3. Copies(r, x) <= execs[r][x]
  BY DEF IInv, CopiesOK, Copies
<1>4. /\ popped[r][x] \in Nat /\ execs[r][x] \in Nat /\ Cardinality(Waiting(r, x)) \in Nat
      /\ InReady(r, x) = Cardinality(Places(ready[r], x)) /\ InReady(r, x) \in Nat
  BY CopiesNat DEF IInv
<1>5. execs'[r][x] = execs[r][x] /\ Waiting(r, x)' = Waiting(r, x)
  BY <1>1 DEF Waiting
<1>6. InReady(r, x)' = Cardinality(Places(ready'[r], x))
  BY DEF InReady, Places
<1>7. CASE r # q
  <2>1. ready'[r] = ready[r] /\ popped'[r][x] = popped[r][x]
    BY <1>1, <1>2, <1>7
  <2> QED BY <1>3, <1>4, <1>5, <1>6, <2>1 DEF Copies
<1>8. CASE r = q
  <2>1. ready'[r] = Tail(ready[r]) /\ ready[r] \in Seq(Msgs) /\ ready[r] # <<>>
    BY <1>1, <1>2, <1>8
  <2>2. Head(ready[r]) \in Msgs /\ Tail(ready[r]) \in Seq(Msgs)
    BY <2>1
  <2>3. popped'[r][x] = popped[r][x] + IF Head(ready[r]) = x THEN 1 ELSE 0
    BY <1>1, <1>2, <1>4, <1>8, <2>2
  <2>4. /\ Cardinality(Places(ready'[r], x)) + (IF Head(ready[r]) = x THEN 1 ELSE 0) <=
             Cardinality(Places(ready[r], x))
        /\ Cardinality(Places(ready'[r], x)) \in Nat
    BY <2>1, <2>2, PlacesTail, PlacesFinite
  <2> QED BY <1>3, <1>4, <1>5, <1>6, <2>3, <2>4 DEF Copies
<1> QED BY <1>7, <1>8

\* The script appends a copy of what it takes out of the sorted set.
LEMMA MigrateCopies ==
    ASSUME IInv, NEW p \in Procs, NEW q \in Queues, MigrateSingleQueue(p, q)
    PROVE  CopiesOK'
<1>1. PICK k \in Keys, u \in Seq(Msgs) :
        /\ k.queue = q
        /\ zset' = [zset EXCEPT ![k] = [m \in Msgs |->
                       IF m \in Expired(k) THEN NoScore ELSE @[m]]]
        /\ ready' = [ready EXCEPT ![q] = @ \o u]
        /\ \A i \in 1..Len(u) : u[i] \in Expired(k)
        /\ \A i, j \in 1..Len(u) : u[i] = u[j] => i = j
        /\ execs' = execs /\ popped' = popped
  BY MigrateFacts
<1>2. /\ ready \in [Queues -> Seq(Msgs)] /\ zset \in [Keys -> [Msgs -> 0..NoScore]]
      /\ Expired(k) \subseteq {m \in Msgs : zset[k][m] # NoScore}
  <2>1. Expired(k) \subseteq Due(k)
    BY ExpiredFirst DEF IInv
  <2>2. \A m \in Due(k) : m \in Msgs /\ zset[k][m] # NoScore
    BY Scores DEF IInv, Due
  <2> QED BY <2>1, <2>2, Scores DEF IInv, ReadyOK
<1> SUFFICES ASSUME NEW r \in Queues, NEW x \in Msgs
             PROVE  Copies(r, x)' <= execs'[r][x]
  BY DEF CopiesOK, Copies
<1>3. Copies(r, x) <= execs[r][x]
  BY DEF IInv, CopiesOK, Copies
<1>4. /\ popped[r][x] \in Nat /\ execs[r][x] \in Nat
      /\ IsFiniteSet(Waiting(r, x)) /\ Cardinality(Waiting(r, x)) \in Nat
      /\ InReady(r, x) = Cardinality(Places(ready[r], x)) /\ InReady(r, x) \in Nat
  BY CopiesNat, WaitingFinite DEF IInv
<1>5. execs'[r][x] = execs[r][x] /\ popped'[r][x] = popped[r][x]
  BY <1>1
<1>6. InReady(r, x)' = Cardinality(Places(ready'[r], x))
  BY DEF InReady, Places
<1>7. CASE r # q
  <2>1. ready'[r] = ready[r]
    BY <1>1, <1>2, <1>7
  <2>2. Waiting(r, x)' = Waiting(r, x)
    BY <1>1, <1>2, <1>7 DEF Waiting
  <2> QED BY <1>3, <1>4, <1>5, <1>6, <2>1, <2>2 DEF Copies
<1>8. CASE r = q
  <2>1. ready'[r] = ready[r] \o u /\ ready[r] \in Seq(Msgs)
    BY <1>1, <1>2, <1>8
  <2>2. /\ Cardinality(Places(ready'[r], x)) <=
             Cardinality(Places(ready[r], x)) + IF x \in Expired(k) THEN 1 ELSE 0
        /\ Cardinality(Places(ready'[r], x)) \in Nat
    <3>1. u \in [1..Len(u) -> Msgs] /\ Len(u) \in Nat /\ ready[r] \o u \in Seq(Msgs)
      BY <2>1
    <3>2. Cardinality(Places(ready[r] \o u, x)) <=
            Cardinality(Places(ready[r], x)) + IF \E i \in 1..Len(u) : u[i] = x THEN 1 ELSE 0
      BY ZenonT(60), <1>1, <2>1, <3>1, PlacesConcat
    <3>3. (\E i \in 1..Len(u) : u[i] = x) => x \in Expired(k)
      BY <1>1
    <3>4. Cardinality(Places(ready[r] \o u, x)) \in Nat /\ Cardinality(Places(ready[r], x)) \in Nat
      BY <2>1, <3>1, PlacesFinite
    <3> QED BY <2>1, <3>2, <3>3, <3>4
  <2>3. CASE x \in Expired(k)
    <3>1. Waiting(r, x)' = Waiting(r, x) \ {k} /\ k \in Waiting(r, x)
      BY <1>1, <1>2, <1>8, <2>3 DEF Waiting
    <3>2. Cardinality(Waiting(r, x)') = Cardinality(Waiting(r, x)) - 1
      BY ZenonT(60), <1>4, <3>1, FS_RemoveElement
    <3> QED BY <1>3, <1>4, <1>5, <1>6, <2>2, <2>3, <3>2 DEF Copies
  <2>4. CASE x \notin Expired(k)
    <3>1. Waiting(r, x)' = Waiting(r, x)
      BY <1>1, <1>2, <1>8, <2>4 DEF Waiting
    <3> QED BY <1>3, <1>4, <1>5, <1>6, <2>2, <2>4, <3>1 DEF Copies
  <2> QED BY <2>3, <2>4
<1> QED BY <1>7, <1>8

LEMMA CopiesStep ==
    ASSUME IInv, [Next]_vars
    PROVE  CopiesOK'
<1>1. fleet.msgs \subseteq Msgs
  BY DelayQueueAssumption DEF IInv, TypeOK
<1>2. ASSUME UNCHANGED counters PROVE CopiesOK'
  BY <1>2 DEF IInv, CopiesOK, counters, InReady, Waiting
<1> QED
  BY <1>1, <1>2, OtherSteps, ZAddCopies, PushCopies, MigrateCopies, PopCopies

\* The types of what is in Redis.
RedisOK ==
    /\ zset \in [Keys -> [Msgs -> 0..NoScore]]
    /\ execs \in [Queues -> [Msgs -> 0..MaxExecs]]
    /\ popped \in [Queues -> [Msgs -> 0..MaxExecs]]
    /\ ReadyOK

\* A message that is popped was added, and what is added is within the bound.
LEMMA RedisStep ==
    ASSUME IInv, [Next]_vars
    PROVE  RedisOK'
<1>1. RedisOK /\ fleet.msgs \subseteq Msgs /\ MaxExecs \in Nat
  BY DelayQueueAssumption DEF IInv, TypeOK, RedisOK
<1>2. 0..MaxTime \subseteq 0..NoScore /\ NoScore \in 0..NoScore
  BY Scores DEF IInv
<1>3. ASSUME NEW t \in Callers, ZAddOk(t) \/ ZAddLost(t)
      PROVE  RedisOK'
  <2>1. PICK q \in Queues, m \in Msgs, k \in Keys, n \in 0..MaxTime :
          /\ execs[q][m] < MaxExecs
          /\ zset' = [zset EXCEPT ![k][m] = n]
          /\ execs' = [execs EXCEPT ![q][m] = @ + 1]
          /\ ready' = ready /\ popped' = popped
    BY <1>3, ZAddFacts
  <2>2. n \in 0..NoScore
    BY <1>2
  <2>3. execs[q][m] \in 0..MaxExecs
    BY <1>1 DEF RedisOK
  <2>4. execs[q][m] + 1 \in 0..MaxExecs
    BY <1>1, <2>1, <2>3
  <2> QED BY <1>1, <2>1, <2>2, <2>4 DEF RedisOK, ReadyOK
<1>4. ASSUME NEW t \in Callers, NEW q \in Queues, NEW m \in Msgs, PushMessage(t, q, m)
      PROVE  RedisOK'
  <2>1. execs[q][m] + 1 \in 0..MaxExecs /\ Append(ready[q], m) \in Seq(Msgs)
    BY <1>1, <1>4 DEF PushMessage, RedisOK, ReadyOK
  <2> QED BY <1>1, <1>4, <2>1 DEF PushMessage, RedisOK, ReadyOK
<1>5. ASSUME NEW p \in Procs, NEW q \in Queues, MigrateSingleQueue(p, q)
      PROVE  RedisOK'
  <2>1. PICK k \in Keys, u \in Seq(Msgs) :
          /\ zset' = [zset EXCEPT ![k] = [m \in Msgs |->
                         IF m \in Expired(k) THEN NoScore ELSE @[m]]]
          /\ ready' = [ready EXCEPT ![q] = @ \o u]
          /\ execs' = execs /\ popped' = popped
    BY <1>5, MigrateFacts
  <2>2. ready[q] \o u \in Seq(Msgs)
    BY <1>1 DEF RedisOK, ReadyOK
  <2>3. [m \in Msgs |-> IF m \in Expired(k) THEN NoScore ELSE zset[k][m]]
          \in [Msgs -> 0..NoScore]
    BY <1>1, <1>2 DEF RedisOK
  <2> QED BY <1>1, <2>1, <2>2, <2>3 DEF RedisOK, ReadyOK
<1>6. ASSUME NEW q \in Queues, GetMessage(q)
      PROVE  RedisOK'
  <2> DEFINE m == Head(ready[q])
  <2>1. ready[q] \in Seq(Msgs) /\ ready[q] # <<>> /\ m \in Msgs /\ Tail(ready[q]) \in Seq(Msgs)
    BY <1>1, <1>6 DEF GetMessage, RedisOK, ReadyOK
  <2>2. Cardinality(Places(Tail(ready[q]), m)) + 1 <= Cardinality(Places(ready[q], m))
    BY <2>1, PlacesTail
  <2>3. Cardinality(Places(Tail(ready[q]), m)) \in Nat
    BY <2>1, PlacesFinite
  <2>4. popped[q][m] + InReady(q, m) + Cardinality(Waiting(q, m)) <= execs[q][m]
    BY <2>1 DEF IInv, CopiesOK
  <2>5. /\ popped[q][m] \in Nat /\ Cardinality(Waiting(q, m)) \in Nat
        /\ InReady(q, m) = Cardinality(Places(ready[q], m)) /\ InReady(q, m) \in Nat
    BY <2>1, CopiesNat DEF IInv
  <2>6. execs[q][m] \in 0..MaxExecs
    BY <1>1, <2>1 DEF RedisOK
  <2>7. popped[q][m] + 1 \in 0..MaxExecs
    BY <1>1, <2>2, <2>3, <2>4, <2>5, <2>6
  <2>8. /\ popped' = [popped EXCEPT ![q][m] = @ + 1]
        /\ ready' = [ready EXCEPT ![q] = Tail(@)]
        /\ zset' = zset /\ execs' = execs
    BY <1>6 DEF GetMessage
  <2> HIDE DEF m
  <2> QED BY <1>1, <2>1, <2>7, <2>8 DEF RedisOK, ReadyOK
<1>7. ASSUME UNCHANGED counters PROVE RedisOK'
  BY <1>1, <1>7 DEF counters, RedisOK, ReadyOK
<1> QED BY <1>1, OtherSteps, <1>3, <1>4, <1>5, <1>6, <1>7

\* The types of everything else.
LocalOK ==
    /\ now \in 0..MaxTime /\ known \subseteq Queues /\ fleet \in Fleets
    /\ delayQueues \in [Procs -> SUBSET Queues]
    /\ mu \in [Procs -> Callers \cup Procs \cup {Nobody}]
    /\ open \in [Procs -> BOOLEAN] /\ closed \in [Procs -> BOOLEAN]
    /\ daemon \in [Procs -> {"init", "poll", "round", "exit", "down"}]
    /\ todo \in [Procs -> SUBSET Queues]
    /\ pc \in [Callers -> {"idle", "lock", "sadd", "zadd"}]
    /\ PushOK

\* A goroutine that pushes.
LEMMA PushStep ==
    ASSUME LocalOK, NEW t \in Callers, PushDelayMessage(t)
    PROVE  LocalOK'
<1>1. ProcOf[t] \in Procs /\ fleet.msgs \subseteq Msgs
  BY DelayQueueAssumption DEF LocalOK
<1>2. ASSUME NEW q \in Queues, NEW m \in fleet.msgs, NEW d \in Delays, Push(t, q, m, d)
      PROVE  LocalOK'
  BY <1>1, <1>2 DEF Push, Goto, LocalOK, PushOK, redis, locals
<1>3. CASE PushLock(t)
  BY <1>1, <1>3 DEF PushLock, Goto, Queue, LocalOK, PushOK, redis
<1>4. CASE SAddOk(t)
  BY <1>1, <1>4 DEF SAddOk, Goto, Queue, LocalOK, PushOK
<1>5. CASE SAddFails(t)
  BY <1>1, <1>5 DEF SAddFails, Goto, Queue, LocalOK, PushOK
<1>6. CASE ZAddOk(t)
  BY <1>6 DEF ZAddOk, Goto, LocalOK, PushOK, locals
<1>7. CASE ZAddLost(t)
  BY <1>7 DEF ZAddLost, LocalOK, PushOK, locals
<1>8. CASE ZAddFails(t)
  BY <1>8 DEF ZAddFails, Goto, LocalOK, PushOK, redis, locals
<1> QED BY <1>2, <1>3, <1>4, <1>5, <1>6, <1>7, <1>8 DEF PushDelayMessage

LEMMA LocalStep ==
    ASSUME IInv, [Next]_vars
    PROVE  LocalOK'
<1> USE DEF LocalOK, PushOK
<1>1. LocalOK
  BY DEF IInv, TypeOK
<1>2. ASSUME NEW t \in Callers, NEW q \in Queues, NEW m \in fleet.msgs, PushMessage(t, q, m)
      PROVE  LocalOK'
  BY <1>1, <1>2 DEF PushMessage, locals
<1>3. ASSUME NEW p \in Procs, Daemon(p)
      PROVE  LocalOK'
  <2>1. CASE DaemonInit(p) BY <1>1, <2>1 DEF DaemonInit, redis
  <2>2. CASE Poll(p) BY <1>1, <2>2 DEF Poll, redis
  <2>3. CASE RoundEnd(p) BY <1>1, <2>3 DEF RoundEnd, redis
  <2>4. ASSUME NEW q \in Queues, MigrateSingleQueue(p, q)
        PROVE  LocalOK'
    <3>1. /\ UNCHANGED <<fleet, now, known, delayQueues, mu, open, closed, daemon, pc, push>>
          /\ todo' \in {todo, [todo EXCEPT ![p] = @ \ {q}]}
      BY <2>4 DEF MigrateSingleQueue
    <3> QED BY <1>1, <3>1
  <2>5. ASSUME NEW q \in Queues, MigrateFails(p, q)
        PROVE  LocalOK'
    BY <1>1, <2>5 DEF MigrateFails, redis
  <2> QED BY <1>3, <2>1, <2>2, <2>3, <2>4, <2>5 DEF Daemon, TryMigrationDaemon, MigrateQueues
<1>4. ASSUME NEW p \in Procs, Close(p)
      PROVE  LocalOK'
  BY ZenonT(60), <1>1, <1>4 DEF Close, CloseLock, CloseClient, CloseMark, redis
<1>5. ASSUME NEW p \in Procs, NewRedisOperator(p)
      PROVE  LocalOK'
  BY <1>1, <1>5 DEF NewRedisOperator, redis
<1>6. ASSUME NEW p \in Procs, Crash(p)
      PROVE  LocalOK'
  BY <1>1, <1>6 DEF Crash, redis
<1>7. ASSUME NEW q \in Queues, GetMessage(q)
      PROVE  LocalOK'
  BY <1>1, <1>7 DEF GetMessage, locals
<1>8. CASE Tick
  BY <1>1, <1>8, DelayQueueAssumption DEF Tick, redis, locals
<1>9. CASE UNCHANGED vars
  BY <1>1, <1>9 DEF vars, redis, locals
<1> QED BY <1>1, Steps, PushStep, <1>2, <1>3, <1>4, <1>5, <1>6, <1>7, <1>8, <1>9

LEMMA IInvStep ==
    ASSUME IInv, [Next]_vars
    PROVE  IInv'
<1>1. RedisOK' /\ LocalOK' /\ CopiesOK'
  BY RedisStep, LocalStep, CopiesStep
<1>2. \A q \in Queues : Range(ready'[q]) \subseteq Msgs
  BY <1>1 DEF RedisOK, ReadyOK, Range
<1> QED BY <1>1, <1>2 DEF IInv, TypeOK, RedisOK, LocalOK

LEMMA IInvInit ==
    ASSUME Init
    PROVE  IInv
<1>1. MaxTime \in Nat /\ NoScore \in 0..NoScore /\ 0 \in 0..MaxTime /\ 0 \in 0..MaxExecs
  BY DelayQueueAssumption DEF NoScore
<1>2. TypeOK
  BY <1>1 DEF Init, TypeOK, Range
<1>3. PushOK /\ ReadyOK
  BY DEF Init, PushOK, ReadyOK
<1>4. CopiesOK
  <2> SUFFICES ASSUME NEW q \in Queues, NEW m \in Msgs
               PROVE  popped[q][m] + InReady(q, m) + Cardinality(Waiting(q, m)) <= execs[q][m]
    BY DEF CopiesOK
  <2>1. popped[q][m] = 0 /\ execs[q][m] = 0
    BY DEF Init
  <2>2. {i \in DOMAIN ready[q] : ready[q][i] = m} = {} /\ Waiting(q, m) = {}
    BY DEF Init, Waiting
  <2>3. Cardinality({}) = 0
    BY FS_EmptySet
  <2> QED BY <2>1, <2>2, <2>3 DEF InReady
<1> QED BY <1>2, <1>3, <1>4 DEF IInv

\* The invariant holds in every state.
THEOREM DelayQueueInvariant == Spec => []IInv
BY IInvInit, IInvStep, PTL DEF Spec

\* However many daemons of however many processes and packages move the same
\* queue, whatever replies of ZADD and of migrateExpiredBody are lost and
\* whenever processes end: a message is delivered at most as often as it was
\* added, the copies that still wait included.
THEOREM NothingIsDoubled == Spec => []NoDuplicate
<1>1. IInv => NoDuplicate
  BY DEF IInv, CopiesOK, NoDuplicate
<1> QED BY <1>1, DelayQueueInvariant, PTL

\* The script of migrateExpiredBody moves what is due, and nothing is moved
\* before what is due earlier in the same sorted set, whatever its limit.
THEOREM EarliestMovesFirst == Spec => EarliestFirst
<1> DEFINE Earliest ==
        \A k \in Keys, m, n \in Msgs :
            zset[k][m] # NoScore /\ zset'[k][m] = NoScore =>
                /\ zset[k][m] <= now
                /\ zset[k][n] < zset[k][m] => zset'[k][n] = NoScore
<1>1. ASSUME IInv, [Next]_vars
      PROVE  Earliest \/ UNCHANGED vars
  <2> SUFFICES ASSUME NEW k \in Keys, NEW m \in Msgs, NEW n \in Msgs,
                      zset[k][m] # NoScore, zset'[k][m] = NoScore
               PROVE  /\ zset[k][m] <= now
                      /\ zset[k][n] < zset[k][m] => zset'[k][n] = NoScore
    OBVIOUS
  <2>1. zset \in [Keys -> [Msgs -> 0..NoScore]]
    BY Scores, <1>1 DEF IInv
  <2>2. ASSUME NEW t \in Callers, ZAddOk(t) \/ ZAddLost(t)
        PROVE  FALSE
    <3>1. PICK q \in Queues, x \in Msgs, l \in Keys, s \in 0..MaxTime :
            zset' = [zset EXCEPT ![l][x] = s]
      BY <1>1, <2>2, ZAddFacts
    <3>2. s # NoScore
      BY ScoreBelow
    <3> QED BY <2>1, <3>1, <3>2
  <2>3. ASSUME NEW p \in Procs, NEW q \in Queues, MigrateSingleQueue(p, q)
        PROVE  /\ zset[k][m] <= now
               /\ zset[k][n] < zset[k][m] => zset'[k][n] = NoScore
    <3>1. PICK l \in Keys :
            zset' = [zset EXCEPT ![l] = [x \in Msgs |->
                        IF x \in Expired(l) THEN NoScore ELSE @[x]]]
      BY <1>1, <2>3, MigrateFacts
    <3>2. k = l /\ m \in Expired(k)
      BY <2>1, <3>1
    <3>3. m \in Due(k) /\ (zset[k][n] < zset[k][m] => n \in Expired(k))
      BY <1>1, <3>2, ExpiredFirst DEF IInv
    <3> QED BY <2>1, <3>1, <3>2, <3>3 DEF Due
  <2>4. ASSUME NEW t \in Callers, NEW q \in Queues, NEW x \in fleet.msgs, PushMessage(t, q, x)
        PROVE  FALSE
    BY <2>4 DEF PushMessage
  <2>5. ASSUME NEW q \in Queues, GetMessage(q)
        PROVE  FALSE
    BY <2>5 DEF GetMessage
  <2>6. ASSUME UNCHANGED counters PROVE FALSE
    BY <2>6 DEF counters
  <2> QED BY <1>1, OtherSteps, <2>2, <2>3, <2>4, <2>5, <2>6
<1> QED BY <1>1, DelayQueueInvariant, PTL DEF Spec, EarliestFirst
=============================================================================
