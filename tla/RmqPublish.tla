----------------------------- MODULE RmqPublish -----------------------------
(***************************************************************************)
(* Pushing messages through the channel pools of a RabbitMQOperator        *)
(* (src/rabbitmqx/rmq.go): pushWithRetry and the four push cores, the      *)
(* publisher confirms, the two go-commons-pool pools, the per-queue locks, *)
(* the part of Consume that competes for both, and Close.                  *)
(*                                                                         *)
(* A slot is a place in a pool: free (nothing created), idle, or borrowed  *)
(* by a thread; one that panicked keeps its slot for good.                 *)
(* ch[s] is the channel in the slot: is it open, did it enter confirm      *)
(* mode, which messages are on the way to the broker and which             *)
(* confirmations wait in confirmChan.  The message of a pusher is named by *)
(* the pusher.                                                             *)
(***************************************************************************)
EXTENDS Naturals, Sequences, FiniteSets

CONSTANTS
    Pushers, Consumers, Queues,
    NoQueue,       \* a push without a queue of its own (pushExchangeCore)
    Nobody,        \* an unlocked queue lock; no slot
    Target,        \* the queue a pusher or consumer names
    Bound,         \* the queues a push binds to its exchange (BindingKeyMap)
    Delayed,       \* the pushers that use pushDelayMessageCore
    Confirming,    \* the pushers that set OpenConfirm
    ConfirmSlots, PlainSlots,   \* MaxTotal slots of each pool
    MaxIdle,       \* idle channels a pool keeps
    AttemptTimes   \* LimitConf.AttemptTimes

Threads == Pushers \cup Consumers
Slots == ConfirmSlots \cup PlainSlots

ASSUME PublishAssumption ==
    /\ AttemptTimes \in Nat \ {0}
    /\ MaxIdle \in Nat
    /\ Target \in [Threads -> Queues \cup {NoQueue}]
    /\ NoQueue \notin Queues
    /\ Bound \in [Pushers -> SUBSET Queues]
    /\ Delayed \subseteq Pushers /\ Confirming \subseteq Pushers
    /\ ConfirmSlots \cap PlainSlots = {}
    /\ Pushers \cap Consumers = {}
    /\ Nobody \notin Threads \cup Slots
    /\ IsFiniteSet(Pushers)
    /\ Threads \cap {"free", "idle"} = {}

VARIABLES
    where,      \* what each slot is used for
    ch,         \* the channel in each slot
    stored,     \* how often the broker took each message
    lock,       \* holder of each queue lock
    pc, slot,   \* where a thread is, the slot it has borrowed
    todo,       \* bound queues a push has not declared yet
    attempt,    \* failed attempts of a push
    result,     \* result of a push
    closed, closeCh, connDown, poolDown   \* progress of Close

vars == <<where, ch, stored, lock, pc, slot, todo, attempt, result,
          closed, closeCh, connDown, poolDown>>
shutdown == <<closed, closeCh, connDown, poolDown>>
channels == <<where, ch, stored>>

NewChannel(confirm) == [open |-> TRUE, confirm |-> confirm, sent |-> <<>>, confirms |-> <<>>]
NoChannel == [open |-> FALSE, confirm |-> FALSE, sent |-> <<>>, confirms |-> <<>>]

PoolOf(t) == IF t \in Confirming THEN ConfirmSlots ELSE PlainSlots
Idle(pool) == {s \in pool : where[s] = "idle"}
Goto(t, l) == pc' = [pc EXCEPT ![t] = l]

Init ==
    /\ where = [s \in Slots |-> "free"]
    /\ ch = [s \in Slots |-> NoChannel]
    /\ stored = [p \in Pushers |-> 0]
    /\ lock = [q \in Queues |-> Nobody]
    /\ pc = [t \in Threads |-> "idle"]
    /\ slot = [t \in Threads |-> Nobody]
    /\ todo = [p \in Pushers |-> {}]
    /\ attempt = [p \in Pushers |-> 0]
    /\ result = [p \in Pushers |-> "none"]
    /\ closed = FALSE /\ closeCh = FALSE /\ connDown = FALSE /\ poolDown = FALSE

----------------------------------------------------------------------------
(***************************************************************************)
(* The broker.                                                             *)
(***************************************************************************)

\* The broker has taken the first n messages on their way in slot s.
Taken(s, n) ==
    [p \in Pushers |-> stored[p] + Cardinality({i \in 1..n : ch[s].sent[i] = p})]

\* The channel in slot s ends; its buffered confirmations can still be read.
Ended(s) == [ch[s] EXCEPT !.open = FALSE, !.sent = <<>>]

\* The broker handles the next message: it stores it or refuses it, and says
\* so if the channel is in confirm mode.
BrokerTake(s) ==
    /\ ch[s].open /\ ch[s].sent # <<>>
    /\ \E ack \in BOOLEAN :
        /\ stored' = IF ack THEN Taken(s, 1) ELSE stored
        /\ ch' = [ch EXCEPT ![s].sent = Tail(@),
                            ![s].confirms = IF ch[s].confirm
                                THEN Append(@, [msg |-> Head(ch[s].sent), ack |-> ack])
                                ELSE @]
    /\ UNCHANGED <<where, lock, pc, slot, todo, attempt, result, shutdown>>

\* The broker or the network closes a channel.
ChannelDies(s) ==
    /\ ch[s].open
    /\ \E n \in 0..Len(ch[s].sent) : stored' = Taken(s, n)
    /\ ch' = [ch EXCEPT ![s] = Ended(s)]
    /\ UNCHANGED <<where, lock, pc, slot, todo, attempt, result, shutdown>>

----------------------------------------------------------------------------
(***************************************************************************)
(* BorrowChannel and PushChannel.                                          *)
(***************************************************************************)

Take(t, s) == where' = [where EXCEPT ![s] = t] /\ slot' = [slot EXCEPT ![t] = s]

\* A pooled channel that is still open.
BorrowIdle(t, s) ==
    /\ ~poolDown /\ s \in Idle(PoolOf(t)) /\ ch[s].open
    /\ Take(t, s)
    /\ UNCHANGED ch

\* activateChannel: a pooled channel that is closed is replaced by recheck,
\* which registers confirmChan again but never calls Confirm.
BorrowRebuilt(t, s) ==
    /\ ~poolDown /\ s \in Idle(PoolOf(t)) /\ ~ch[s].open /\ ~connDown
    /\ Take(t, s)
    /\ ch' = [ch EXCEPT ![s] = NewChannel(FALSE)]

\* createChannel, when nothing is idle and the pool is not exhausted.
BorrowCreated(t, s) ==
    /\ ~poolDown /\ Idle(PoolOf(t)) = {}
    /\ s \in PoolOf(t) /\ where[s] = "free" /\ ~connDown
    /\ Take(t, s)
    /\ ch' = [ch EXCEPT ![s] = NewChannel(s \in ConfirmSlots)]

Borrowed(t, s) == BorrowIdle(t, s) \/ BorrowRebuilt(t, s) \/ BorrowCreated(t, s)

\* createChannel fails, or the pool is closed.
BorrowFails(t) ==
    \/ poolDown
    \/ Idle(PoolOf(t)) = {} /\ \E s \in PoolOf(t) : where[s] = "free"

\* recheck fails for a pooled channel: the pool destroys it and goes on.
BorrowDestroys(t, s) ==
    /\ pc[t] = "borrow"
    /\ ~poolDown /\ s \in Idle(PoolOf(t)) /\ ~ch[s].open
    /\ where' = [where EXCEPT ![s] = "free"]
    /\ ch' = [ch EXCEPT ![s] = NoChannel]
    /\ UNCHANGED <<stored, lock, pc, slot, todo, attempt, result, shutdown>>

\* The deferred unlocks of thread t.
Released(t) == [q \in Queues |-> IF lock[q] = t THEN Nobody ELSE lock[q]]

\* A failed dial of another thread has left the connection nil, and recheck for
\* a pooled channel that is closed, or createChannel behind its own check, calls
\* Channel on it.  pushWithRetry and the goroutine of Consume recover the panic,
\* Consume passes it on; nobody has the borrowed object to give it back.
BorrowPanics(t) ==
    /\ pc[t] = "borrow" /\ ~poolDown
    /\ \E s \in PoolOf(t) :
        /\ \/ where[s] = "idle" /\ ~ch[s].open
           \/ where[s] = "free" /\ Idle(PoolOf(t)) = {} /\ ~connDown
        /\ Take(t, s)
    /\ lock' = Released(t)
    /\ Goto(t, "panicked")
    /\ result' = [p \in Pushers |-> IF p = t THEN "error" ELSE result[p]]
    /\ UNCHANGED <<ch, stored, todo, attempt, shutdown>>

\* PushChannel: a closed channel is invalidated, an open one becomes idle,
\* unless the pool is closed or has enough idle channels and destroys it.
GiveBack(t) ==
    LET s == slot[t] IN
    /\ slot' = [slot EXCEPT ![t] = Nobody]
    /\ IF ch[s].open /\ ~poolDown /\ Cardinality(Idle(PoolOf(t))) < MaxIdle
       THEN /\ where' = [where EXCEPT ![s] = "idle"]
            /\ UNCHANGED <<ch, stored>>
       ELSE /\ where' = [where EXCEPT ![s] = "free"]
            /\ ch' = [ch EXCEPT ![s] = NoChannel]
            /\ \E n \in 0..Len(ch[s].sent) : stored' = Taken(s, n)

----------------------------------------------------------------------------
(***************************************************************************)
(* A push.                                                                 *)
(***************************************************************************)

\* pushWithRetry is called, or starts another attempt.
PushBegin(p) ==
    /\ pc[p] = "idle"
    /\ Goto(p, "try")
    /\ UNCHANGED <<channels, lock, slot, todo, attempt, result, shutdown>>

PushTry(p) ==
    /\ pc[p] = "try"
    /\ IF closed
       THEN Goto(p, "done") /\ result' = [result EXCEPT ![p] = "closed"]
       ELSE Goto(p, "borrow") /\ UNCHANGED result
    /\ UNCHANGED <<channels, lock, slot, todo, attempt, shutdown>>

\* The push declares an exchange (pushExchangeCore, pushDelayMessageCore, and
\* pushCore when it is given one).
HasExchange(p) == p \in Delayed \/ Target[p] = NoQueue \/ Bound[p] # {}

PushBorrow(p) ==
    /\ pc[p] = "borrow"
    /\ \E s \in Slots : Borrowed(p, s)
    /\ todo' = [todo EXCEPT ![p] = Bound[p]]
    /\ Goto(p, IF HasExchange(p) /\ p \notin Delayed THEN "exchange" ELSE "topology")
    /\ UNCHANGED <<stored, lock, attempt, result, shutdown>>

PushBorrowFails(p) ==
    /\ pc[p] = "borrow" /\ BorrowFails(p)
    /\ Goto(p, "wait")
    /\ UNCHANGED <<channels, lock, slot, todo, attempt, result, shutdown>>

\* DeclareExchange, which needs no queue lock.
DeclareExchange(p) ==
    /\ pc[p] = "exchange"
    /\ \E l \in {"topology", "unlock"} : Goto(p, l)
    /\ UNCHANGED <<channels, lock, slot, todo, attempt, result, shutdown>>

\* The lock of the queue the push names: pushDelayMessageCore takes it before
\* it binds the other queues, pushQueueCore and pushCore after.  What is
\* declared under it first may fail.
Holds(p) == Target[p] \in Queues /\ lock[Target[p]] = p

\* Mutant of HoldTarget: pushCore, too, locks its queue before it binds others.
HoldTargetFirst(p) ==
    /\ pc[p] = "topology"
    /\ Target[p] \in Queues /\ ~Holds(p)
    /\ lock[Target[p]] = Nobody
    /\ lock' = [lock EXCEPT ![Target[p]] = p]
    /\ \E l \in {"topology", "unlock"} : Goto(p, l)
    /\ UNCHANGED <<channels, slot, todo, attempt, result, shutdown>>

HoldTarget(p) ==
    /\ pc[p] = "topology"
    /\ Target[p] \in Queues /\ ~Holds(p)
    /\ p \in Delayed \/ todo[p] = {}
    /\ lock[Target[p]] = Nobody
    /\ lock' = [lock EXCEPT ![Target[p]] = p]
    /\ \E l \in {"topology", "unlock"} : Goto(p, l)
    /\ UNCHANGED <<channels, slot, todo, attempt, result, shutdown>>

\* One iteration over BindingKeyMap: lock the queue, declare and bind, unlock.
BindLock(p, q) ==
    /\ pc[p] = "topology"
    /\ q \in todo[p]
    /\ p \in Delayed => Holds(p)
    /\ lock[q] = Nobody
    /\ lock' = [lock EXCEPT ![q] = p]
    /\ Goto(p, "bind")
    /\ UNCHANGED <<channels, slot, todo, attempt, result, shutdown>>

\* Mutant of BindUnlock: a failed declaration keeps the lock of the bound queue.
BindUnlockKeepsLock(p, q) ==
    /\ pc[p] = "bind"
    /\ q \in todo[p] /\ lock[q] = p
    /\ \/ /\ lock' = [lock EXCEPT ![q] = Nobody]
          /\ todo' = [todo EXCEPT ![p] = @ \ {q}] /\ Goto(p, "topology")
       \/ UNCHANGED <<lock, todo>> /\ Goto(p, "return")
    /\ UNCHANGED <<channels, slot, attempt, result, shutdown>>

BindUnlock(p, q) ==
    /\ pc[p] = "bind"
    /\ q \in todo[p] /\ lock[q] = p /\ (p \in Delayed => q # Target[p])
    /\ lock' = [lock EXCEPT ![q] = Nobody]
    /\ \/ todo' = [todo EXCEPT ![p] = @ \ {q}] /\ Goto(p, "topology")
       \/ UNCHANGED todo /\ Goto(p, "unlock")
    /\ UNCHANGED <<channels, slot, attempt, result, shutdown>>

\* PublishWithContext hands the message to the channel; without OpenConfirm
\* that is a success.
Publish(p) ==
    /\ pc[p] = "topology" /\ todo[p] = {}
    /\ Target[p] \in Queues => Holds(p)
    /\ ch[slot[p]].open
    /\ ch' = [ch EXCEPT ![slot[p]].sent = Append(@, p)]
    /\ IF p \in Confirming
       THEN Goto(p, "confirm") /\ UNCHANGED result
       ELSE Goto(p, "unlock") /\ result' = [result EXCEPT ![p] = "ok"]
    /\ UNCHANGED <<where, stored, lock, slot, todo, attempt, shutdown>>

\* PublishWithContext returns an error.
PublishFails(p) ==
    /\ pc[p] = "topology" /\ todo[p] = {}
    /\ Target[p] \in Queues => Holds(p)
    /\ Goto(p, "unlock")
    /\ UNCHANGED <<channels, lock, slot, todo, attempt, result, shutdown>>

\* confirmOne: whatever confirmation comes first is taken for this message.
ConfirmRecv(p) ==
    /\ pc[p] = "confirm" /\ ch[slot[p]].confirms # <<>>
    /\ ch' = [ch EXCEPT ![slot[p]].confirms = Tail(@)]
    /\ IF Head(ch[slot[p]].confirms).ack
       THEN result' = [result EXCEPT ![p] = "ok"]
       ELSE UNCHANGED result
    /\ Goto(p, "unlock")
    /\ UNCHANGED <<where, stored, lock, slot, todo, attempt, shutdown>>

\* confirmChan was closed with the channel, or the operator is closed.
ConfirmEnds(p) ==
    /\ pc[p] = "confirm"
    /\ closeCh \/ (ch[slot[p]].confirms = <<>> /\ ~ch[slot[p]].open)
    /\ Goto(p, "unlock")
    /\ UNCHANGED <<channels, lock, slot, todo, attempt, result, shutdown>>

\* Mutant of ConfirmTimeout: the channel is given back open.
ConfirmTimeoutKeepsChannel(p) ==
    /\ pc[p] = "confirm"
    /\ Goto(p, "unlock")
    /\ UNCHANGED <<channels, lock, slot, todo, attempt, result, shutdown>>

\* Mutant of ConfirmTimeout: only the end of the connection ends the wait.
ConfirmHasNoTimeout(p) ==
    /\ pc[p] = "confirm" /\ connDown
    /\ ch' = [ch EXCEPT ![slot[p]] = Ended(slot[p])]
    /\ Goto(p, "unlock")
    /\ UNCHANGED <<where, stored, lock, slot, todo, attempt, result, shutdown>>

ConfirmTimeout(p) ==
    /\ pc[p] = "confirm"
    /\ \E n \in 0..Len(ch[slot[p]].sent) : stored' = Taken(slot[p], n)
    /\ ch' = [ch EXCEPT ![slot[p]] = Ended(slot[p])]
    /\ Goto(p, "unlock")
    /\ UNCHANGED <<where, lock, slot, todo, attempt, result, shutdown>>

\* The deferred calls: unlock the queue, then return the channel.
Unlock(p) ==
    /\ pc[p] = "unlock"
    /\ lock' = Released(p)
    /\ Goto(p, "return")
    /\ UNCHANGED <<channels, slot, todo, attempt, result, shutdown>>

Return(p) ==
    /\ pc[p] = "return"
    /\ GiveBack(p)
    /\ todo' = [todo EXCEPT ![p] = {}]
    /\ Goto(p, IF result[p] = "ok" THEN "done" ELSE "wait")
    /\ UNCHANGED <<lock, attempt, result, shutdown>>

\* Between two attempts.
RetryTick(p) ==
    /\ pc[p] = "wait"
    /\ attempt' = [attempt EXCEPT ![p] = @ + 1]
    /\ IF attempt[p] + 1 < AttemptTimes
       THEN Goto(p, "try") /\ UNCHANGED result
       ELSE Goto(p, "done") /\ result' = [result EXCEPT ![p] = "error"]
    /\ UNCHANGED <<channels, lock, slot, todo, shutdown>>

RetryClosed(p) ==
    /\ pc[p] = "wait" /\ closeCh
    /\ result' = [result EXCEPT ![p] = "closed"]
    /\ Goto(p, "done")
    /\ UNCHANGED <<channels, lock, slot, todo, attempt, shutdown>>

----------------------------------------------------------------------------
(***************************************************************************)
(* A consumer: Consume holds the queue lock while it borrows a channel;    *)
(* its goroutine keeps the channel and replaces it, without the lock, when *)
(* the channel is closed.                                                  *)
(***************************************************************************)

ConsumeLock(c) ==
    /\ pc[c] = "idle" /\ ~closed
    /\ lock[Target[c]] = Nobody
    /\ lock' = [lock EXCEPT ![Target[c]] = c]
    /\ Goto(c, "ready")
    /\ UNCHANGED <<channels, slot, todo, attempt, result, shutdown>>

\* The consumer's channel, if any, is closed and invalidated.
Discard(c) ==
    /\ where' = [s \in Slots |-> IF s = slot[c] THEN "free" ELSE where[s]]
    /\ ch' = [s \in Slots |-> IF s = slot[c] THEN NoChannel ELSE ch[s]]
    /\ slot' = [slot EXCEPT ![c] = Nobody]

\* consumeCore finds the operator ready and gives up the previous channel.
ConsumeReady(c) ==
    /\ pc[c] = "ready" /\ ~closeCh
    /\ Discard(c)
    /\ Goto(c, "borrow")
    /\ UNCHANGED <<stored, lock, todo, attempt, result, shutdown>>

ConsumeBorrow(c) ==
    /\ pc[c] = "borrow"
    /\ \E s \in Slots : Borrowed(c, s)
    /\ Goto(c, "setup")
    /\ UNCHANGED <<stored, lock, todo, attempt, result, shutdown>>

\* recheck, DeclareQueue, BindQueue, Qos and Consume on the channel.
ConsumeOk(c) ==
    /\ pc[c] = "setup" /\ ~connDown
    /\ ch' = [ch EXCEPT ![slot[c]].open = TRUE]
    /\ lock' = Released(c)
    /\ Goto(c, "consuming")
    /\ UNCHANGED <<where, stored, slot, todo, attempt, result, shutdown>>

\* consumeCore fails: not ready, nothing borrowed, or an error on the channel.
\* Consume gives the channel up and returns the error; the goroutine keeps it
\* until its next try.
ConsumeFails(c) ==
    /\ \/ pc[c] \in {"ready", "setup"}
       \/ pc[c] = "borrow" /\ BorrowFails(c)
    /\ lock' = Released(c)
    /\ IF lock[Target[c]] = c
       THEN Discard(c) /\ Goto(c, "idle")
       ELSE UNCHANGED <<where, ch, slot>> /\ Goto(c, "retry")
    /\ UNCHANGED <<stored, todo, attempt, result, shutdown>>

\* recheck panics with the channel borrowed.  The deferred call of the goroutine
\* gives it up; Consume does that for an error only and keeps the slot.
SetupPanics(c) ==
    /\ pc[c] = "setup" /\ ~ch[slot[c]].open
    /\ lock' = Released(c)
    /\ IF lock[Target[c]] = c
       THEN UNCHANGED <<where, ch, slot>> /\ Goto(c, "panicked")
       ELSE Discard(c) /\ Goto(c, "idle")
    /\ UNCHANGED <<stored, todo, attempt, result, shutdown>>

\* The goroutine notices that its channel is closed, or tries again.
Reconsume(c) ==
    /\ pc[c] = "retry" \/ (pc[c] = "consuming" /\ ~ch[slot[c]].open)
    /\ Goto(c, "ready")
    /\ UNCHANGED <<channels, lock, slot, todo, attempt, result, shutdown>>

\* CancelQueue or Close: the goroutine closes its channel and invalidates it.
ConsumeEnds(c) ==
    /\ pc[c] \in {"consuming", "retry"}
    /\ Discard(c)
    /\ Goto(c, "idle")
    /\ UNCHANGED <<stored, lock, todo, attempt, result, shutdown>>

----------------------------------------------------------------------------
(***************************************************************************)
(* Close.                                                                  *)
(***************************************************************************)

CloseMark == /\ ~closed
             /\ closed' = TRUE
             /\ UNCHANGED <<channels, lock, pc, slot, todo, attempt, result,
                            closeCh, connDown, poolDown>>

CloseSignal == /\ closed /\ ~closeCh
               /\ closeCh' = TRUE
               /\ UNCHANGED <<channels, lock, pc, slot, todo, attempt, result,
                              closed, connDown, poolDown>>

\* The connection is closed and with it every channel; how much of what was
\* under way the broker still took differs from channel to channel.
CloseConn ==
    /\ closeCh /\ ~connDown
    /\ connDown' = TRUE
    /\ \E n \in [Slots -> 0..Cardinality(Pushers)] :
        /\ \A s \in Slots : n[s] <= Len(ch[s].sent)
        /\ stored' = [p \in Pushers |-> stored[p] +
              Cardinality({x \in Slots \X (1..Cardinality(Pushers)) :
                             x[2] <= n[x[1]] /\ ch[x[1]].sent[x[2]] = p})]
    /\ ch' = [s \in Slots |-> Ended(s)]
    /\ UNCHANGED <<where, lock, pc, slot, todo, attempt, result, closed, closeCh, poolDown>>

ClosePools ==
    /\ connDown /\ ~poolDown
    /\ poolDown' = TRUE
    /\ where' = [s \in Slots |-> IF where[s] = "idle" THEN "free" ELSE where[s]]
    /\ UNCHANGED <<ch, stored, lock, pc, slot, todo, attempt, result, closed, closeCh, connDown>>

Close == CloseMark \/ CloseSignal \/ CloseConn \/ ClosePools

----------------------------------------------------------------------------
\* What a push in progress can do.
PushStep(p) ==
    \/ PushTry(p) \/ PushBorrow(p) \/ PushBorrowFails(p) \/ BorrowPanics(p)
    \/ \E s \in Slots : BorrowDestroys(p, s)
    \/ DeclareExchange(p) \/ HoldTarget(p)
    \/ \E q \in Queues : BindLock(p, q) \/ BindUnlock(p, q)
    \/ Publish(p) \/ PublishFails(p)
    \/ ConfirmRecv(p) \/ ConfirmEnds(p) \/ ConfirmTimeout(p)
    \/ Unlock(p) \/ Return(p) \/ RetryTick(p) \/ RetryClosed(p)

\* What a consumer does until it has a channel, ConsumeLock apart.
SetupStep(c) ==
    \/ ConsumeReady(c) \/ ConsumeBorrow(c) \/ ConsumeOk(c) \/ ConsumeFails(c)
    \/ BorrowPanics(c) \/ SetupPanics(c) \/ \E s \in Slots : BorrowDestroys(c, s)

Next ==
    \/ \E s \in Slots : BrokerTake(s) \/ ChannelDies(s)
    \/ \E p \in Pushers : PushBegin(p) \/ PushStep(p)
    \/ \E c \in Consumers : ConsumeLock(c) \/ SetupStep(c) \/ Reconsume(c) \/ ConsumeEnds(c)
    \/ Close

Spec == Init /\ [][Next]_vars

----------------------------------------------------------------------------
(***************************************************************************)
(* Properties.                                                             *)
(***************************************************************************)

Messages == UNION {[1..n -> Pushers] : n \in 0..Cardinality(Pushers)}
Confirms == UNION {[1..n -> [msg : Pushers, ack : BOOLEAN]] : n \in 0..Cardinality(Pushers)}

\* Every variable has its type.
TypeOK ==
    /\ where \in [Slots -> {"free", "idle"} \cup Threads]
    /\ \A s \in Slots :
        /\ ch[s].open \in BOOLEAN /\ ch[s].confirm \in BOOLEAN
        /\ ch[s].sent \in Messages /\ ch[s].confirms \in Confirms
    /\ stored \in [Pushers -> 0..AttemptTimes]
    /\ lock \in [Queues -> Threads \cup {Nobody}]
    /\ slot \in [Threads -> Slots \cup {Nobody}]
    /\ todo \in [Pushers -> SUBSET Queues]
    /\ attempt \in [Pushers -> 0..AttemptTimes]
    /\ result \in [Pushers -> {"none", "ok", "error", "closed"}]
    /\ {closed, closeCh, connDown, poolDown} \subseteq BOOLEAN

\* While the operator is open, a push in confirm mode reports success only for
\* a message the broker has stored: no confirmation of an earlier message that
\* came late through the same channel is taken for it.
ConfirmedIsStored ==
    [][\A p \in Confirming :
        result[p] # "ok" /\ result'[p] = "ok" /\ ~closed => stored[p] > 0]_vars

\* Whatever error it met, a push or a consumer that has ended holds no channel of
\* a pool and no queue lock; one that ended in a panic over the nil connection
\* holds no lock either, but keeps the slot it had just taken, at most one, for
\* good: nothing gives it back.  The attempts of a push have stored, or may still
\* store, its message at most AttemptTimes times.  (And every variable has its
\* type.)
NothingHeld ==
    /\ TypeOK
    /\ \A p \in Pushers :
        stored[p] + Cardinality({x \in Slots \X (1..Cardinality(Pushers)) :
            x[2] <= Len(ch[x[1]].sent) /\ ch[x[1]].sent[x[2]] = p}) <= AttemptTimes
    /\ \A t \in Threads : pc[t] \in {"idle", "done", "wait", "panicked"} =>
        /\ \A q \in Queues : lock[q] # t
        /\ \A s \in Slots : where[s] = t => pc[t] = "panicked" /\ s = slot[t]

\* A slot of the thread's pool can be had, or the pool is closed.
CanBorrow(t) == poolDown \/ \E s \in PoolOf(t) : where[s] \in {"free", "idle"}

\* Push p waits for nobody.
CanGoOn(p) ==
    \/ pc[p] \in {"try", "exchange", "bind", "confirm", "unlock", "return", "wait"}
    \/ pc[p] = "borrow" /\ CanBorrow(p)
    \/ /\ pc[p] = "topology"
       /\ \/ todo[p] = {} /\ (Target[p] \in Queues => Holds(p))
          \/ /\ Target[p] \in Queues /\ lock[Target[p]] = Nobody
             /\ p \in Delayed \/ todo[p] = {}
          \/ \E q \in todo[p] : lock[q] = Nobody /\ (p \in Delayed => Holds(p))

\* Nor does consumer c.
CanSetUp(c) == pc[c] \in {"ready", "setup"} \/ (pc[c] = "borrow" /\ CanBorrow(c))

\* The slots that panics have kept.
Kept == {s \in Slots : \E t \in Threads : where[s] = t /\ pc[t] = "panicked"}

\* As long as a push is in progress and panics have not kept every slot of the
\* confirm pool, some push, or a consumer that holds the lock of its queue, waits
\* neither for a slot of a pool (BorrowObject) nor for a queue lock that another
\* one holds.
NobodyWaits ==
    (\E p \in Pushers : pc[p] \notin {"idle", "done", "panicked"})
    /\ (Confirming # {} => ConfirmSlots \ Kept # {})
        => \/ \E p \in Pushers : CanGoOn(p)
           \/ \E c \in Consumers : lock[Target[c]] = c /\ CanSetUp(c)

\* Who waits for nobody can go on by itself, whatever the broker leaves
\* unanswered.  (The steps of a push and of one setup are bounded, so with NobodyWaits
\* nobody waits for ever.)
NobodyIsStuck ==
    /\ \A p \in Pushers : CanGoOn(p) => ENABLED PushStep(p)
    /\ \A c \in Consumers : CanSetUp(c) => ENABLED SetupStep(c)

\* The plain pool has a slot for everybody who keeps one while waiting for another
\* thing: a consumer for as long as it consumes, a push that sets no OpenConfirm,
\* and among both those that end in a panic and keep it for good.
PoolsSuffice ==
    /\ IsFiniteSet(PlainSlots) /\ IsFiniteSet(Consumers)
    /\ Cardinality(PlainSlots) >= Cardinality(Consumers \cup (Pushers \ Confirming))

\* The queue of a delayed push, named potato_delay_queue and its exchange, is
\* none that a delayed push binds.
DelayQueuesApart ==
    \A p, r \in Delayed : Target[p] \in Queues /\ Target[p] \notin Bound[r]
=============================================================================
