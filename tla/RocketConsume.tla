---------------------------- MODULE RocketConsume ----------------------------
(***************************************************************************)
(* Consuming one topic and group through a RocketMQOperator                *)
(* (src/rocketmqx/rocketmq.go): Consume, ConsumeWithChannel with its       *)
(* handler and its closer, CancelConsume and Close.                        *)
(*                                                                         *)
(* A call is one call of Consume or ConsumeWithChannel; the push consumer  *)
(* it creates, its message channel msgCh and its closer are named by it.   *)
(* The push consumer and its workers are rocketmq-client-go's.             *)
(***************************************************************************)
EXTENDS Naturals, FiniteSets

CONSTANTS
    Calls, Cancels,
    WithChannel,  \* the calls that are ConsumeWithChannel
    Workers,      \* goroutines of a push consumer that run the handler
    Capacity,     \* of msgCh (10 in the code)
    Batches,      \* bound: batches the push consumers pass to their handlers
    Closer,       \* the caller of Close
    None          \* no call

Actors == Calls \cup Cancels \cup {Closer}

ASSUME RocketAssumption ==
    /\ None \notin Calls /\ WithChannel \subseteq Calls
    /\ Calls \cap Cancels = {} /\ Closer \notin Calls \cup Cancels
    /\ Capacity \in Nat \ {0} /\ Batches \in Nat

VARIABLES
    consumers,  \* r.consumers for the key
    chClosers,  \* r.chClosers for the key
    cancelMu,   \* the call that holds r.cancelMu
    pc,         \* where each caller is
    took, fn,   \* the push consumer and the closer it has taken from the maps
    push,       \* the push consumer of a call: "none", "running" or "down"
    closer,     \* how far its closeFn is: "open", "done", "lock" or "shut"
    buf,        \* number of batches in its msgCh
    passed,     \* number of batches passed to the handlers
    inside,     \* its workers that hold mu.RLock, past the test of closed
    overlap     \* history: calls of Consume, CancelConsume and Close overlapped

maps == <<consumers, chClosers, cancelMu>>
callers == <<pc, took, fn>>
handling == <<buf, passed, inside>>
vars == <<maps, callers, push, closer, handling, overlap>>

Init ==
    /\ consumers = None /\ chClosers = None /\ cancelMu = None
    /\ pc = [a \in Actors |-> "idle"]
    /\ took = [a \in Actors |-> None]
    /\ fn = [a \in Actors |-> None]
    /\ push = [c \in Calls |-> "none"]
    /\ closer = [c \in Calls |-> "open"]
    /\ buf = [c \in Calls |-> 0]
    /\ passed = 0
    /\ inside = [c \in Calls |-> {}]
    /\ overlap = FALSE

Goto(a, l) == pc' = [pc EXCEPT ![a] = l]
Closed == pc[Closer] # "idle"                \* r.closed
CloseCh == pc[Closer] \notin {"idle", "mark"} \* r.closeCh is closed

\* The calls of Consume and CancelConsume that have not returned.
Busy == {a \in Calls \cup Cancels : pc[a] \notin {"idle", "end"}}

\* History: another call starts.
CallStarts == overlap' = (overlap \/ Busy # {})

----------------------------------------------------------------------------
\* Consume: the check of r.closed ...
Consume(c) ==
    /\ pc[c] = "idle" /\ CallStarts
    /\ Goto(c, IF Closed THEN "end" ELSE "lock")
    /\ UNCHANGED <<maps, took, fn, push, closer, handling>>

\* Mutant of Lock: the check is made without cancelMu.
LockNotTaken(c) ==
    /\ pc[c] = "lock"
    /\ Goto(c, IF consumers # None THEN "end" ELSE "start")
    /\ UNCHANGED <<maps, took, fn, push, closer, handling, overlap>>

\* ... cancelMu, and an error if the key has a consumer ...
Lock(c) ==
    /\ pc[c] = "lock" /\ cancelMu = None
    /\ IF consumers # None
       THEN Goto(c, "end") /\ UNCHANGED cancelMu
       ELSE Goto(c, "start") /\ cancelMu' = c
    /\ UNCHANGED <<consumers, chClosers, took, fn, push, closer, handling, overlap>>

\* ... createPushConsumer, Subscribe and Start ...
Start(c) ==
    /\ pc[c] = "start"
    /\ push' = [push EXCEPT ![c] = "running"]
    /\ Goto(c, "store")
    /\ UNCHANGED <<maps, took, fn, closer, handling, overlap>>

\* ... any of which may fail: what was made is shut down ...
StartFails(c) ==
    /\ pc[c] = "start"
    /\ cancelMu' = None /\ Goto(c, "end")
    /\ UNCHANGED <<consumers, chClosers, took, fn, push, closer, handling, overlap>>

\* ... and Store; cancelMu is released when Consume returns.
Store(c) ==
    /\ pc[c] = "store"
    /\ consumers' = c /\ cancelMu' = None
    /\ Goto(c, IF c \in WithChannel THEN "closer" ELSE "end")
    /\ UNCHANGED <<chClosers, took, fn, push, closer, handling, overlap>>

\* ConsumeWithChannel registers the closer ...
StoreCloser(c) ==
    /\ pc[c] = "closer"
    /\ chClosers' = c /\ Goto(c, "recheck")
    /\ UNCHANGED <<consumers, cancelMu, took, fn, push, closer, handling, overlap>>

\* ... and takes it back if the key has no consumer any more.
Recheck(c) ==
    /\ pc[c] = "recheck"
    /\ Goto(c, IF consumers = None THEN "fn" ELSE "end")
    /\ UNCHANGED <<maps, took, fn, push, closer, handling, overlap>>

----------------------------------------------------------------------------
\* CancelConsume: LoadAndDelete of the consumer ...
CancelConsume(k) ==
    /\ pc[k] = "idle" /\ CallStarts
    /\ took' = [took EXCEPT ![k] = consumers]
    /\ consumers' = None
    /\ Goto(k, IF consumers = None THEN "end" ELSE "shutdown")
    /\ UNCHANGED <<chClosers, cancelMu, fn, push, closer, handling>>

\* Mutant of Shutdown: CancelConsume returns the error before the closer.
ShutdownReturns(a) ==
    /\ pc[a] = "shutdown"
    /\ push' = [push EXCEPT ![took[a]] = "down"]
    /\ took' = [took EXCEPT ![a] = None]
    /\ Goto(a, IF a = Closer THEN "delete" ELSE "end")
    /\ UNCHANGED <<maps, fn, closer, handling, overlap>>

\* ... and its Shutdown, in Close as well.
Shutdown(a) ==
    /\ pc[a] = "shutdown"
    /\ push' = [push EXCEPT ![took[a]] = "down"]
    /\ took' = [took EXCEPT ![a] = None]
    /\ Goto(a, IF a = Closer THEN "delete" ELSE "fn")
    /\ UNCHANGED <<maps, fn, closer, handling, overlap>>

\* closeFn of d: once.Do lets the first caller close done ...
Enter(d) == closer' = [closer EXCEPT ![d] = IF @ = "open" THEN "done" ELSE @]

\* LoadAndDelete of the closer, and the call of it.
TakeCloser(a) ==
    /\ pc[a] = "fn" /\ a # Closer
    /\ fn' = [fn EXCEPT ![a] = chClosers]
    /\ chClosers' = None
    /\ IF chClosers = None
       THEN Goto(a, "end") /\ UNCHANGED closer
       ELSE Goto(a, "closing") /\ Enter(chClosers)
    /\ UNCHANGED <<consumers, cancelMu, took, push, handling, overlap>>

\* ... which asks for the write lock, and no reader gets in any more ...
AskLock(d) ==
    /\ closer[d] = "done"
    /\ closer' = [closer EXCEPT ![d] = "lock"]
    /\ UNCHANGED <<maps, callers, push, handling, overlap>>

\* Mutant of Shut: msgCh is closed without the write lock.
ShutNoLock(d) ==
    /\ closer[d] = "lock"
    /\ closer' = [closer EXCEPT ![d] = "shut"]
    /\ UNCHANGED <<maps, callers, push, handling, overlap>>

\* ... and when the readers have left sets closed and closes msgCh.
Shut(d) ==
    /\ closer[d] = "lock" /\ inside[d] = {}
    /\ closer' = [closer EXCEPT ![d] = "shut"]
    /\ UNCHANGED <<maps, callers, push, handling, overlap>>

\* once.Do returns, to everybody who called it.
CloserReturns(a) ==
    /\ pc[a] = "closing" /\ closer[fn[a]] = "shut"
    /\ fn' = [fn EXCEPT ![a] = None]
    /\ Goto(a, IF a = Closer THEN "remove" ELSE "end")
    /\ UNCHANGED <<maps, took, push, closer, handling, overlap>>

----------------------------------------------------------------------------
\* The handler of ConsumeWithChannel.  A worker that was given a batch
\* before Shutdown may run it afterwards.
HandlerEnter(c, w) ==
    /\ c \in WithChannel /\ push[c] # "none" /\ closer[c] # "lock"
    /\ w \notin inside[c] /\ passed < Batches
    /\ passed' = passed + 1
    /\ inside' = [inside EXCEPT ![c] = IF closer[c] = "shut" THEN @ ELSE @ \cup {w}]
    /\ UNCHANGED <<maps, callers, push, closer, buf, overlap>>

\* ConsumeSuccess: the batch goes into msgCh.
HandlerSend(c, w) ==
    /\ w \in inside[c] /\ buf[c] < Capacity
    /\ buf' = [buf EXCEPT ![c] = @ + 1]
    /\ inside' = [inside EXCEPT ![c] = @ \ {w}]
    /\ UNCHANGED <<maps, callers, push, closer, passed, overlap>>

\* Mutant of HandlerRetry: the case of done is missing from the select.
HandlerRetryNotDone(c, w) ==
    /\ w \in inside[c] /\ CloseCh
    /\ inside' = [inside EXCEPT ![c] = @ \ {w}]
    /\ UNCHANGED <<maps, callers, push, closer, buf, passed, overlap>>

\* ConsumeRetryLater: done or closeCh is closed.
HandlerRetry(c, w) ==
    /\ w \in inside[c] /\ (closer[c] # "open" \/ CloseCh)
    /\ inside' = [inside EXCEPT ![c] = @ \ {w}]
    /\ UNCHANGED <<maps, callers, push, closer, buf, passed, overlap>>

\* The caller of ConsumeWithChannel reads msgCh.
Receive(c) ==
    /\ buf[c] > 0
    /\ buf' = [buf EXCEPT ![c] = @ - 1]
    /\ UNCHANGED <<maps, callers, push, closer, passed, inside, overlap>>

----------------------------------------------------------------------------
\* Close: closed, closeCh and the producer ...
CloseMark ==
    /\ pc[Closer] = "idle" /\ CallStarts
    /\ Goto(Closer, "mark")
    /\ UNCHANGED <<maps, took, fn, push, closer, handling>>

CloseSignal ==
    /\ pc[Closer] = "mark" /\ Goto(Closer, "consumers")
    /\ UNCHANGED <<maps, took, fn, push, closer, handling, overlap>>

\* ... Range over the consumers: Shutdown, and Delete of the key ...
CloseConsumer ==
    /\ pc[Closer] = "consumers"
    /\ took' = [took EXCEPT ![Closer] = consumers]
    /\ Goto(Closer, IF consumers = None THEN "fn" ELSE "shutdown")
    /\ UNCHANGED <<maps, fn, push, closer, handling, overlap>>

CloseDelete ==
    /\ pc[Closer] = "delete"
    /\ consumers' = None /\ Goto(Closer, "fn")
    /\ UNCHANGED <<chClosers, cancelMu, took, fn, push, closer, handling, overlap>>

\* ... and Range over the closers: the call, and Delete of the key.
CloseCloser ==
    /\ pc[Closer] = "fn"
    /\ fn' = [fn EXCEPT ![Closer] = chClosers]
    /\ IF chClosers = None
       THEN Goto(Closer, "end") /\ UNCHANGED closer
       ELSE Goto(Closer, "closing") /\ Enter(chClosers)
    /\ UNCHANGED <<maps, took, push, handling, overlap>>

CloseRemove ==
    /\ pc[Closer] = "remove"
    /\ chClosers' = None /\ Goto(Closer, "end")
    /\ UNCHANGED <<consumers, cancelMu, took, fn, push, closer, handling, overlap>>

----------------------------------------------------------------------------
\* What runs by itself once begun.
Step ==
    \/ \E c \in Calls : \/ Lock(c) \/ Start(c) \/ StartFails(c) \/ Store(c)
                        \/ StoreCloser(c) \/ Recheck(c)
    \/ \E a \in Actors : Shutdown(a) \/ TakeCloser(a) \/ CloserReturns(a)
    \/ \E d \in Calls : AskLock(d) \/ Shut(d)
    \/ \E c \in Calls, w \in Workers : HandlerSend(c, w) \/ HandlerRetry(c, w)
    \/ CloseSignal \/ CloseConsumer \/ CloseDelete \/ CloseCloser \/ CloseRemove

Next ==
    \/ Step
    \/ \E c \in Calls : Consume(c) \/ Receive(c)
    \/ \E k \in Cancels : CancelConsume(k)
    \/ \E c \in Calls, w \in Workers : HandlerEnter(c, w)
    \/ CloseMark

\* A goroutine whose next statement can be executed executes it; nobody has
\* to call Consume, CancelConsume or Close, or to read msgCh.  Every behaviour
\* is finite up to stuttering, so fairness of the disjunction is enough.
Spec == Init /\ [][Next]_vars /\ WF_vars(Step)

----------------------------------------------------------------------------
Where == {"idle", "lock", "start", "store", "closer", "recheck", "fn",
          "closing", "shutdown", "mark", "consumers", "delete", "remove", "end"}

\* The values of the variables.
TypeOK ==
    /\ {consumers, chClosers, cancelMu} \subseteq Calls \cup {None}
    /\ pc \in [Actors -> Where]
    /\ took \in [Actors -> Calls \cup {None}]
    /\ fn \in [Actors -> Calls \cup {None}]
    /\ push \in [Calls -> {"none", "running", "down"}]
    /\ closer \in [Calls -> {"open", "done", "lock", "shut"}]
    /\ buf \in [Calls -> 0..Capacity]
    /\ passed \in 0..Batches
    /\ inside \in [Calls -> SUBSET Workers]
    /\ overlap \in BOOLEAN

\* No worker is about to send when closeFn closes msgCh, which would panic:
\* the point of the write lock (rocketmq.go:395-404).
NoSendOnClosed == \A c \in Calls : closer[c] = "shut" => inside[c] = {}

\* Until Close a running push consumer can be stopped: it is in r.consumers,
\* about to be stored there, or taken by a CancelConsume that shuts it down.
\* No Consume overwrites another's entry (the comment at rocketmq.go:345).
Reachable ==
    \A c \in Calls : push[c] = "running" /\ ~Closed =>
        \/ consumers = c \/ pc[c] = "store"
        \/ \E k \in Cancels : took[k] = c

\* Every CancelConsume and Close returns, although nobody reads msgCh and a
\* worker waits to send to it (rocketmq.go:395).
CancelEnds ==
    \A a \in Cancels \cup {Closer} : pc[a] # "idle" ~> pc[a] = "end"

\* The channel of a consumer that was stopped is closed, unless calls overlapped
\* (the comments at rocketmq.go:386 and 432).
ChannelCloses ==
    \A c \in WithChannel : push[c] = "down" ~> (closer[c] = "shut" \/ overlap)
=============================================================================
