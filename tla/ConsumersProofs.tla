--------------------------- MODULE ConsumersProofs ---------------------------
(***************************************************************************)
(* Proofs about the consumers of both operators, for any number of calls,  *)
(* cancellers and workers and any capacity: no worker of a push consumer   *)
(* sends on a closed channel, and until Close every running push consumer  *)
(* can be stopped; the cancel channel in RabbitMQOperator's map has a      *)
(* listener, and none is closed twice.                                     *)
(***************************************************************************)
EXTENDS Consumers, TLAPS

----------------------------------------------------------------------------
(***************************************************************************)
(* RocketMQOperator.                                                       *)
(***************************************************************************)

\* cancelMu is held from the check of r.consumers to the store, and the key
\* has no consumer meanwhile: everybody else only removes entries.
Registering(c) == pc[c] \in {"start", "store"}
MuHeld == \A c \in Calls : Registering(c) => cancelMu = c /\ consumers = None

\* CancelConsume holds a consumer exactly while it is about to shut it down.
Holding == \A k \in Cancels : took[k] # None => pc[k] = "shutdown"

IInv == TypeOK /\ NoSendOnClosed /\ MuHeld /\ Holding /\ Reachable

----------------------------------------------------------------------------
\* The initial state satisfies the invariant: no push consumer exists.
LEMMA Initially == Init => IInv
<1> SUFFICES ASSUME Init PROVE IInv
  OBVIOUS
<1>1. TypeOK
  <2>1. passed \in 0..Batches /\ buf \in [Calls -> 0..Capacity]
    BY RocketAssumption DEF Init
  <2>2. pc \in [Actors -> Where]
    BY DEF Init, Where
  <2>3. overlap \in BOOLEAN
    BY DEF Init
  <2> QED
    BY <2>1, <2>2, <2>3 DEF Init, TypeOK
<1>2. NoSendOnClosed /\ MuHeld /\ Holding /\ Reachable
  BY RocketAssumption DEF Init, NoSendOnClosed, MuHeld, Registering, Holding, Reachable, Actors
<1> QED
  BY <1>1, <1>2 DEF IInv

\* The history variable stays a Boolean when a call starts.
LEMMA CallStartsType == CallStarts => overlap' \in BOOLEAN
BY DEF CallStarts

\* No step leaves the types of the variables.
LEMMA TypeStep == TypeOK /\ [Next]_vars => TypeOK'
<1> SUFFICES ASSUME TypeOK, [Next]_vars PROVE TypeOK'
  OBVIOUS
<1> USE RocketAssumption DEF TypeOK, maps, callers, handling, Goto, Actors, Where
<1>1. ASSUME NEW c \in Calls, Consume(c) PROVE TypeOK'
  BY <1>1, CallStartsType DEF Consume
<1>2. ASSUME NEW c \in Calls, Lock(c) PROVE TypeOK'
  BY <1>2 DEF Lock
<1>3. ASSUME NEW c \in Calls, Start(c) PROVE TypeOK'
  BY <1>3 DEF Start
<1>4. ASSUME NEW c \in Calls, StartFails(c) PROVE TypeOK'
  BY <1>4 DEF StartFails
<1>5. ASSUME NEW c \in Calls, Store(c) PROVE TypeOK'
  BY <1>5 DEF Store
<1>6. ASSUME NEW c \in Calls, StoreCloser(c) PROVE TypeOK'
  BY <1>6 DEF StoreCloser
<1>7. ASSUME NEW c \in Calls, Recheck(c) PROVE TypeOK'
  BY <1>7 DEF Recheck
<1>8. ASSUME NEW a \in Actors, Shutdown(a) PROVE TypeOK'
  BY <1>8 DEF Shutdown
<1>9. ASSUME NEW a \in Actors, TakeCloser(a) PROVE TypeOK'
  BY <1>9 DEF TakeCloser, Enter
<1>10. ASSUME NEW a \in Actors, CloserReturns(a) PROVE TypeOK'
  BY <1>10 DEF CloserReturns
<1>11. ASSUME NEW d \in Calls, AskLock(d) PROVE TypeOK'
  BY <1>11 DEF AskLock
<1>12. ASSUME NEW d \in Calls, Shut(d) PROVE TypeOK'
  BY <1>12 DEF Shut
<1>13. ASSUME NEW c \in Calls, NEW w \in Workers, HandlerEnter(c, w) PROVE TypeOK'
  BY <1>13 DEF HandlerEnter
<1>14. ASSUME NEW c \in Calls, NEW w \in Workers, HandlerSend(c, w) PROVE TypeOK'
  BY <1>14 DEF HandlerSend
<1>15. ASSUME NEW c \in Calls, NEW w \in Workers, HandlerRetry(c, w) PROVE TypeOK'
  BY <1>15 DEF HandlerRetry
<1>16. ASSUME NEW c \in Calls, Receive(c) PROVE TypeOK'
  BY <1>16 DEF Receive
<1>17. ASSUME NEW k \in Cancels, CancelConsume(k) PROVE TypeOK'
  BY <1>17, CallStartsType DEF CancelConsume
<1>18. CASE CloseMark \/ CloseSignal
  BY <1>18, CallStartsType DEF CloseMark, CloseSignal
<1>19. CASE CloseConsumer \/ CloseDelete
  BY <1>19 DEF CloseConsumer, CloseDelete
<1>20. CASE CloseCloser \/ CloseRemove
  BY <1>20 DEF CloseCloser, CloseRemove, Enter
<1>21. CASE UNCHANGED vars
  BY <1>21 DEF vars
<1> QED
  BY <1>1, <1>2, <1>3, <1>4, <1>5, <1>6, <1>7, <1>8, <1>9, <1>10, <1>11, <1>12, <1>13,
     <1>14, <1>15, <1>16, <1>17, <1>18, <1>19, <1>20, <1>21 DEF Next, Step

\* Only Shut closes msgCh, when nobody holds the read lock; a worker that
\* takes the read lock afterwards sees closed and leaves.
LEMMA SendStep == TypeOK /\ NoSendOnClosed /\ [Next]_vars => NoSendOnClosed'
<1> SUFFICES ASSUME TypeOK, NoSendOnClosed, [Next]_vars PROVE NoSendOnClosed'
  OBVIOUS
<1> USE DEF TypeOK, NoSendOnClosed, maps, callers, handling
<1>1. CASE UNCHANGED <<closer, inside>>
  BY <1>1
<1>2. ASSUME NEW d \in Calls, closer' = [closer EXCEPT ![d] = IF @ = "open" THEN "done" ELSE @],
             UNCHANGED inside
      PROVE  NoSendOnClosed'
  BY <1>2
<1>3. ASSUME NEW a \in Actors, TakeCloser(a) PROVE NoSendOnClosed'
  BY <1>1, <1>2, <1>3 DEF TakeCloser, Enter
<1>4. CASE CloseCloser
  BY <1>1, <1>2, <1>4 DEF CloseCloser, Enter
<1>5. ASSUME NEW d \in Calls, AskLock(d) PROVE NoSendOnClosed'
  BY <1>5 DEF AskLock
<1>6. ASSUME NEW d \in Calls, Shut(d) PROVE NoSendOnClosed'
  BY <1>6 DEF Shut
<1>7. ASSUME NEW c \in Calls, NEW w \in Workers, HandlerEnter(c, w) PROVE NoSendOnClosed'
  BY <1>7 DEF HandlerEnter
<1>8. ASSUME NEW c \in Calls, NEW w \in Workers, HandlerSend(c, w) PROVE NoSendOnClosed'
  BY <1>8 DEF HandlerSend
<1>9. ASSUME NEW c \in Calls, NEW w \in Workers, HandlerRetry(c, w) PROVE NoSendOnClosed'
  BY <1>9 DEF HandlerRetry
<1>10. ASSUME NEW c \in Calls,
              \/ Consume(c) \/ Lock(c) \/ Start(c) \/ StartFails(c) \/ Store(c)
              \/ StoreCloser(c) \/ Recheck(c) \/ Receive(c)
       PROVE  NoSendOnClosed'
  BY <1>1, <1>10 DEF Consume, Lock, Start, StartFails, Store, StoreCloser, Recheck, Receive
<1>11. ASSUME NEW a \in Actors, Shutdown(a) \/ CloserReturns(a) PROVE NoSendOnClosed'
  BY <1>1, <1>11 DEF Shutdown, CloserReturns
<1>12. ASSUME NEW k \in Cancels, CancelConsume(k) PROVE NoSendOnClosed'
  BY <1>1, <1>12 DEF CancelConsume
<1>13. CASE CloseMark \/ CloseSignal \/ CloseConsumer \/ CloseDelete \/ CloseRemove
  BY <1>1, <1>13 DEF CloseMark, CloseSignal, CloseConsumer, CloseDelete, CloseRemove
<1>14. CASE UNCHANGED vars
  BY <1>1, <1>14 DEF vars
<1> QED
  BY <1>3, <1>4, <1>5, <1>6, <1>7, <1>8, <1>9, <1>10, <1>11, <1>12, <1>13, <1>14
  DEF Next, Step

\* Consume registers under cancelMu, CancelConsume takes what it removes.
LEMMA ReachStep == IInv /\ [Next]_vars => MuHeld' /\ Holding' /\ Reachable'
<1> DEFINE Goal == MuHeld' /\ Holding' /\ Reachable'
<1> SUFFICES ASSUME IInv, [Next]_vars PROVE Goal
  OBVIOUS
<1> USE RocketAssumption DEF IInv, TypeOK, MuHeld, Registering, Holding, Reachable, Closed,
    maps, callers, handling, Goto, Actors, Where
<1>1. CASE UNCHANGED <<maps, callers, push>>
  BY <1>1
<1>2. ASSUME NEW c \in Calls, Consume(c) PROVE Goal
  BY <1>2 DEF Consume
<1>3. ASSUME NEW c \in Calls, Lock(c) PROVE Goal
  BY <1>3 DEF Lock
<1>4. ASSUME NEW c \in Calls, Start(c) PROVE Goal
  BY <1>4 DEF Start
<1>5. ASSUME NEW c \in Calls, StartFails(c) PROVE Goal
  BY <1>5 DEF StartFails
<1>6. ASSUME NEW c \in Calls, Store(c) PROVE Goal
  BY <1>6 DEF Store
<1>7. ASSUME NEW c \in Calls, StoreCloser(c) \/ Recheck(c) PROVE Goal
  BY <1>7 DEF StoreCloser, Recheck
<1>8. ASSUME NEW k \in Cancels, CancelConsume(k) PROVE Goal
  BY <1>8 DEF CancelConsume
<1>9. ASSUME NEW a \in Actors, Shutdown(a) PROVE Goal
  BY <1>9 DEF Shutdown
<1>10. ASSUME NEW a \in Actors, TakeCloser(a) \/ CloserReturns(a) PROVE Goal
  BY <1>10 DEF TakeCloser, CloserReturns
<1>11. CASE CloseMark \/ CloseSignal \/ CloseConsumer \/ CloseDelete \/ CloseCloser \/ CloseRemove
  BY <1>11 DEF CloseMark, CloseSignal, CloseConsumer, CloseDelete, CloseCloser, CloseRemove
<1>12. ASSUME NEW d \in Calls, AskLock(d) \/ Shut(d) \/ Receive(d) PROVE Goal
  BY <1>1, <1>12 DEF AskLock, Shut, Receive
<1>13. ASSUME NEW c \in Calls, NEW w \in Workers,
              HandlerEnter(c, w) \/ HandlerSend(c, w) \/ HandlerRetry(c, w)
       PROVE  Goal
  BY <1>1, <1>13 DEF HandlerEnter, HandlerSend, HandlerRetry
<1>14. CASE UNCHANGED vars
  BY <1>1, <1>14 DEF vars
<1> QED
  BY <1>2, <1>3, <1>4, <1>5, <1>6, <1>7, <1>8, <1>9, <1>10, <1>11, <1>12, <1>13, <1>14
  DEF Next, Step

\* The invariant holds of every behaviour.
THEOREM Inductive == Spec => []IInv
<1>1. IInv /\ [Next]_vars => IInv'
  BY TypeStep, SendStep, ReachStep DEF IInv
<1> QED
  BY Initially, <1>1, PTL DEF Spec

----------------------------------------------------------------------------
\* The types, for any number of calls and workers.
THEOREM TypeCorrect == Spec => []TypeOK
BY Inductive, PTL DEF IInv

\* No worker sends on a closed msgCh (rocketmq.go:395-404), however many
\* workers fill it and whoever calls the closer.
THEOREM SendsAreSafe == Spec => []NoSendOnClosed
BY Inductive, PTL DEF IInv

\* Until Close every running push consumer can be stopped, however calls of
\* Consume and CancelConsume overlap (rocketmq.go:345).
THEOREM NoneOutOfReach == Spec => []Reachable
BY Inductive, PTL DEF IInv

----------------------------------------------------------------------------
(***************************************************************************)
(* RabbitMQOperator.                                                       *)
(***************************************************************************)

\* CancelQueue goes on to close only a channel that it has found.
FoundChan == \A k \in QueueCancels : cpc[k] = "close" => chanVal[k] # None

\* The inductive invariant.
HeardInv == CancelChanIsHeard /\ FoundChan

USE ConsumersAssumption DEF Rmq!ConsumeParameters

\* Before the first Consume there is no cancel channel.
LEMMA HeardInit == Rmq!Init => HeardInv
<1> SUFFICES ASSUME Rmq!Init PROVE HeardInv
  OBVIOUS
<1>1. 0 \in 0..Buffer
  OBVIOUS
<1>2. Rmq!TypeOK
  BY <1>1 DEF Rmq!Init, Rmq!TypeOK
<1> QED BY <1>2 DEF Rmq!Init, HeardInv, FoundChan, CancelChanIsHeard, Rmq!CancelChanIsHeard

----------------------------------------------------------------------------
\* Every step keeps the types, and what CancelQueue has found.
LEMMA RmqTypes ==
    ASSUME Rmq!TypeOK, FoundChan, [Rmq!Next]_rmqVars
    PROVE  (Rmq!TypeOK /\ FoundChan)'
<1> USE DEF Rmq!TypeOK, FoundChan, Rmq!Goto, Rmq!cancels
<1>1. ASSUME NEW c \in Listeners, Rmq!Consume(c) PROVE (Rmq!TypeOK /\ FoundChan)'
  BY <1>1 DEF Rmq!Consume
<1>2. ASSUME NEW c \in Listeners, Rmq!Load(c) \/ Rmq!Register(c) PROVE (Rmq!TypeOK /\ FoundChan)'
  BY <1>2 DEF Rmq!Load, Rmq!Register
<1>3. ASSUME NEW c \in Listeners, Rmq!Deliver(c) \/ Rmq!Send(c) PROVE (Rmq!TypeOK /\ FoundChan)'
  BY <1>3 DEF Rmq!Deliver, Rmq!Send
<1>4. ASSUME NEW c \in Listeners,
             \/ Rmq!ChannelClosed(c) \/ Rmq!ReconsumeOk(c)
             \/ Rmq!ReconsumeFails(c) \/ Rmq!RetryTick(c)
      PROVE  (Rmq!TypeOK /\ FoundChan)'
  <2>1. CASE Rmq!ChannelClosed(c) BY <2>1 DEF Rmq!ChannelClosed
  <2>2. CASE Rmq!ReconsumeOk(c) BY <2>2 DEF Rmq!ReconsumeOk
  <2>3. CASE Rmq!ReconsumeFails(c) BY <2>3 DEF Rmq!ReconsumeFails
  <2>4. CASE Rmq!RetryTick(c) BY <2>4 DEF Rmq!RetryTick
  <2> QED BY <1>4, <2>1, <2>2, <2>3, <2>4
<1>5. ASSUME NEW c \in Listeners, Rmq!SeeClosed(c) \/ Rmq!SeeCancelRetrying(c) \/ Rmq!SeeCancel(c)
      PROVE  (Rmq!TypeOK /\ FoundChan)'
  BY <1>5 DEF Rmq!SeeClosed, Rmq!SeeCancelRetrying, Rmq!SeeCancel
<1>6. ASSUME NEW c \in Listeners, Rmq!DeleteCancelChan(c) \/ Rmq!Cleanup(c)
      PROVE  (Rmq!TypeOK /\ FoundChan)'
  BY <1>6 DEF Rmq!DeleteCancelChan, Rmq!Cleanup
<1>7. ASSUME NEW c \in Listeners, Rmq!ChannelDies(c) \/ Rmq!ServerCancels(c) \/ Rmq!AppReads(c)
      PROVE  (Rmq!TypeOK /\ FoundChan)'
  <2>1. CASE Rmq!ChannelDies(c) BY <2>1 DEF Rmq!ChannelDies
  <2>2. CASE Rmq!ServerCancels(c) BY <2>2 DEF Rmq!ServerCancels
  <2>3. CASE Rmq!AppReads(c) BY <2>3 DEF Rmq!AppReads
  <2> QED BY <1>7, <2>1, <2>2, <2>3
<1>8. ASSUME NEW k \in QueueCancels, Rmq!CancelQueue(k) PROVE (Rmq!TypeOK /\ FoundChan)'
  <2>1. CASE Rmq!CancelLoad(k) BY <2>1 DEF Rmq!CancelLoad
  <2>2. CASE Rmq!CancelClose(k) BY <2>2 DEF Rmq!CancelClose, Rmq!IsClosedChan
  <2>3. CASE Rmq!CancelPoll(k) BY <2>3 DEF Rmq!CancelPoll
  <2> QED BY <1>8, <2>1, <2>2, <2>3 DEF Rmq!CancelQueue
<1>9. CASE Rmq!Close BY <1>9 DEF Rmq!Close
<1>10. CASE UNCHANGED rmqVars BY <1>10 DEF rmqVars
<1> QED
  BY <1>1, <1>2, <1>3, <1>4, <1>5, <1>6, <1>7, <1>8, <1>9, <1>10 DEF Rmq!Next, Rmq!Goroutine

----------------------------------------------------------------------------
Heard == cancelChan # None => \E c \in Listeners : Rmq!Running(c) /\ val[c] = cancelChan

\* A listener goes on listening to a channel that stays in the map: only its own
\* Load, Register and Cleanup change whether and to what it listens.
LEMMA ListenerStays ==
    ASSUME Rmq!TypeOK, Heard, NEW c \in Listeners,
           \A d \in Listeners \ {c} : listenerPc'[d] = listenerPc[d] /\ val'[d] = val[d],
           cancelChan' \in {cancelChan, None},
           Rmq!Running(c) /\ cancelChan' # None => Rmq!Running(c)' /\ val'[c] = val[c]
    PROVE  Heard'
BY DEF Heard, Rmq!Running

\* Every step leaves the channel in the map a listener.
LEMMA NextHeard ==
    ASSUME Rmq!TypeOK, Heard, [Rmq!Next]_rmqVars
    PROVE  Heard'
<1> USE DEF Rmq!Goto, Rmq!cancels
<1>1. ASSUME NEW c \in Listeners, Rmq!Consume(c) PROVE Heard'
  BY <1>1, ListenerStays DEF Rmq!Consume, Rmq!Running, Rmq!TypeOK
<1>2. ASSUME NEW c \in Listeners, Rmq!Load(c) PROVE Heard'
  BY <1>2 DEF Rmq!Load, Rmq!Running, Heard, Rmq!TypeOK
<1>3. ASSUME NEW c \in Listeners, Rmq!Register(c) PROVE Heard'
  BY <1>3 DEF Rmq!Register, Rmq!Running, Heard, Rmq!TypeOK
<1>4. ASSUME NEW c \in Listeners, Rmq!Goroutine(c),
             ~Rmq!Load(c), ~Rmq!Register(c), ~Rmq!Cleanup(c)
      PROVE  Heard'
  <2>1. /\ \A d \in Listeners \ {c} : listenerPc'[d] = listenerPc[d]
        /\ val' = val /\ cancelChan' \in {cancelChan, None} /\ Rmq!Running(c)'
    BY <1>4 DEF Rmq!Goroutine, Rmq!Deliver, Rmq!Send, Rmq!ChannelClosed, Rmq!ReconsumeOk,
                Rmq!ReconsumeFails, Rmq!RetryTick, Rmq!SeeClosed, Rmq!SeeCancelRetrying,
                Rmq!SeeCancel, Rmq!DeleteCancelChan, Rmq!Running, Rmq!TypeOK
  <2> QED BY <2>1, ListenerStays
<1>5. ASSUME NEW c \in Listeners, Rmq!Cleanup(c) PROVE Heard'
  <2>1. /\ \A d \in Listeners \ {c} : listenerPc'[d] = listenerPc[d]
        /\ val' = val /\ cancelChan' = IF cancelChan = val[c] THEN None ELSE cancelChan
    BY <1>5 DEF Rmq!Cleanup, Rmq!TypeOK
  <2> QED BY <2>1 DEF Heard, Rmq!Running
<1>6. ASSUME UNCHANGED <<listenerPc, val, cancelChan>> PROVE Heard'
  BY <1>6 DEF Heard, Rmq!Running
<1>7. ASSUME NEW c \in Listeners, Rmq!ChannelDies(c) \/ Rmq!ServerCancels(c) \/ Rmq!AppReads(c)
      PROVE  Heard'
  BY <1>6, <1>7 DEF Rmq!ChannelDies, Rmq!ServerCancels, Rmq!AppReads
<1>8. ASSUME NEW k \in QueueCancels, Rmq!CancelQueue(k) PROVE Heard'
  BY <1>6, <1>8 DEF Rmq!CancelQueue, Rmq!CancelLoad, Rmq!CancelClose, Rmq!CancelPoll
<1>9. CASE Rmq!Close BY <1>6, <1>9 DEF Rmq!Close
<1>10. CASE UNCHANGED rmqVars BY <1>6, <1>10 DEF rmqVars
<1> QED BY <1>1, <1>2, <1>3, <1>4, <1>5, <1>7, <1>8, <1>9, <1>10 DEF Rmq!Next

----------------------------------------------------------------------------
\* No step closes a cancel channel twice: CancelQueue looks under cacheMu.
LEMMA NextCalm ==
    ASSUME ~panicked, [Rmq!Next]_rmqVars
    PROVE  ~panicked'
<1>1. ASSUME NEW c \in Listeners, Rmq!Consume(c) \/ Rmq!Goroutine(c) PROVE panicked' = panicked
  BY <1>1 DEF Rmq!Consume, Rmq!Goroutine, Rmq!Load, Rmq!Register, Rmq!Deliver, Rmq!Send,
              Rmq!ChannelClosed, Rmq!ReconsumeOk, Rmq!ReconsumeFails, Rmq!RetryTick,
              Rmq!SeeClosed, Rmq!SeeCancelRetrying, Rmq!SeeCancel, Rmq!DeleteCancelChan,
              Rmq!Cleanup, Rmq!cancels
<1>2. ASSUME NEW c \in Listeners, Rmq!ChannelDies(c) \/ Rmq!ServerCancels(c) \/ Rmq!AppReads(c)
      PROVE  panicked' = panicked
  BY <1>2 DEF Rmq!ChannelDies, Rmq!ServerCancels, Rmq!AppReads, Rmq!cancels
<1>3. ASSUME NEW k \in QueueCancels, Rmq!CancelQueue(k) PROVE ~panicked'
  BY <1>3 DEF Rmq!CancelQueue, Rmq!CancelLoad, Rmq!CancelClose, Rmq!CancelPoll, Rmq!IsClosedChan
<1>4. CASE Rmq!Close BY <1>4 DEF Rmq!Close, Rmq!cancels
<1>5. CASE UNCHANGED rmqVars BY <1>5 DEF rmqVars
<1> QED BY <1>1, <1>2, <1>3, <1>4, <1>5 DEF Rmq!Next

\* The inductive invariant holds in every reachable state.
THEOREM HeardInductive == AllSpec => []HeardInv
<1>1. AllInit => HeardInv
  BY HeardInit DEF AllInit
<1>2. [AllNext]_<<vars, rmqVars, part>> => [Rmq!Next]_rmqVars
  BY DEF AllNext
<1>3. ASSUME HeardInv, [Rmq!Next]_rmqVars PROVE HeardInv'
  <2>1. Rmq!TypeOK /\ FoundChan /\ ~panicked /\ Heard
    BY <1>3 DEF HeardInv, CancelChanIsHeard, Rmq!CancelChanIsHeard, Heard
  <2>2. (Rmq!TypeOK /\ FoundChan)' BY <1>3, <2>1, RmqTypes
  <2>3. Heard' BY <1>3, <2>1, NextHeard
  <2>4. ~panicked' BY <1>3, <2>1, NextCalm
  <2> QED BY <2>2, <2>3, <2>4 DEF HeardInv, CancelChanIsHeard, Rmq!CancelChanIsHeard, Heard
<1> QED BY <1>1, <1>2, <1>3, PTL DEF AllSpec

\* Whatever Consume, CancelQueue, Close and the broker do at the same time, a
\* running consumer listens to the cancel channel in the map, so that the
\* CancelQueue that finds it is heard; and no channel is closed twice.
THEOREM FoundChannelIsHeard == AllSpec => []CancelChanIsHeard
BY HeardInductive, PTL DEF HeardInv
=============================================================================
