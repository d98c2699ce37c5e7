----------------------------- MODULE RmqConsume -----------------------------
(***************************************************************************)
(* The goroutine behind RabbitMQOperator.Consume (src/rabbitmqx/rmq.go)    *)
(* for one queue: registration of its cancel channel, the delivery loop,   *)
(* re-consuming after its AMQP channel is closed, CancelQueue and Close.   *)
(*                                                                         *)
(* A consumer is one call of Consume; the cancel channel it may create is  *)
(* named by the consumer.  Borrowing channels is modelled in RmqPublish:   *)
(* here consumeCore succeeds or fails.  The application reads contents     *)
(* when it likes.                                                          *)
(***************************************************************************)
EXTENDS Naturals, FiniteSets

CONSTANTS
    Consumers,   \* calls of Consume for the queue
    Cancels,     \* calls of CancelQueue for the queue
    NoChan,      \* no cancel channel
    Buffer       \* capacity of contents (5 in the code)

\* The assumption on the constants.
ConsumeParameters ==
    NoChan \notin Consumers /\ Buffer \in Nat \ {0}

VARIABLES
    pc,           \* where each consumer is
    val,          \* valueCh of each consumer
    cancelChan,   \* client.cancelChan for the queue
    closedChans,  \* cancel channels that were closed
    panicked,     \* a closed cancel channel was closed again
    amqp,         \* the AMQP channel of each consumer: none, open or closed
    res,          \* resChan delivers (FALSE: the library closed it)
    buf,          \* deliveries waiting in contents
    cpc,          \* where each CancelQueue is
    chanVal,      \* the cancel channel CancelQueue loaded
    closeCh       \* the operator is closed

vars == <<pc, val, cancelChan, closedChans, panicked, amqp, res, buf,
          cpc, chanVal, closeCh>>
cancels == <<panicked, cpc, chanVal>>

Goto(c, l) == pc' = [pc EXCEPT ![c] = l]

\* Consume has returned contents to the application and it is not closed yet.
Running(c) == pc[c] \notin {"none", "ended"}

Init ==
    /\ pc = [c \in Consumers |-> "none"]
    /\ val = [c \in Consumers |-> NoChan]
    /\ cancelChan = NoChan /\ closedChans = {} /\ panicked = FALSE
    /\ amqp = [c \in Consumers |-> "none"]
    /\ res = [c \in Consumers |-> FALSE]
    /\ buf = [c \in Consumers |-> 0]
    /\ cpc = [k \in Cancels |-> "idle"]
    /\ chanVal = [k \in Cancels |-> NoChan]
    /\ closeCh = FALSE

----------------------------------------------------------------------------
\* Consume: consumeCore succeeded, the goroutine is started.
Consume(c) ==
    /\ pc[c] = "none" /\ ~closeCh
    /\ amqp' = [amqp EXCEPT ![c] = "open"]
    /\ res' = [res EXCEPT ![c] = TRUE]
    /\ Goto(c, "load")
    /\ UNCHANGED <<val, cancelChan, closedChans, buf, cancels, closeCh>>

\* The goroutine looks for the queue's cancel channel ...
Load(c) ==
    /\ pc[c] = "load"
    /\ val' = [val EXCEPT ![c] = cancelChan]
    /\ Goto(c, IF cancelChan = NoChan THEN "register" ELSE "loop")
    /\ UNCHANGED <<cancelChan, closedChans, amqp, res, buf, cancels, closeCh>>

\* ... and creates it under cacheMu if there is none.
Register(c) ==
    /\ pc[c] = "register"
    /\ val' = [val EXCEPT ![c] = IF cancelChan = NoChan THEN c ELSE cancelChan]
    /\ cancelChan' = val'[c]
    /\ Goto(c, "loop")
    /\ UNCHANGED <<closedChans, amqp, res, buf, cancels, closeCh>>

\* The delivery loop.  A closed resChan yields empty deliveries, which the loop
\* skips: that changes nothing and is no step here.
Deliver(c) ==
    /\ pc[c] = "loop" /\ amqp[c] = "open" /\ res[c]
    /\ Goto(c, "send")
    /\ UNCHANGED <<val, cancelChan, closedChans, amqp, res, buf, cancels, closeCh>>

Send(c) ==
    /\ pc[c] = "send" /\ buf[c] < Buffer
    /\ buf' = [buf EXCEPT ![c] = @ + 1]
    /\ Goto(c, "loop")
    /\ UNCHANGED <<val, cancelChan, closedChans, amqp, res, cancels, closeCh>>

\* closeChan fires in the loop or while a delivery waits to be sent.
ChannelClosed(c) ==
    /\ pc[c] \in {"loop", "send"} /\ amqp[c] = "closed"
    /\ Goto(c, "process")
    /\ UNCHANGED <<val, cancelChan, closedChans, amqp, res, buf, cancels, closeCh>>

\* consumeCore gets a new channel ...
ReconsumeOk(c) ==
    /\ pc[c] = "process" /\ ~closeCh
    /\ amqp' = [amqp EXCEPT ![c] = "open"]
    /\ res' = [res EXCEPT ![c] = TRUE]
    /\ Goto(c, "loop")
    /\ UNCHANGED <<val, cancelChan, closedChans, buf, cancels, closeCh>>

\* ... or fails, and the goroutine waits for a tick; what is left of its
\* channel makes no difference to the next consumeCore.
ReconsumeFails(c) ==
    /\ pc[c] = "process"
    /\ amqp' = [amqp EXCEPT ![c] = "none"]
    /\ res' = [res EXCEPT ![c] = FALSE]
    /\ Goto(c, "retry")
    /\ UNCHANGED <<val, cancelChan, closedChans, buf, cancels, closeCh>>

RetryTick(c) ==
    /\ pc[c] = "retry"
    /\ Goto(c, "process")
    /\ UNCHANGED <<val, cancelChan, closedChans, amqp, res, buf, cancels, closeCh>>

\* Mutant of SeeClosed: the select around Send does not watch closeCh.
SeeClosedNotSending(c) ==
    /\ pc[c] \in {"loop", "retry"} /\ closeCh
    /\ Goto(c, "cleanup")
    /\ UNCHANGED <<val, cancelChan, closedChans, amqp, res, buf, cancels, closeCh>>

\* The operator is closed: every select but the registration watches closeCh.
SeeClosed(c) ==
    /\ pc[c] \in {"loop", "send", "retry"} /\ closeCh
    /\ Goto(c, "cleanup")
    /\ UNCHANGED <<val, cancelChan, closedChans, amqp, res, buf, cancels, closeCh>>

\* Mutant of SeeCancelRetrying: the retry loop does not watch the cancel channel.
SeeCancelNotRetrying(c) ==
    /\ pc[c] = "retry" /\ val[c] \in closedChans
    /\ Goto(c, "process")
    /\ UNCHANGED <<val, cancelChan, closedChans, amqp, res, buf, cancels, closeCh>>

\* The cancel channel is closed: in the retry loop the goroutine just returns,
\* in the delivery loop it also deletes whatever cancel channel the queue has
\* and closes its AMQP channel.  The select around Send does not look.
SeeCancelRetrying(c) ==
    /\ pc[c] = "retry" /\ val[c] \in closedChans
    /\ Goto(c, "cleanup")
    /\ UNCHANGED <<val, cancelChan, closedChans, amqp, res, buf, cancels, closeCh>>

SeeCancel(c) ==
    /\ pc[c] = "loop" /\ val[c] \in closedChans
    /\ Goto(c, "delete")
    /\ UNCHANGED <<val, cancelChan, closedChans, amqp, res, buf, cancels, closeCh>>

DeleteCancelChan(c) ==
    /\ pc[c] = "delete"
    /\ cancelChan' = NoChan
    /\ amqp' = [amqp EXCEPT ![c] = "closed"]
    /\ Goto(c, "cleanup")
    /\ UNCHANGED <<val, closedChans, res, buf, cancels, closeCh>>

\* Mutant of Cleanup: the cancel channel stays in the map.
CleanupKeepsChan(c) ==
    /\ pc[c] = "cleanup"
    /\ amqp' = [amqp EXCEPT ![c] = "none"]
    /\ Goto(c, "ended")
    /\ UNCHANGED <<val, cancelChan, closedChans, res, buf, cancels, closeCh>>

\* The deferred function: invalidate the channel, CompareAndDelete the cancel
\* channel, close contents.
Cleanup(c) ==
    /\ pc[c] = "cleanup"
    /\ amqp' = [amqp EXCEPT ![c] = "none"]
    /\ cancelChan' = IF cancelChan = val[c] THEN NoChan ELSE cancelChan
    /\ Goto(c, "ended")
    /\ UNCHANGED <<val, closedChans, res, buf, cancels, closeCh>>

----------------------------------------------------------------------------
\* CancelQueue: load, close once under cacheMu, then wait for the entry to go.
CancelLoad(k) ==
    /\ cpc[k] = "idle"
    /\ chanVal' = [chanVal EXCEPT ![k] = cancelChan]
    /\ cpc' = [cpc EXCEPT ![k] = IF cancelChan = NoChan THEN "done" ELSE "close"]
    /\ UNCHANGED <<pc, val, cancelChan, closedChans, panicked, amqp, res, buf, closeCh>>

IsClosedChan(ch) == ch \in closedChans

CancelClose(k) ==
    /\ cpc[k] = "close"
    /\ IF IsClosedChan(chanVal[k])
       THEN UNCHANGED <<closedChans, panicked>>
       ELSE /\ closedChans' = closedChans \cup {chanVal[k]}
            /\ panicked' = (panicked \/ chanVal[k] \in closedChans)
    /\ cpc' = [cpc EXCEPT ![k] = "poll"]
    /\ UNCHANGED <<pc, val, cancelChan, amqp, res, buf, chanVal, closeCh>>

\* The ticks of CancelQueue: the entry has gone, or the last tick finds it.
CancelPoll(k) ==
    /\ cpc[k] = "poll"
    /\ chanVal' = [chanVal EXCEPT ![k] = NoChan]
    /\ cpc' = [cpc EXCEPT ![k] = IF cancelChan = NoChan THEN "done" ELSE "timeout"]
    /\ UNCHANGED <<pc, val, cancelChan, closedChans, panicked, amqp, res, buf, closeCh>>

\* Close; the connection and with it every channel is closed.
Close ==
    /\ ~closeCh
    /\ closeCh' = TRUE
    /\ UNCHANGED <<pc, val, cancelChan, closedChans, amqp, res, buf, cancels>>

----------------------------------------------------------------------------
\* The broker or the network closes the AMQP channel; resChan is closed too.
ChannelDies(c) ==
    /\ amqp[c] = "open"
    /\ amqp' = [amqp EXCEPT ![c] = "closed"]
    /\ res' = [res EXCEPT ![c] = FALSE]
    /\ UNCHANGED <<pc, val, cancelChan, closedChans, buf, cancels, closeCh>>

\* The broker cancels the consumer (its queue was deleted): only resChan is
\* closed.
ServerCancels(c) ==
    /\ amqp[c] = "open" /\ res[c]
    /\ res' = [res EXCEPT ![c] = FALSE]
    /\ UNCHANGED <<pc, val, cancelChan, closedChans, amqp, buf, cancels, closeCh>>

\* The application takes a delivery from contents.
AppReads(c) ==
    /\ buf[c] > 0
    /\ buf' = [buf EXCEPT ![c] = @ - 1]
    /\ UNCHANGED <<pc, val, cancelChan, closedChans, amqp, res, cancels, closeCh>>

Goroutine(c) ==
    \/ Load(c) \/ Register(c) \/ Deliver(c) \/ Send(c)
    \/ ChannelClosed(c) \/ ReconsumeOk(c) \/ ReconsumeFails(c) \/ RetryTick(c)
    \/ SeeClosed(c) \/ SeeCancelRetrying(c) \/ SeeCancel(c)
    \/ DeleteCancelChan(c) \/ Cleanup(c)

CancelQueue(k) == CancelLoad(k) \/ CancelClose(k) \/ CancelPoll(k)

Next ==
    \/ \E c \in Consumers :
        Consume(c) \/ Goroutine(c) \/ ChannelDies(c) \/ ServerCancels(c) \/ AppReads(c)
    \/ \E k \in Cancels : CancelQueue(k)
    \/ Close

\* Goroutines run; a select that sees closeCh or the cancel channel ready again
\* and again takes that case some day.
Fairness ==
    \A c \in Consumers :
        /\ WF_vars(Goroutine(c))
        /\ SF_vars(SeeClosed(c) \/ SeeCancel(c) \/ SeeCancelRetrying(c))

Spec == Init /\ [][Next]_vars /\ Fairness

----------------------------------------------------------------------------
(***************************************************************************)
(* Properties.                                                             *)
(***************************************************************************)

\* Every variable has its type.
TypeOK ==
    /\ pc \in [Consumers -> {"none", "load", "register", "loop", "send", "process",
                             "retry", "delete", "cleanup", "ended"}]
    /\ val \in [Consumers -> Consumers \cup {NoChan}]
    /\ cancelChan \in Consumers \cup {NoChan}
    /\ closedChans \subseteq Consumers
    /\ panicked \in BOOLEAN /\ closeCh \in BOOLEAN
    /\ amqp \in [Consumers -> {"none", "open", "closed"}]
    /\ res \in [Consumers -> BOOLEAN]
    /\ buf \in [Consumers -> 0..Buffer]
    /\ cpc \in [Cancels -> {"idle", "close", "poll", "done", "timeout"}]
    /\ chanVal \in [Cancels -> Consumers \cup {NoChan}]

\* However CancelQueue calls overlap, the cancel channel in the map is one that a
\* running consumer listens to, so that a CancelQueue that finds it does not wait
\* in vain, and none is closed twice (which would panic in the application's
\* goroutine).  (And every variable has its type.)
CancelChanIsHeard ==
    /\ TypeOK /\ ~panicked
    /\ cancelChan # NoChan => \E c \in Consumers : Running(c) /\ val[c] = cancelChan

\* Close ends every consumer, even if the application does not read contents.
CloseStops == closeCh ~> \A c \in Consumers : pc[c] \in {"none", "ended"}

\* A consumer whose cancel channel is closed ends, if the application goes on
\* reading contents.
CancelStops ==
    (\A c \in Consumers : WF_vars(AppReads(c)))
        => \A c \in Consumers : (Running(c) /\ val[c] \in closedChans) ~> pc[c] = "ended"

\* A consumer that is told to stop, by Close or through its cancel channel, does.
ConsumersStop == CloseStops /\ CancelStops
=============================================================================
