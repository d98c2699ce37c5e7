----------------------------- MODULE Consumers -----------------------------
(***************************************************************************)
(* The two kinds of consumers that an application cancels by name:         *)
(* RocketMQOperator's push consumers (RocketConsume) and the goroutines    *)
(* behind RabbitMQOperator.Consume (RmqConsume).  They share no state: a   *)
(* behaviour is one of a single part, and the other stays as it began.     *)
(***************************************************************************)
EXTENDS RocketConsume

CONSTANTS
    Parts,          \* what runs: "rocket", "rmq" or either
    Listeners,      \* calls of RabbitMQOperator.Consume
    QueueCancels,   \* calls of CancelQueue
    Buffer          \* capacity of contents

VARIABLES part, listenerPc, val, cancelChan, closedChans, panicked, amqp, res, contents,
          cpc, chanVal, closeCh

rmqVars == <<listenerPc, val, cancelChan, closedChans, panicked, amqp, res, contents,
             cpc, chanVal, closeCh>>

Rmq == INSTANCE RmqConsume
    WITH Consumers <- Listeners, Cancels <- QueueCancels, NoChan <- None,
         pc <- listenerPc, buf <- contents

\* The assumption of the other part.
ASSUME ConsumersAssumption ==
    Rmq!ConsumeParameters /\ Parts \subseteq {"rocket", "rmq"}

AllInit ==
    /\ part \in Parts
    /\ Init /\ Rmq!Init

AllNext ==
    \/ part = "rocket" /\ Next /\ UNCHANGED <<rmqVars, part>>
    \/ part = "rmq" /\ Rmq!Next /\ UNCHANGED <<vars, part>>

\* The part that does not run has no step that fairness could ask for.
AllSpec ==
    /\ AllInit /\ [][AllNext]_<<vars, rmqVars, part>>
    /\ "rocket" \in Parts => WF_vars(Step)
    /\ "rmq" \in Parts => Rmq!Fairness

----------------------------------------------------------------------------
\* The properties of RmqConsume.
CancelChanIsHeard == Rmq!CancelChanIsHeard
ConsumersStop == Rmq!ConsumersStop
=============================================================================
