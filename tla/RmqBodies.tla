----------------------------- MODULE RmqBodies -----------------------------
(***************************************************************************)
(* The bodies of src/rabbitmqx/body.go: a caller fills one with setters in *)
(* any order and hands it to Push, PushExchange, PushQueue,                *)
(* PushDelayMessage or Consume, which complete it, declare what it names   *)
(* at the broker and publish.  A body may be used again.  Payload,         *)
(* priority and confirm mode pass through and are left out; the channel,   *)
(* the locks and the retries are those of RmqPublish and RmqConsume.       *)
(***************************************************************************)
EXTENDS Integers, FiniteSets, TLC

CONSTANTS
    Queues,
    ArgNames,     \* arguments of queues: "x-max-length", "x-message-ttl", ...
    MaxCalls,     \* bound: setters called
    MaxUses       \* bound: bodies handed over

Exchange == "x"                    \* the exchange in use
Keys == Queues \cup {"k"}          \* routing keys; "" is none
Fanout == "fanout"

VARIABLES
    body,       \* the body being filled
    asked,      \* what the setters of the body were told (history)
    exchanges,  \* at the broker: type of each exchange
    queues,     \* at the broker: arguments of each queue
    bindings,   \* at the broker: queue and key of each binding to Exchange
    deadKey,    \* routing key with which the delay queue gives messages back
    waiting,    \* what the messages in the delay queue were asked
    wanted,     \* arguments asked for a queue when it was declared (history)
    bound,      \* keys asked for each queue bound (history)
    sent,       \* the last message published, where it went and what was asked
    calls, uses

vars == <<body, asked, exchanges, queues, bindings, deadKey, waiting, wanted, bound, sent, calls, uses>>
atBroker == <<exchanges, queues, bindings, deadKey, waiting, wanted, bound, sent>>

Empty == <<>>
Lookup(f, q, default) == IF q \in DOMAIN f THEN f[q] ELSE default
ArgsOf(f, q) == Lookup(f, q, {})

Kinds == {"push", "exchange", "queue", "delay", "consume"}
Fresh(kind) ==
    [kind |-> kind, exchange |-> "", type |-> "", key |-> "", queue |-> "", bindings |-> Empty,
     queueArgs |-> Empty, args |-> {}, delay |-> 0, mode |-> 0]

\* What a caller says, without what the code makes of it: the arguments set for
\* a queue, those set when it was already named, and whether the body was
\* turned to another destination.
NothingAsked ==
    [exchange |-> "", type |-> "", key |-> "", queue |-> "", bindings |-> Empty,
     args |-> Empty, late |-> Empty, own |-> {}, mode |-> 0, used |-> FALSE, moved |-> FALSE]

NothingSent == [to |-> {}, asked |-> NothingAsked, kind |-> "none", mode |-> 0]

Init ==
    /\ \E kind \in Kinds : body = Fresh(kind)
    /\ asked = NothingAsked
    /\ exchanges = Empty /\ queues = Empty /\ bindings = {} /\ deadKey = Empty
    /\ waiting = {} /\ wanted = Empty /\ bound = {} /\ sent = NothingSent
    /\ calls = 0 /\ uses = 0

\* The caller makes another body.
NewBody ==
    /\ asked.used /\ uses < MaxUses
    /\ \E kind \in Kinds : body' = Fresh(kind)
    /\ asked' = NothingAsked
    /\ UNCHANGED <<atBroker, calls, uses>>

----------------------------------------------------------------------------
(***************************************************************************)
(* The setters.                                                            *)
(***************************************************************************)
Called ==
    /\ calls < MaxCalls /\ calls' = calls + 1
    /\ UNCHANGED <<atBroker, uses>>

\* A name given again means another destination if it replaces one or the body
\* was used.
Moves(old, new) == asked.moved \/ (old # new /\ (old # "" \/ asked.used))

SetExchangeName ==
    /\ Called
    /\ body' = [body EXCEPT !.exchange = Exchange]
    /\ asked' = [asked EXCEPT !.exchange = Exchange, !.moved = Moves(asked.exchange, Exchange)]

SetExchangeType(t) ==
    /\ Called /\ body' = [body EXCEPT !.type = t] /\ asked' = [asked EXCEPT !.type = t]

SetRoutingKey(k) ==
    /\ Called
    /\ body' = [body EXCEPT !.key = k] /\ asked' = [asked EXCEPT !.key = k]

SetQueueName(q) ==
    /\ Called
    /\ body' = [body EXCEPT !.queue = q]
    /\ asked' = [asked EXCEPT !.queue = q, !.moved = Moves(asked.queue, q)]

\* Without a binding key the queue's name is the key.
BindQueue(q, k) ==
    /\ Called
    /\ body' = [body EXCEPT !.bindings = (q :> (IF k = "" THEN q ELSE k)) @@ body.bindings]
    /\ asked' = [asked EXCEPT !.bindings = (q :> (IF k = "" THEN q ELSE k)) @@ asked.bindings]

SetDeliveryMode ==
    /\ Called /\ body' = [body EXCEPT !.mode = 1] /\ asked' = [asked EXCEPT !.mode = 1]

SetDelayTime ==
    /\ Called /\ body' = [body EXCEPT !.delay = 1] /\ UNCHANGED asked

With(f, q, name) == (q :> (ArgsOf(f, q) \cup {name})) @@ f
AskArgument(name, q) ==
    asked' = [asked EXCEPT !.args = With(asked.args, q, name),
                  !.late = IF asked.queue = q THEN With(asked.late, q, name) ELSE asked.late]

\* Mutant of Argument: a queue's table is made anew by every setter.
ArgumentAnew(f, q, name) == (q :> {name}) @@ f

\* A queue's table is made by the first argument set for it.
Argument(f, q, name) == With(f, q, name)

\* setArgs of the bodies with a table for each queue.
SetQueueArgs(name, q) ==
    /\ Called /\ AskArgument(name, q)
    /\ body' = [body EXCEPT !.queueArgs = Argument(body.queueArgs, q, name)]

\* setArgs of PushBody: the arguments of the queue that is named at this
\* moment are kept a second time, for pushing without an exchange.
SetPushArgs(name, q) ==
    /\ Called /\ AskArgument(name, q)
    /\ body' = [body EXCEPT !.queueArgs = Argument(body.queueArgs, q, name),
                            !.args = IF q = body.queue THEN body.args \cup {name} ELSE body.args]

\* setArgs of the bodies with one queue.
SetOwnArgs(name) ==
    /\ Called
    /\ body' = [body EXCEPT !.args = body.args \cup {name}]
    /\ asked' = [asked EXCEPT !.own = asked.own \cup {name}]

ExchangeSetters ==
    \/ SetExchangeName
    \/ \E t \in {Fanout, "direct"} : SetExchangeType(t)
    \/ \E q \in Queues, k \in {"", "k"} : BindQueue(q, k)
    \/ \E k \in Keys : SetRoutingKey(k)
    \/ SetDeliveryMode

\* The ten setters of arguments.
QueueArgSetters == \E name \in ArgNames, q \in Queues : SetQueueArgs(name, q)
PushArgSetters == \E name \in ArgNames, q \in Queues : SetPushArgs(name, q)

PushDelayBody == body.kind = "delay" /\ (ExchangeSetters \/ SetDelayTime \/ QueueArgSetters)
PushBody ==
    body.kind = "push" /\ (ExchangeSetters \/ PushArgSetters \/ \E q \in Queues : SetQueueName(q))
ExchangePushBody == body.kind = "exchange" /\ (ExchangeSetters \/ QueueArgSetters)
QueuePushBody ==
    /\ body.kind = "queue"
    /\ \/ \E q \in Queues : SetQueueName(q)
       \/ \E name \in ArgNames : SetOwnArgs(name)
       \/ SetDeliveryMode
ConsumeBody ==
    /\ body.kind = "consume"
    /\ \/ SetExchangeName
       \/ \E k \in Keys : SetRoutingKey(k)
       \/ \E q \in Queues : SetQueueName(q)
       \/ \E name \in ArgNames : SetOwnArgs(name)

Set == PushDelayBody \/ PushBody \/ ExchangePushBody \/ QueuePushBody \/ ConsumeBody

----------------------------------------------------------------------------
(***************************************************************************)
(* Validate: what the push makes of a body before it uses it.  The body    *)
(* keeps it.                                                               *)
(***************************************************************************)
ExchangeValidate(b) == [b EXCEPT !.type = IF b.type = "" THEN Fanout ELSE b.type]

\* Mutant of PushValidate: the queue is bound only if nothing else is.
PushValidateUnbound(b) ==
    IF b.exchange = "" THEN [b EXCEPT !.bindings = Empty, !.key = IF b.key = "" THEN b.queue ELSE b.key]
    ELSE [ExchangeValidate(b) EXCEPT !.queue = "",
            !.bindings = IF b.bindings = Empty /\ b.queue # "" THEN b.queue :> b.queue ELSE b.bindings]

\* With an exchange the queue is one more queue to bind, under its own name;
\* without one nothing is bound and the queue's name is the routing key.
PushValidate(b) ==
    IF b.exchange = "" THEN [b EXCEPT !.bindings = Empty, !.key = IF b.key = "" THEN b.queue ELSE b.key]
    ELSE [ExchangeValidate(b) EXCEPT !.queue = "",
            !.bindings = IF b.queue = "" THEN b.bindings ELSE (b.queue :> b.queue) @@ b.bindings]

----------------------------------------------------------------------------
(***************************************************************************)
(* Declaring.  opCache answers for what the operator has declared: the     *)
(* first type, the first arguments and the first key of a binding stay.    *)
(* The exchange without a name cannot be declared.                         *)
(***************************************************************************)
DeclareExchange(b) == exchanges' = IF Exchange \in DOMAIN exchanges THEN exchanges ELSE Exchange :> b.type

\* The queues of a function from queues to arguments are declared.
DeclareQueues(args) == queues' = queues @@ args

\* Arguments asked for q: at least those set when it was named, at most all.
AskedArgs(q) ==
    LET all == ArgsOf(asked.args, q) IN
    CASE body.kind \in {"queue", "consume"} -> [least |-> asked.own, most |-> asked.own]
      [] body.kind = "push" /\ asked.exchange = "" ->
            [least |-> ArgsOf(asked.late, q), most |-> all]
      [] OTHER -> [least |-> all, most |-> all]
Ask(qs) ==
    wanted' = wanted @@ [q \in qs \ DOMAIN queues |-> [of |-> AskedArgs(q), moved |-> asked.moved]]

\* A binding is skipped if the queue is bound to the exchange, whatever the key.
Bind(keys) ==
    /\ bindings' = bindings \cup
         {[queue |-> q, key |-> keys[q]] : q \in {q \in DOMAIN keys : \A b \in bindings : b.queue # q}}
    /\ bound' = bound \cup {[queue |-> q, key |-> keys[q]] : q \in DOMAIN keys}

DeclareAndBind(b, qs) ==
    /\ DeclareQueues([q \in qs |-> ArgsOf(b.queueArgs, q)])
    /\ Ask(qs) /\ Bind([q \in qs |-> b.bindings[q]])

\* Where a message goes that is published with a key.
Routed(x, k, type, bs, qs) ==
    IF x = "" THEN {k} \cap qs ELSE {b.queue : b \in {b \in bs : type = Fanout \/ b.key = k}}

\* createPublishingMessage: messages are persistent unless the body says so.
Persistent == 2
Publish(b) ==
    sent' = [to |-> Routed(b.exchange, b.key, Lookup(exchanges', Exchange, ""), bindings', DOMAIN queues'),
             asked |-> asked, kind |-> b.kind, mode |-> IF b.mode = 0 THEN Persistent ELSE b.mode]

Used(b) ==
    /\ uses < MaxUses /\ uses' = uses + 1
    /\ body' = b /\ asked' = [asked EXCEPT !.used = TRUE]
    /\ UNCHANGED calls

PushQueue ==
    /\ body.kind = "queue" /\ body.queue # ""
    /\ Used(body)
    /\ DeclareQueues(body.queue :> body.args) /\ Ask({body.queue})
    /\ sent' = [to |-> {body.queue}, asked |-> asked, kind |-> "queue",
                mode |-> IF body.mode = 0 THEN Persistent ELSE body.mode]
    /\ UNCHANGED <<exchanges, bindings, deadKey, waiting, bound>>

PushExchange ==
    /\ body.kind = "exchange" /\ body.exchange # ""
    /\ LET b == ExchangeValidate(body) IN
       Used(b) /\ DeclareExchange(b) /\ DeclareAndBind(b, DOMAIN b.bindings) /\ Publish(b)
    /\ UNCHANGED <<deadKey, waiting>>

Push ==
    /\ body.kind = "push"
    /\ LET b == PushValidate(body) IN
       /\ Used(b)
       /\ IF b.exchange # "" THEN DeclareExchange(b) /\ DeclareAndBind(b, DOMAIN b.bindings)
          ELSE IF b.queue # ""
          THEN DeclareQueues(b.queue :> b.args) /\ Ask({b.queue}) /\ UNCHANGED <<exchanges, bindings, bound>>
          ELSE UNCHANGED <<exchanges, queues, bindings, wanted, bound>>
       /\ Publish(b)
    /\ UNCHANGED <<deadKey, waiting>>

\* The delay queue is named after the exchange; it gives a message back to the
\* exchange with the key of the body that declared it.
PushDelayMessage ==
    /\ body.kind = "delay" /\ body.exchange # "" /\ body.delay # 0
    /\ LET b == ExchangeValidate(body) IN
       /\ Used(b) /\ DeclareExchange(b) /\ DeclareAndBind(b, DOMAIN b.bindings)
       /\ deadKey' = deadKey @@ (Exchange :> b.key)
       /\ waiting' = waiting \cup {asked}
    /\ UNCHANGED sent

\* A declaration fails: some queues are declared, all of those but one bound.
PushFails ==
    /\ body.kind \in {"push", "exchange", "delay"} /\ body.exchange # "" /\ (body.kind = "delay" => body.delay # 0)
    /\ LET b == IF body.kind = "push" THEN PushValidate(body) ELSE ExchangeValidate(body) IN
       /\ Used(b) /\ DeclareExchange(b)
       /\ \E done \in SUBSET DOMAIN b.bindings, half \in SUBSET DOMAIN b.bindings :
            /\ Cardinality(half \ done) <= 1
            /\ DeclareQueues([q \in done \cup half |-> ArgsOf(b.queueArgs, q)])
            /\ Ask(done \cup half) /\ Bind([q \in done |-> b.bindings[q]])
       /\ deadKey' = IF b.kind = "delay" THEN deadKey @@ (Exchange :> b.key) ELSE deadKey
    /\ UNCHANGED <<waiting, sent>>

\* consumeCore declares the queue and binds it to an exchange that exists.
Consume ==
    /\ body.kind = "consume" /\ body.queue # ""
    /\ body.exchange # "" => Exchange \in DOMAIN exchanges
    /\ Used(body)
    /\ DeclareQueues(body.queue :> body.args) /\ Ask({body.queue})
    /\ IF body.exchange = "" THEN UNCHANGED <<bindings, bound>> ELSE Bind(body.queue :> body.key)
    /\ UNCHANGED <<exchanges, deadKey, waiting, sent>>

\* The delay of a message ends.
Expire ==
    \E m \in waiting :
        /\ waiting' = waiting \ {m}
        /\ sent' = [to |-> Routed(Exchange, deadKey[Exchange], exchanges[Exchange], bindings, DOMAIN queues),
                    asked |-> m, kind |-> "delay", mode |-> IF m.mode = 0 THEN Persistent ELSE m.mode]
        /\ UNCHANGED <<body, asked, exchanges, queues, bindings, deadKey, wanted, bound, calls, uses>>

Next ==
    \/ Set \/ NewBody
    \/ PushQueue \/ PushExchange \/ Push \/ PushDelayMessage \/ PushFails \/ Consume \/ Expire

Spec == Init /\ [][Next]_vars

----------------------------------------------------------------------------
(***************************************************************************)
(* Properties.                                                             *)
(***************************************************************************)

\* Every queue is bound with one key only, by the bodies so far and by a.
OneKey(a, bs) ==
    /\ \A b, c \in bs : b.queue = c.queue => b.key = c.key
    /\ Lookup(a.bindings, a.queue, a.queue) = a.queue

\* The queue a PushBody names beside an exchange is bound to it as well.
AskedBindings(a) == IF a.queue = "" THEN a.bindings ELSE (a.queue :> a.queue) @@ a.bindings

\* Where a message that asks for a goes, of the queues qs, when the exchanges
\* xs and the bindings bs have been asked for: its own bindings are among them.
Destination(a, kind, xs, bs, qs) ==
    LET own == {[queue |-> q, key |-> AskedBindings(a)[q]] : q \in DOMAIN AskedBindings(a)} IN
    IF kind = "queue" THEN {a.queue}
    ELSE IF a.exchange = "" THEN (IF a.key = "" THEN {a.queue} ELSE {a.key}) \cap qs
    ELSE Routed(a.exchange, a.key, xs[Exchange], bs \cup own, qs)

\* A push that reports success has put its message into the queues the setters
\* asked for, in whatever order they were called, and delayed messages go there
\* when their time is over; messages are persistent unless the body says
\* otherwise.  Known exceptions: a queue bound under a second key (opCache),
\* a body turned to another destination (it keeps the routing key of the
\* first), and delayed messages of one exchange with several routing keys (one
\* delay queue).
PushArrives ==
    PushQueue \/ PushExchange \/ Push \/ Expire =>
        LET a == sent'.asked IN
        (~a.moved /\ OneKey(a, bound') /\ (sent'.kind = "delay" => a.key = deadKey[Exchange]))
        => /\ sent'.to = Destination(a, sent'.kind, exchanges', bound', DOMAIN queues')
           /\ sent'.mode = (IF a.mode = 0 THEN Persistent ELSE a.mode)

\* A queue has the arguments that were set for it by the body that declared it,
\* and no other's.  In queue mode a PushBody forgets what was set before the
\* queue was named.
ArgumentsArrive ==
    \A q \in DOMAIN wanted :
        ~wanted[q].moved => wanted[q].of.least \subseteq queues[q] /\ queues[q] \subseteq wanted[q].of.most

\* What the comments on BindQueue and README say, that BindQueue binds the queue
\* to the exchange: when PushExchange has succeeded, its body's bindings exist.
BindingsAreMade ==
    [][ PushExchange => \A q \in DOMAIN asked.bindings :
                           [queue |-> q, key |-> asked.bindings[q]] \in bindings' ]_vars
=============================================================================
