------------------------------ MODULE KafkaPush ------------------------------
(***************************************************************************)
(* Pushing through a KafkaOperator (src/kafkax/kafka.go): getWriter and    *)
(* its cache, PushBatch with its retries, and Close.                       *)
(*                                                                         *)
(* A push is one call of Push or PushBatch; the writer it may create is    *)
(* named by it.  Writer and brokers are kafka-go's: WriteMessages hands    *)
(* a batch to an open writer and waits; an error says nothing of whether   *)
(* the brokers stored it; Writer.Close waits for the batches in flight.    *)
(***************************************************************************)
EXTENDS Naturals, FiniteSets

CONSTANTS
    Pushes, Topics,
    TopicOf,       \* the topic of each push
    MaxAttempts,   \* r.config.MaxAttempts
    None           \* no push, no writer

\* The assumption on the constants.
PushParameters ==
    /\ None \notin Pushes
    /\ TopicOf \in [Pushes -> Topics]
    /\ MaxAttempts \in Nat \ {0}

VARIABLES
    writers,     \* r.writers
    writersMu,   \* the push that holds r.writersMu
    open,        \* the writers that are open
    pc, writer,  \* where each push is, and its writer
    attempt,     \* i of its loop
    canceled,    \* the pushes whose ctx is done
    inflight,    \* the batches a writer has taken and is not through with
    acked,       \* the batches of which it told WriteMessages that they are stored
    stored,      \* how often the brokers stored the messages of each push
    result,      \* what each push returned: "none", "ok", "error"
    closing,     \* how far Close is
    left         \* topics that the Range of Close has not visited

net == <<inflight, acked, stored>>
closer == <<closing, left>>
vars == <<writers, writersMu, open, pc, writer, attempt, canceled, net, result, closer>>

Init ==
    /\ writers = [t \in Topics |-> None] /\ writersMu = None /\ open = {}
    /\ pc = [p \in Pushes |-> "idle"]
    /\ writer = [p \in Pushes |-> None]
    /\ attempt = [p \in Pushes |-> 0]
    /\ canceled = {}
    /\ inflight = {} /\ acked = {}
    /\ stored = [p \in Pushes |-> 0]
    /\ result = [p \in Pushes |-> "none"]
    /\ closing = "no" /\ left = Topics

Closed == closing # "no"                  \* r.closed
CloseCh == closing \notin {"no", "mark"}  \* r.closeCh is closed
Cached(p) == writers[TopicOf[p]]
Batch(p) == <<p, attempt[p]>>            \* what its attempt hands over

Goto(p, l) == pc' = [pc EXCEPT ![p] = l]
Return(p, r) == Goto(p, "end") /\ result' = [result EXCEPT ![p] = r]
Use(p, w) == writer' = [writer EXCEPT ![p] = w]

----------------------------------------------------------------------------
\* PushBatch: the check of r.closed ...
PushBatch(p) ==
    /\ pc[p] = "idle"
    /\ IF Closed THEN Return(p, "error") ELSE Goto(p, "load") /\ UNCHANGED result
    /\ UNCHANGED <<writers, writersMu, open, writer, attempt, canceled, net, closer>>

\* ... getWriter: the cached writer ...
Load(p) ==
    /\ pc[p] = "load"
    /\ Use(p, Cached(p))
    /\ Goto(p, IF Cached(p) = None THEN "lock" ELSE "check")
    /\ UNCHANGED <<writers, writersMu, open, attempt, canceled, net, result, closer>>

\* ... or writersMu, ...
Lock(p) ==
    /\ pc[p] = "lock" /\ writersMu = None
    /\ writersMu' = p /\ Goto(p, "again")
    /\ UNCHANGED <<writers, open, writer, attempt, canceled, net, result, closer>>

\* ... the second look, and if there is none a new writer ...
Again(p) ==
    /\ pc[p] = "again"
    /\ IF Cached(p) # None
       THEN /\ Use(p, Cached(p)) /\ Goto(p, "check") /\ writersMu' = None
            /\ UNCHANGED open
       ELSE /\ Use(p, p) /\ Goto(p, "store") /\ open' = open \cup {p}
            /\ UNCHANGED writersMu
    /\ UNCHANGED <<writers, attempt, canceled, net, result, closer>>

\* Mutant of Store: writersMu is not released.
StoreKeepsLock(p) ==
    /\ pc[p] = "store"
    /\ writers' = [writers EXCEPT ![TopicOf[p]] = p]
    /\ Goto(p, "check")
    /\ UNCHANGED <<writersMu, open, writer, attempt, canceled, net, result, closer>>

\* ... which is stored.
Store(p) ==
    /\ pc[p] = "store"
    /\ writers' = [writers EXCEPT ![TopicOf[p]] = p]
    /\ writersMu' = None /\ Goto(p, "check")
    /\ UNCHANGED <<open, writer, attempt, canceled, net, result, closer>>

\* If there is a message of another topic the whole batch is refused.
Check(p) ==
    /\ pc[p] = "check"
    /\ \/ Return(p, "error")
       \/ Goto(p, "loop") /\ UNCHANGED result
    /\ UNCHANGED <<writers, writersMu, open, writer, attempt, canceled, net, closer>>

\* Mutant of Loop: r.closed is tested only when PushBatch is entered.
LoopNotClosed(p) ==
    /\ pc[p] = "loop"
    /\ IF attempt[p] = MaxAttempts
       THEN Return(p, "error") /\ UNCHANGED attempt
       ELSE /\ Goto(p, "write") /\ UNCHANGED result
            /\ attempt' = [attempt EXCEPT ![p] = @ + 1]
    /\ UNCHANGED <<writers, writersMu, open, writer, canceled, net, closer>>

\* The top of the loop: the attempts left and r.closed.
Loop(p) ==
    /\ pc[p] = "loop"
    /\ IF attempt[p] = MaxAttempts \/ Closed
       THEN Return(p, "error") /\ UNCHANGED attempt
       ELSE /\ Goto(p, "write") /\ UNCHANGED result
            /\ attempt' = [attempt EXCEPT ![p] = @ + 1]
    /\ UNCHANGED <<writers, writersMu, open, writer, canceled, net, closer>>

\* WriteMessages: an open writer takes the batch, a closed one or one whose
\* caller has gone does not.
Write(p) ==
    /\ pc[p] = "write"
    /\ IF writer[p] \in open /\ p \notin canceled
       THEN Goto(p, "writing") /\ inflight' = inflight \cup {Batch(p)}
       ELSE Goto(p, "wait") /\ UNCHANGED inflight
    /\ UNCHANGED <<writers, writersMu, open, writer, attempt, canceled, acked, stored, result, closer>>

\* The writer is through with a batch: the brokers stored it, and it learned
\* of that or not, or they did not store it.
Settle(b) ==
    /\ b \in inflight /\ inflight' = inflight \ {b}
    /\ \/ acked' = acked \cup {b} /\ stored' = [stored EXCEPT ![b[1]] = @ + 1]
       \/ acked' = acked /\ stored' = [stored EXCEPT ![b[1]] = @ + 1]
       \/ acked' = acked /\ stored' = stored
    /\ UNCHANGED <<writers, writersMu, open, pc, writer, attempt, canceled, result, closer>>

\* WriteMessages returns what became of the batch ...
Written(p) ==
    /\ pc[p] = "writing" /\ Batch(p) \notin inflight
    /\ IF Batch(p) \in acked THEN Return(p, "ok") ELSE Goto(p, "wait") /\ UNCHANGED result
    /\ UNCHANGED <<writers, writersMu, open, writer, attempt, canceled, net, closer>>

\* ... or, when its ctx ends, an error, and leaves the batch to the writer.
WriteCanceled(p) ==
    /\ pc[p] = "writing" /\ p \in canceled
    /\ Goto(p, "wait")
    /\ UNCHANGED <<writers, writersMu, open, writer, attempt, canceled, net, result, closer>>

\* The select after a failure: closeCh or ctx, ...
WaitEnds(p) ==
    /\ pc[p] = "wait" /\ (CloseCh \/ p \in canceled)
    /\ Return(p, "error")
    /\ UNCHANGED <<writers, writersMu, open, writer, attempt, canceled, net, closer>>

\* ... or the time to try again.
Retry(p) ==
    /\ pc[p] = "wait" /\ Goto(p, "loop")
    /\ UNCHANGED <<writers, writersMu, open, writer, attempt, canceled, net, result, closer>>

\* The caller's ctx ends.
Cancel(p) ==
    /\ p \notin canceled /\ pc[p] # "end"
    /\ canceled' = canceled \cup {p}
    /\ UNCHANGED <<writers, writersMu, open, pc, writer, attempt, net, result, closer>>

----------------------------------------------------------------------------
\* Close: closed, closeCh ...
CloseMark ==
    /\ closing = "no" /\ closing' = "mark"
    /\ UNCHANGED <<writers, writersMu, open, pc, writer, attempt, canceled, net, result, left>>

CloseSignal ==
    /\ closing = "mark" /\ closing' = "writers"
    /\ UNCHANGED <<writers, writersMu, open, pc, writer, attempt, canceled, net, result, left>>

\* ... Range over the writers: Close, which waits for what the writer was
\* handed, and Delete ...
CloseWriter(t) ==
    LET w == writers[t] IN
    /\ closing = "writers" /\ t \in left
    /\ \A b \in inflight : writer[b[1]] # w
    /\ open' = open \ {w}
    /\ writers' = [writers EXCEPT ![t] = None]
    /\ left' = left \ {t}
    /\ UNCHANGED <<writersMu, pc, writer, attempt, canceled, net, result, closing>>

\* ... and the readers, which no push touches.
CloseEnd ==
    /\ closing = "writers" /\ left = {} /\ closing' = "end"
    /\ UNCHANGED <<writers, writersMu, open, pc, writer, attempt, canceled, net, result, left>>

----------------------------------------------------------------------------
Push(p) ==
    \/ Load(p) \/ Lock(p) \/ Again(p) \/ Store(p) \/ Check(p) \/ Loop(p) \/ Write(p)
    \/ Written(p) \/ WriteCanceled(p) \/ WaitEnds(p) \/ Retry(p)

Close == CloseSignal \/ (\E t \in Topics : CloseWriter(t)) \/ CloseEnd

Next ==
    \/ \E p \in Pushes : PushBatch(p) \/ Push(p) \/ Cancel(p)
    \/ \E b \in inflight : Settle(b)
    \/ CloseMark \/ Close

\* A push that was begun goes on (WriteMessages returns, the timer fires)
\* and gets writersMu in its turn; a writer gets through with its batches;
\* Close, once called, goes on.
Fairness ==
    /\ WF_vars(Close) /\ WF_vars(\E b \in inflight : Settle(b))
    /\ \A p \in Pushes : WF_vars(Push(p))
Spec == Init /\ [][Next]_vars /\ Fairness

----------------------------------------------------------------------------
Where == {"idle", "load", "lock", "again", "store", "check", "loop", "write",
          "writing", "wait", "end"}

\* The values of the variables; no push makes more than MaxAttempts attempts.
TypeOK ==
    /\ writers \in [Topics -> Pushes \cup {None}]
    /\ writersMu \in Pushes \cup {None}
    /\ open \subseteq Pushes
    /\ pc \in [Pushes -> Where]
    /\ writer \in [Pushes -> Pushes \cup {None}]
    /\ attempt \in [Pushes -> 0..MaxAttempts]
    /\ canceled \subseteq Pushes
    /\ inflight \subseteq Pushes \X (1..MaxAttempts)
    /\ acked \subseteq Pushes \X (1..MaxAttempts)
    /\ stored \in [Pushes -> 0..MaxAttempts]
    /\ result \in [Pushes -> {"none", "ok", "error"}]
    /\ closing \in {"no", "mark", "writers", "end"}
    /\ left \subseteq Topics

\* Until Close every open writer is the one r.writers holds for its topic, or
\* about to be: pushes that find none at the same time make one (kafka.go:355).
\* (And every variable has its type.)
NoLostWriter ==
    TypeOK /\ \A w \in open : ~Closed => writers[TopicOf[w]] = w \/ pc[w] = "store"

\* Once Close has returned nothing is written any more, not even by a push
\* that holds a writer, or makes one after Close has closed the writers, or by
\* a batch whose WriteMessages has given up (kafka.go:480, 814).
NothingStoredAfterClose == [][closing = "end" => stored' = stored]_vars

\* Every push ends, whatever fails (kafka.go:479-500).
PushEnds == \A p \in Pushes : pc[p] # "idle" ~> pc[p] = "end"
=============================================================================
