----------------------------- MODULE KafkaConsume -----------------------------
(***************************************************************************)
(* Consuming one topic and group through a KafkaOperator                   *)
(* (src/kafkax/kafka.go): consume and its goroutine, the cached reader,    *)
(* committing offsets, ConsumeWithHandler, CancelConsume and Close.        *)
(*                                                                         *)
(* A consumer is one call of Consume or ConsumeWithHandler; its cancel     *)
(* channel and the reader it may create are named by it.  The partition    *)
(* holds the messages 1..Last; a reader starts after the committed offset  *)
(* and moves on with every fetch.  Reader and broker are kafka-go's.       *)
(***************************************************************************)
EXTENDS Naturals, Sequences, FiniteSets

CONSTANTS
    Consumers, Cancels,
    Handlers,    \* the consumers that use ConsumeWithHandler
    Last,        \* number of messages in the partition
    Valueless,   \* the messages without a value
    Buffer,      \* capacity of contents (10 in the code)
    None         \* no consumer, no reader

ASSUME KafkaAssumption ==
    /\ None \notin Consumers /\ Handlers \subseteq Consumers
    /\ Last \in Nat /\ Valueless \subseteq 1..Last
    /\ Buffer \in Nat \ {0}

VARIABLES
    cancelChan,   \* r.cancelChan for the key
    closedChans,  \* the cancel channels that are closed
    panicked,     \* a closed cancel channel was closed again
    readers,      \* r.readers for the key
    open,         \* the readers that are open
    pos,          \* the last message each reader has fetched
    committed,    \* the offset committed for the group
    pc, reader,   \* where each consumer is, and its reader
    msg, buf,     \* the message it has fetched, and contents
    hpc, hmsg,    \* the goroutine of ConsumeWithHandler and its message
    cpc, crd, cch, \* CancelConsume: where it is, the reader and channel it took
    closing,      \* how far Close is
    given, handled,  \* history: messages put into contents for the application
                     \* or given to a handler, and those handled with success
    overlap       \* history: calls of Consume, CancelConsume and Close overlapped

cancelling == <<cpc, crd, cch>>
consuming == <<pc, reader, msg, buf>>
handling == <<hpc, hmsg>>
history == <<given, handled>>
maps == <<cancelChan, closedChans, panicked, readers>>
kafka == <<open, pos, committed>>
vars == <<maps, kafka, consuming, handling, cancelling, closing, history, overlap>>

Goto(c, l) == pc' = [pc EXCEPT ![c] = l]

Init ==
    /\ cancelChan = None /\ closedChans = {} /\ panicked = FALSE
    /\ readers = None /\ open = {}
    /\ pos = [c \in Consumers |-> 0] /\ committed = 0
    /\ pc = [c \in Consumers |-> "none"]
    /\ reader = [c \in Consumers |-> None]
    /\ msg = [c \in Consumers |-> 0]
    /\ buf = [c \in Consumers |-> <<>>]
    /\ hpc = [c \in Consumers |-> "range"]
    /\ hmsg = [c \in Consumers |-> 0]
    /\ cpc = [k \in Cancels |-> "idle"]
    /\ crd = [k \in Cancels |-> None]
    /\ cch = [k \in Cancels |-> None]
    /\ closing = "no"
    /\ given = {} /\ handled = {} /\ overlap = FALSE

Closed == closing # "no"                 \* r.closed
CloseCh == closing \notin {"no", "mark"} \* r.closeCh is closed
Stopped(c) == CloseCh \/ c \in closedChans

\* A call of Consume or CancelConsume that has not returned.
Calling == {c \in Consumers : pc[c] \in {"register", "reader"}}
           \cup {k \in Cancels : cpc[k] # "idle"}

\* History: another call starts.
CallStarts == overlap' = (overlap \/ Calling # {})

----------------------------------------------------------------------------
\* consume: the check of r.closed ...
Consume(c) ==
    /\ pc[c] = "none" /\ ~Closed /\ CallStarts
    /\ Goto(c, "register")
    /\ UNCHANGED <<maps, kafka, reader, msg, buf, handling, cancelling, closing, history>>

\* Mutant of Register: Store instead of LoadOrStore.
RegisterOverwrites(c) ==
    /\ pc[c] = "register"
    /\ cancelChan' = c /\ Goto(c, "reader")
    /\ UNCHANGED <<closedChans, panicked, readers, kafka, reader, msg, buf,
                   handling, cancelling, closing, history, overlap>>

\* ... LoadOrStore of the cancel channel, an error if there is one ...
Register(c) ==
    /\ pc[c] = "register"
    /\ IF cancelChan = None
       THEN cancelChan' = c /\ Goto(c, "reader")
       ELSE UNCHANGED cancelChan /\ Goto(c, "ended")
    /\ UNCHANGED <<closedChans, panicked, readers, kafka, reader, msg, buf,
                   handling, cancelling, closing, history, overlap>>

\* ... and getReader, which takes the cached reader or creates one.
GetReader(c) ==
    /\ pc[c] = "reader"
    /\ IF readers # None
       THEN /\ reader' = [reader EXCEPT ![c] = readers]
            /\ UNCHANGED <<readers, open, pos>>
       ELSE /\ reader' = [reader EXCEPT ![c] = c]
            /\ readers' = c /\ open' = open \cup {c}
            /\ pos' = [pos EXCEPT ![c] = committed]
    /\ Goto(c, "loop")
    /\ UNCHANGED <<cancelChan, closedChans, panicked, committed, msg, buf,
                   handling, cancelling, closing, history, overlap>>

GetReaderFails(c) ==
    /\ pc[c] = "reader"
    /\ cancelChan' = IF cancelChan = c THEN None ELSE cancelChan
    /\ Goto(c, "ended")
    /\ UNCHANGED <<closedChans, panicked, readers, kafka, reader, msg, buf,
                   handling, cancelling, closing, history, overlap>>

\* The goroutine: the select before each fetch.
LoopTop(c) ==
    /\ pc[c] = "loop"
    /\ Goto(c, IF Stopped(c) THEN "exit" ELSE "fetch")
    /\ UNCHANGED <<maps, kafka, reader, msg, buf, handling, cancelling, closing, history, overlap>>

\* Mutant of Fetch: ReadMessage instead of FetchMessage commits at once.
FetchCommits(c) ==
    LET r == reader[c] m == pos[r] + 1 IN
    /\ pc[c] = "fetch" /\ r \in open /\ pos[r] < Last
    /\ pos' = [pos EXCEPT ![r] = m]
    /\ msg' = [msg EXCEPT ![c] = m]
    /\ committed' = m
    /\ Goto(c, IF m \notin Valueless THEN "send" ELSE "loop")
    /\ UNCHANGED <<maps, open, reader, buf, handling, cancelling, closing, history, overlap>>

\* FetchMessage returns a message; an empty one is committed or skipped.
Fetch(c) ==
    LET r == reader[c] m == pos[r] + 1 IN
    /\ pc[c] = "fetch" /\ r \in open /\ pos[r] < Last
    /\ pos' = [pos EXCEPT ![r] = m]
    /\ msg' = [msg EXCEPT ![c] = m]
    /\ Goto(c, IF m \notin Valueless THEN "send"
               ELSE IF c \in Handlers THEN "loop" ELSE "commit")
    /\ UNCHANGED <<maps, open, committed, reader, buf, handling, cancelling, closing, history, overlap>>

\* FetchMessage fails, at the latest when the reader is closed.
FetchFails(c) ==
    /\ pc[c] = "fetch"
    /\ Goto(c, IF Closed THEN "exit" ELSE "retry")
    /\ UNCHANGED <<maps, kafka, reader, msg, buf, handling, cancelling, closing, history, overlap>>

RetryTick(c) ==
    /\ pc[c] = "retry"
    /\ Goto(c, "loop")
    /\ UNCHANGED <<maps, kafka, reader, msg, buf, handling, cancelling, closing, history, overlap>>

\* The message is written to contents, or the goroutine is told to stop.
Send(c) ==
    /\ pc[c] = "send" /\ Len(buf[c]) < Buffer
    /\ buf' = [buf EXCEPT ![c] = Append(@, msg[c])]
    /\ given' = IF c \in Handlers THEN given ELSE given \cup {msg[c]}
    /\ msg' = IF c \in Handlers THEN [msg EXCEPT ![c] = 0] ELSE msg
    /\ Goto(c, IF c \in Handlers THEN "loop" ELSE "commit")
    /\ UNCHANGED <<maps, kafka, reader, handling, cancelling, closing, handled, overlap>>

Stop(c) ==
    /\ pc[c] \in {"send", "retry"} /\ Stopped(c)
    /\ Goto(c, "exit")
    /\ UNCHANGED <<maps, kafka, reader, msg, buf, handling, cancelling, closing, history, overlap>>

\* The committer of consumer c: CommitMessages succeeds or fails; it must fail
\* once the reader is closed.  Its context is cancelled by a goroutine of its
\* own, some time after the consumer is told to stop.
Commit(c, m) ==
    \/ reader[c] \in open /\ committed' = m
    \/ UNCHANGED committed

AutoCommit(c) ==
    /\ pc[c] = "commit"
    /\ Commit(c, msg[c])
    /\ msg' = [msg EXCEPT ![c] = 0]
    /\ Goto(c, "loop")
    /\ UNCHANGED <<maps, open, pos, reader, buf, handling, cancelling, closing, history, overlap>>

\* The deferred calls: CompareAndDelete of the cancel channel, close contents.
Exit(c) ==
    /\ pc[c] = "exit"
    /\ cancelChan' = IF cancelChan = c THEN None ELSE cancelChan
    /\ Goto(c, "ended")
    /\ UNCHANGED <<closedChans, panicked, readers, kafka, reader, msg, buf,
                   handling, cancelling, closing, history, overlap>>

----------------------------------------------------------------------------
\* The application reads contents.
AppReads(c) ==
    /\ c \notin Handlers /\ buf[c] # <<>>
    /\ buf' = [buf EXCEPT ![c] = Tail(@)]
    /\ UNCHANGED <<maps, kafka, pc, reader, msg, handling, cancelling, closing, history, overlap>>

\* ConsumeWithHandler: one message after the other, also those that are left in
\* contents when the consumer has ended.
Handle(c) ==
    /\ c \in Handlers /\ hpc[c] = "range" /\ buf[c] # <<>>
    /\ hmsg' = [hmsg EXCEPT ![c] = Head(buf[c])]
    /\ buf' = [buf EXCEPT ![c] = Tail(@)]
    /\ given' = given \cup {Head(buf[c])}
    /\ hpc' = [hpc EXCEPT ![c] = "handle"]
    /\ UNCHANGED <<maps, kafka, pc, reader, msg, cancelling, closing, handled, overlap>>

HandleOk(c) ==
    /\ hpc[c] = "handle"
    /\ handled' = handled \cup {hmsg[c]}
    /\ hpc' = [hpc EXCEPT ![c] = "commit"]
    /\ UNCHANGED <<maps, kafka, consuming, hmsg, cancelling, closing, given, overlap>>

HandleCommit(c) ==
    /\ hpc[c] = "commit"
    /\ Commit(c, hmsg[c])
    /\ hpc' = [hpc EXCEPT ![c] = "range"] /\ hmsg' = [hmsg EXCEPT ![c] = 0]
    /\ UNCHANGED <<maps, open, pos, consuming, cancelling, closing, history, overlap>>

HandleFails(c) ==
    /\ hpc[c] = "handle"
    /\ hpc' = [hpc EXCEPT ![c] = "range"] /\ hmsg' = [hmsg EXCEPT ![c] = 0]
    /\ UNCHANGED <<maps, kafka, consuming, cancelling, closing, history, overlap>>

\* The handler panics: handlePanic recovers it, the goroutine is gone.
HandlePanics(c) ==
    /\ hpc[c] = "handle"
    /\ hpc' = [hpc EXCEPT ![c] = "gone"]
    /\ UNCHANGED <<maps, kafka, consuming, hmsg, cancelling, closing, history, overlap>>

----------------------------------------------------------------------------
\* CancelConsume: nothing to do without a cancel channel; otherwise take the
\* reader out of the cache, close it, take the cancel channel, close it.
CancelLoad(k) ==
    /\ cpc[k] = "idle" /\ CallStarts
    /\ cpc' = [cpc EXCEPT ![k] = IF cancelChan = None THEN "idle" ELSE "take"]
    /\ UNCHANGED <<maps, kafka, consuming, handling, crd, cch, closing, history>>

CancelTakeReader(k) ==
    /\ cpc[k] = "take"
    /\ crd' = [crd EXCEPT ![k] = readers]
    /\ readers' = None
    /\ cpc' = [cpc EXCEPT ![k] = "close"]
    /\ UNCHANGED <<cancelChan, closedChans, panicked, kafka, consuming, handling,
                   cch, closing, history, overlap>>

CancelCloseReader(k) ==
    /\ cpc[k] = "close"
    /\ open' = open \ {crd[k]}
    /\ crd' = [crd EXCEPT ![k] = None]
    /\ cpc' = [cpc EXCEPT ![k] = "chan"]
    /\ UNCHANGED <<maps, pos, committed, consuming, handling, cch, closing, history, overlap>>

CancelTakeChan(k) ==
    /\ cpc[k] = "chan"
    /\ cch' = [cch EXCEPT ![k] = cancelChan]
    /\ cancelChan' = None
    /\ cpc' = [cpc EXCEPT ![k] = IF cancelChan = None THEN "idle" ELSE "signal"]
    /\ UNCHANGED <<closedChans, panicked, readers, kafka, consuming, handling,
                   crd, closing, history, overlap>>

CancelSignal(k) ==
    /\ cpc[k] = "signal"
    /\ closedChans' = closedChans \cup {cch[k]}
    /\ panicked' = (panicked \/ cch[k] \in closedChans)
    /\ cch' = [cch EXCEPT ![k] = None]
    /\ cpc' = [cpc EXCEPT ![k] = "idle"]
    /\ UNCHANGED <<cancelChan, readers, kafka, consuming, handling, crd, closing, history, overlap>>

\* Close: mark, signal, close the cached reader and forget it.
CloseStep(from, to) == closing = from /\ closing' = to

CloseMark ==
    /\ CloseStep("no", "mark") /\ CallStarts
    /\ UNCHANGED <<maps, kafka, consuming, handling, cancelling, history>>

CloseSignal ==
    /\ CloseStep("mark", "signal")
    /\ UNCHANGED <<maps, kafka, consuming, handling, cancelling, history, overlap>>

\* Mutant of CloseReaders: the readers are forgotten without being closed.
CloseReadersForgets ==
    /\ closing = "signal"
    /\ closing' = IF readers = None THEN "done" ELSE "forget"
    /\ UNCHANGED <<maps, kafka, consuming, handling, cancelling, history, overlap>>

CloseReaders ==
    /\ closing = "signal"
    /\ closing' = IF readers = None THEN "done" ELSE "forget"
    /\ open' = open \ {readers}
    /\ UNCHANGED <<maps, pos, committed, consuming, handling, cancelling, history, overlap>>

CloseForget ==
    /\ CloseStep("forget", "done")
    /\ readers' = None
    /\ UNCHANGED <<cancelChan, closedChans, panicked, kafka, consuming, handling,
                   cancelling, history, overlap>>

----------------------------------------------------------------------------
Goroutine(c) ==
    \/ Register(c) \/ GetReader(c) \/ GetReaderFails(c) \/ LoopTop(c) \/ Fetch(c)
    \/ RetryTick(c) \/ Send(c) \/ Stop(c) \/ AutoCommit(c) \/ Exit(c)

Handler(c) ==
    Handle(c) \/ HandleOk(c) \/ HandleCommit(c) \/ HandleFails(c) \/ HandlePanics(c)

CancelConsume(k) ==
    CancelTakeReader(k) \/ CancelCloseReader(k) \/ CancelTakeChan(k) \/ CancelSignal(k)

Close == CloseMark \/ CloseSignal \/ CloseReaders \/ CloseForget

Next ==
    \/ \E c \in Consumers :
        Consume(c) \/ Goroutine(c) \/ FetchFails(c) \/ AppReads(c) \/ Handler(c)
    \/ \E k \in Cancels : CancelLoad(k) \/ CancelConsume(k)
    \/ Close

Spec == Init /\ [][Next]_vars

----------------------------------------------------------------------------
(***************************************************************************)
(* Properties.                                                             *)
(***************************************************************************)

Running(c) == pc[c] \in {"loop", "fetch", "retry", "send", "commit"}

\* Every variable has its type.
TypeOK ==
    /\ cancelChan \in Consumers \cup {None} /\ closedChans \subseteq Consumers
    /\ panicked \in BOOLEAN
    /\ readers \in Consumers \cup {None} /\ open \subseteq Consumers
    /\ pos \in [Consumers -> 0..Last] /\ committed \in 0..Last
    /\ cpc \in [Cancels -> {"idle", "take", "close", "chan", "signal"}]
    /\ pc \in [Consumers -> {"none", "register", "reader", "loop", "fetch", "retry",
                             "send", "commit", "exit", "ended"}]
    /\ reader \in [Consumers -> Consumers \cup {None}]
    /\ \A c \in Consumers : Len(buf[c]) <= Buffer
    /\ hpc \in [Consumers -> {"range", "handle", "commit", "gone"}]
    /\ crd \in [Cancels -> Consumers \cup {None}] /\ cch \in [Cancels -> Consumers \cup {None}]
    /\ closing \in {"no", "mark", "signal", "forget", "done"}
    /\ given \subseteq 1..Last /\ handled \subseteq given
    /\ overlap \in BOOLEAN

\* If the calls of Consume, CancelConsume and Close do not overlap, an offset is
\* committed only when every message up to it has been written to contents or,
\* with ConsumeWithHandler, given to the handler (or has no value): no matter how
\* an old consumer that still winds up and its successor are interleaved.
CommittedIsGiven == ~overlap => 1..committed \subseteq given \cup Valueless

\* Close reaches every consumer: when it has returned, nobody waits for a message
\* of a reader that stays open (the reader may have been cached, be in the hands
\* of a CancelConsume, or be created after Close has looked for readers).
CloseReaches ==
    closing = "done" => \A c \in Consumers : pc[c] = "fetch" =>
        reader[c] \notin open \/ \E k \in Cancels : crd[k] = reader[c]

\* CancelConsume reaches the consumer whose cancel channel it closes: it does not
\* wait for a message of an open reader, unless calls overlapped (a
\* CancelConsume in the middle of Consume finds no reader to close).
CancelReaches ==
    \A c \in closedChans : pc[c] = "fetch" => reader[c] \notin open \/ overlap

\* However CancelConsume calls overlap, with each other and with Consume, every
\* consumer that runs can still be cancelled: its cancel channel is in the map,
\* or closed, or in the hands of a CancelConsume that will close it.  No cancel
\* channel is closed twice.  And neither Close nor CancelConsume leaves a consumer
\* waiting on an open reader.  (And every variable has its type.)
CanBeCancelled ==
    /\ TypeOK /\ ~panicked
    /\ \A c \in Consumers : Running(c) =>
        cancelChan = c \/ c \in closedChans \/ \E k \in Cancels : cch[k] = c
    /\ CloseReaches /\ CancelReaches

\* What the comment on ConsumeWithHandler says: an offset is committed only
\* after the handler succeeded.
CommittedIsHandled == Handlers = Consumers => 1..committed \subseteq handled \cup Valueless
=============================================================================
