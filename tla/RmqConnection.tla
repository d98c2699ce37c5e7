--------------------------- MODULE RmqConnection ---------------------------
(***************************************************************************)
(* The connection of a RabbitMQOperator (src/rabbitmqx/rmq.go): how it is  *)
(* dialled, watched, re-dialled and closed.                                *)
(*                                                                         *)
(* Threads: the reconnect daemon (tryReConnect(true)), callers that need a *)
(* channel (createChannel and recheck, both through tryReConnect(false))   *)
(* and one call of Close.  A step reads or writes what the Go code touches *)
(* between two points where another goroutine can get in the way.  The     *)
(* network may drop any open connection and refuse any dial.               *)
(*                                                                         *)
(* client.closeConnNotify is named by the connection it was registered     *)
(* with: amqp091 closes that channel when the connection ends, so a        *)
(* receive from it succeeds exactly when the connection is not open.  An   *)
(* identifier may be used for a new connection once nothing refers to it.  *)
(***************************************************************************)
EXTENDS Naturals, FiniteSets

CONSTANTS
    Callers,       \* goroutines that borrow channels
    Daemon,        \* the reconnect goroutine of the operator
    Closer,        \* the goroutine that calls Close
    Conns,         \* identifiers of connections
    NoConn,        \* a nil *amqp.Connection
    NoThread,      \* nobody holds connMu
    AttemptTimes   \* LimitConf.AttemptTimes

ASSUME ConnectionAssumption ==
    /\ AttemptTimes \in Nat \ {0}
    /\ NoConn \notin Conns
    /\ Daemon # Closer
    /\ Daemon \notin Callers
    /\ Closer \notin Callers
    /\ NoThread \notin Callers \cup {Daemon, Closer}

VARIABLES
    up,         \* the connections that are open
    conn,       \* client.conn
    notify,     \* the connection client.closeConnNotify is registered with
    isReady,    \* isReady
    closed,     \* the closed flag
    closeCh,    \* TRUE once closeCh is closed
    connMu,     \* holder of client.connMu
    pc,         \* where each thread is
    entry,      \* the function a caller is in: createChannel or recheck
    count,      \* failed dials of the thread in this call
    sel,        \* the channel the daemon's select evaluated
    outcome     \* result of a caller's last channel request

vars == <<up, conn, notify, isReady, closed, closeCh, connMu,
          pc, entry, count, sel, outcome>>

shared == <<up, conn, notify, isReady, closed, closeCh>>

Threads == Callers \cup {Daemon}
Locations == {"connect", "absent", "idle", "check", "lock", "double", "dial",
              "notify", "ready", "wait", "select", "recv", "down", "exit",
              "valid", "channel", "begin", "unready", "signal", "closing",
              "closeConn", "done"}

Goto(t, l) == pc' = [pc EXCEPT ![t] = l]

\* tryReConnect with nothing to do: the daemon goes on to wait for a
\* disconnect, a caller returns connected = true to createChannel or recheck.
ProceedTo(t) ==
    IF t = Daemon THEN "select"
    ELSE IF entry[t] = "createChannel" THEN "valid" ELSE "channel"

Init ==
    /\ up = {} /\ conn = NoConn /\ notify = NoConn
    /\ isReady = FALSE /\ closed = FALSE /\ closeCh = FALSE
    /\ connMu = NoThread
    /\ pc = [t \in Threads \cup {Closer} |->
                IF t = Daemon THEN "connect"
                ELSE IF t = Closer THEN "begin" ELSE "idle"]
    /\ entry = [p \in Callers |-> "createChannel"]
    /\ count = [t \in Threads |-> 0]
    /\ sel = NoConn
    /\ outcome = [p \in Callers |-> "none"]

Fresh == {c \in Conns : c \notin up \cup {conn, notify, sel}}

----------------------------------------------------------------------------
\* NewRabbitMQOperator: connect() dials up to AttemptTimes times before any
\* other goroutine exists; the daemon is started only if it succeeds, but the
\* operator itself is handed out either way.
ConnectOk ==
    /\ pc[Daemon] = "connect"
    /\ \E c \in Fresh :
        /\ up' = up \cup {c} /\ conn' = c /\ notify' = c
    /\ isReady' = TRUE
    /\ count' = [count EXCEPT ![Daemon] = 0]
    /\ Goto(Daemon, "check")
    /\ UNCHANGED <<closed, closeCh, connMu, entry, sel, outcome>>

ConnectFail ==
    /\ pc[Daemon] = "connect"
    /\ conn' = NoConn
    /\ count' = [count EXCEPT ![Daemon] = @ + 1]
    /\ Goto(Daemon, IF count[Daemon] + 1 = AttemptTimes THEN "absent" ELSE "connect")
    /\ UNCHANGED <<up, notify, isReady, closed, closeCh, connMu, entry, sel, outcome>>

Created == pc[Daemon] # "connect"

----------------------------------------------------------------------------
\* A caller enters createChannel (a pool miss) or recheck (a pooled channel
\* found closed).
CreateChannel(p) ==
    /\ pc[p] = "idle" /\ Created
    /\ entry' = [entry EXCEPT ![p] = "createChannel"]
    /\ count' = [count EXCEPT ![p] = 0]
    /\ Goto(p, IF ~isReady /\ ~closed THEN "check" ELSE "valid")
    /\ outcome' = [outcome EXCEPT ![p] = "none"]
    /\ UNCHANGED <<shared, connMu, sel>>

Recheck(p) ==
    /\ pc[p] = "idle" /\ Created
    /\ entry' = [entry EXCEPT ![p] = "recheck"]
    /\ count' = [count EXCEPT ![p] = 0]
    /\ Goto(p, "check")
    /\ outcome' = [outcome EXCEPT ![p] = "none"]
    /\ UNCHANGED <<shared, connMu, sel>>

\* Mutant of Check: the loop goes on although the operator is closed.
CheckOnlyReady(t) ==
    /\ pc[t] = "check"
    /\ Goto(t, IF ~isReady THEN "lock" ELSE ProceedTo(t))
    /\ UNCHANGED <<shared, connMu, entry, count, sel, outcome>>

\* The top of the loop of tryReConnect.
Check(t) ==
    /\ pc[t] = "check"
    /\ Goto(t, IF ~isReady /\ ~closed THEN "lock" ELSE ProceedTo(t))
    /\ UNCHANGED <<shared, connMu, entry, count, sel, outcome>>

Lock(t) ==
    /\ pc[t] = "lock"
    /\ connMu = NoThread
    /\ connMu' = t
    /\ Goto(t, "double")
    /\ UNCHANGED <<shared, entry, count, sel, outcome>>

\* Mutant of DoubleCheck: Close is not looked at again under connMu.
DoubleCheckOnlyReady(t) ==
    /\ pc[t] = "double"
    /\ IF isReady
       THEN connMu' = NoThread /\ Goto(t, "check")
       ELSE UNCHANGED connMu /\ Goto(t, "dial")
    /\ UNCHANGED <<shared, entry, count, sel, outcome>>

\* The double check under connMu.
DoubleCheck(t) ==
    /\ pc[t] = "double"
    /\ IF isReady \/ closed
       THEN connMu' = NoThread /\ Goto(t, "check")
       ELSE UNCHANGED connMu /\ Goto(t, "dial")
    /\ UNCHANGED <<shared, entry, count, sel, outcome>>

DialOk(t) ==
    /\ pc[t] = "dial"
    /\ \E c \in Fresh : up' = up \cup {c} /\ conn' = c
    /\ Goto(t, "notify")
    /\ UNCHANGED <<notify, isReady, closed, closeCh, connMu, entry, count, sel, outcome>>

\* A failed dial leaves a nil connection behind; a caller that used up its
\* attempts returns the error, everybody else waits for a tick or for Close.
DialFail(t) ==
    /\ pc[t] = "dial"
    /\ conn' = NoConn
    /\ connMu' = NoThread
    /\ IF t = Daemon
       THEN Goto(t, "wait") /\ UNCHANGED <<count, outcome>>
       ELSE /\ count' = [count EXCEPT ![t] = @ + 1]
            /\ IF count[t] + 1 >= AttemptTimes
               THEN Goto(t, "idle") /\ outcome' = [outcome EXCEPT ![t] = "error"]
               ELSE Goto(t, "wait") /\ UNCHANGED outcome
    /\ UNCHANGED <<up, notify, isReady, closed, closeCh, entry, sel>>

\* Mutant of SetNotify: the new connection is not watched.
SetNotifyForgotten(t) ==
    /\ pc[t] = "notify"
    /\ Goto(t, "ready")
    /\ UNCHANGED <<shared, connMu, entry, count, sel, outcome>>

SetNotify(t) ==
    /\ pc[t] = "notify"
    /\ notify' = conn
    /\ Goto(t, "ready")
    /\ UNCHANGED <<up, conn, isReady, closed, closeCh, connMu, entry, count, sel, outcome>>

SetReady(t) ==
    /\ pc[t] = "ready"
    /\ isReady' = TRUE
    /\ connMu' = NoThread
    /\ Goto(t, "check")
    /\ UNCHANGED <<up, conn, notify, closed, closeCh, entry, count, sel, outcome>>

\* After a failed dial: the tick falls through to the end of the loop body,
\* it does not start the loop again.
WaitTick(t) ==
    /\ pc[t] = "wait"
    /\ Goto(t, ProceedTo(t))
    /\ UNCHANGED <<shared, connMu, entry, count, sel, outcome>>

WaitClosed(t) ==
    /\ pc[t] = "wait" /\ closeCh
    /\ IF t = Daemon
       THEN Goto(t, "exit") /\ UNCHANGED outcome
       ELSE Goto(t, "idle") /\ outcome' = [outcome EXCEPT ![t] = "error"]
    /\ UNCHANGED <<shared, connMu, entry, count, sel>>

\* The daemon's select evaluates closeConnNotify once, then blocks on it.
Select ==
    /\ pc[Daemon] = "select"
    /\ sel' = notify
    /\ Goto(Daemon, "recv")
    /\ UNCHANGED <<shared, connMu, entry, count, outcome>>

RecvClosed ==
    /\ pc[Daemon] = "recv" /\ closeCh
    /\ Goto(Daemon, "exit")
    /\ UNCHANGED <<shared, connMu, entry, count, sel, outcome>>

RecvNotify ==
    /\ pc[Daemon] = "recv" /\ sel \in Conns \ up
    /\ Goto(Daemon, "down")
    /\ UNCHANGED <<shared, connMu, entry, count, sel, outcome>>

MarkDown ==
    /\ pc[Daemon] = "down"
    /\ isReady' = FALSE
    /\ Goto(Daemon, "check")
    /\ UNCHANGED <<up, conn, notify, closed, closeCh, connMu, entry, count, sel, outcome>>

\* createChannel checks the connection before it uses it, recheck does not;
\* a nil connection makes conn.Channel() panic.
Valid(p) ==
    /\ pc[p] = "valid"
    /\ IF conn \in up
       THEN Goto(p, "channel") /\ UNCHANGED outcome
       ELSE Goto(p, "idle") /\ outcome' = [outcome EXCEPT ![p] = "error"]
    /\ UNCHANGED <<shared, connMu, entry, count, sel>>

Channel(p) ==
    /\ pc[p] = "channel"
    /\ outcome' = [outcome EXCEPT ![p] = IF conn = NoConn THEN "panic"
                                         ELSE IF conn \in up THEN "ok" ELSE "error"]
    /\ Goto(p, "idle")
    /\ UNCHANGED <<shared, connMu, entry, count, sel>>

----------------------------------------------------------------------------
\* Close, serialised by the operator's mutex: mark, signal, then close the
\* connection under connMu.
CloseMark ==
    /\ pc[Closer] = "begin" /\ Created
    /\ closed' = TRUE
    /\ Goto(Closer, "unready")
    /\ UNCHANGED <<up, conn, notify, isReady, closeCh, connMu, entry, count, sel, outcome>>

CloseUnready ==
    /\ pc[Closer] = "unready"
    /\ isReady' = FALSE
    /\ Goto(Closer, "signal")
    /\ UNCHANGED <<up, conn, notify, closed, closeCh, connMu, entry, count, sel, outcome>>

\* Mutant of CloseSignal: closeCh is not closed.
CloseSignalForgotten ==
    /\ pc[Closer] = "signal"
    /\ Goto(Closer, "closing")
    /\ UNCHANGED <<shared, connMu, entry, count, sel, outcome>>

CloseSignal ==
    /\ pc[Closer] = "signal"
    /\ closeCh' = TRUE
    /\ Goto(Closer, "closing")
    /\ UNCHANGED <<up, conn, notify, isReady, closed, connMu, entry, count, sel, outcome>>

CloseLock ==
    /\ pc[Closer] = "closing"
    /\ connMu = NoThread
    /\ connMu' = Closer
    /\ Goto(Closer, "closeConn")
    /\ UNCHANGED <<shared, entry, count, sel, outcome>>

CloseConn ==
    /\ pc[Closer] = "closeConn"
    /\ up' = up \ {conn}
    /\ connMu' = NoThread
    /\ Goto(Closer, "done")
    /\ UNCHANGED <<conn, notify, isReady, closed, closeCh, entry, count, sel, outcome>>

Close == CloseMark \/ CloseUnready \/ CloseSignal \/ CloseLock \/ CloseConn

\* The broker or the network ends a connection.
Drop(c) ==
    /\ c \in up
    /\ up' = up \ {c}
    /\ UNCHANGED <<conn, notify, isReady, closed, closeCh, connMu, pc, entry,
                   count, sel, outcome>>

----------------------------------------------------------------------------
\* One pass of tryReConnect by thread t, dialling apart.
TryReConnect(t) ==
    \/ Check(t) \/ Lock(t) \/ DoubleCheck(t) \/ DialFail(t) \/ SetNotify(t)
    \/ SetReady(t) \/ WaitTick(t) \/ WaitClosed(t)

Watch == Select \/ RecvNotify \/ MarkDown

Next ==
    \/ ConnectOk \/ ConnectFail
    \/ \E p \in Callers : CreateChannel(p) \/ Recheck(p) \/ Valid(p) \/ Channel(p)
    \/ \E t \in Threads : TryReConnect(t) \/ DialOk(t)
    \/ Watch \/ RecvClosed
    \/ Close
    \/ \E c \in Conns : Drop(c)

\* Every goroutine that can run does run and gets connMu in the end; a dial
\* the daemon tries for ever succeeds some day; Go's select does not ignore a
\* ready case for ever.
Fairness ==
    /\ WF_vars(ConnectOk)
    /\ \A t \in Threads : WF_vars(TryReConnect(t)) /\ SF_vars(Lock(t))
    /\ \A p \in Callers : WF_vars(Valid(p) \/ Channel(p))
    /\ SF_vars(DialOk(Daemon))
    /\ WF_vars(Watch)
    /\ SF_vars(RecvClosed)
    /\ WF_vars(CloseUnready \/ CloseSignal \/ CloseConn)
    /\ SF_vars(CloseLock)

Spec == Init /\ [][Next]_vars /\ Fairness

----------------------------------------------------------------------------
(***************************************************************************)
(* Properties.                                                             *)
(***************************************************************************)

\* Every variable has its type.
TypeOK ==
    /\ up \in SUBSET Conns
    /\ conn \in Conns \cup {NoConn}
    /\ notify \in Conns \cup {NoConn}
    /\ sel \in Conns \cup {NoConn}
    /\ isReady \in BOOLEAN /\ closed \in BOOLEAN /\ closeCh \in BOOLEAN
    /\ connMu \in Threads \cup {Closer, NoThread}
    /\ pc \in [Threads \cup {Closer} -> Locations]
    /\ entry \in [Callers -> {"createChannel", "recheck"}]
    /\ count \in [Threads -> 0..AttemptTimes]
    /\ outcome \in [Callers -> {"none", "ok", "error", "panic"}]

\* isReady promises a connection that the operator watches: whoever reads
\* isReady = TRUE finds a non-nil client.conn, and closeConnNotify belongs to
\* that very connection (createChannel and consumeCore rely on it).
ReadyIsWatched == isReady => conn # NoConn /\ notify = conn

\* Once Close has returned, client.conn is not an open connection, however a
\* dial in progress was interleaved with Close.
ClosedForGood == pc[Closer] = "done" => conn \notin up

\* Once Close has returned nobody replaces client.conn any more.
NoReconnectAfterClose == [][pc[Closer] = "done" => conn' = conn]_vars

\* The daemon goroutine ends after Close.
DaemonExits == closed ~> pc[Daemon] \in {"exit", "absent"}

\* Every request for a channel ends once the network stops dropping
\* connections: no thread is stuck on connMu or in the loop of tryReConnect.
RequestsEnd ==
    <>[][\A c \in Conns : ~Drop(c)]_vars
        => \A p \in Callers : pc[p] # "idle" ~> pc[p] = "idle"
=============================================================================
