------------------------ MODULE RmqConnectionProofs ------------------------
(***************************************************************************)
(* Proofs about RmqConnection, for any number of callers, connections and  *)
(* attempts.                                                               *)
(***************************************************************************)
EXTENDS RmqConnection, TLAPS

\* The locations of tryReConnect between Lock and Unlock of connMu.
Locked == {"double", "dial", "notify", "ready"}

\* Which function each kind of thread is executing, and how many dials of the
\* call in progress may have failed.
PcOK ==
    /\ pc[Closer] \in {"begin", "unready", "signal", "closing", "closeConn", "done"}
    /\ pc[Daemon] \in {"connect", "absent", "check", "lock", "wait", "select",
                       "recv", "down", "exit"} \cup Locked
    /\ \A p \in Callers :
        pc[p] \in {"idle", "check", "lock", "wait", "valid", "channel"} \cup Locked
    /\ \A p \in Callers : pc[p] # "idle" => count[p] < AttemptTimes
    /\ pc[Daemon] = "connect" => count[Daemon] < AttemptTimes

\* Before NewRabbitMQOperator returns nobody else has the operator.
AloneAtFirst ==
    pc[Daemon] = "connect" =>
        /\ \A p \in Callers : pc[p] = "idle"
        /\ pc[Closer] = "begin"
        /\ ~isReady

\* connMu is held by whoever is in one of its critical sections.
MuOK ==
    /\ \A t \in Threads : pc[t] \in Locked => connMu = t
    /\ pc[Closer] = "closeConn" => connMu = Closer

\* What a thread that passed the double check knows until it unlocks.
DialOK ==
    \A t \in Threads :
        /\ pc[t] \in {"dial", "notify", "ready"} => ~isReady
        /\ pc[t] \in {"notify", "ready"} => conn # NoConn
        /\ pc[t] = "ready" => notify = conn

\* Close marks the operator before it takes connMu, so that from then on
\* nobody is left in the middle of a dial.
CloseOK ==
    /\ pc[Closer] # "begin" => closed
    /\ pc[Closer] \in {"closeConn", "done"} =>
        \A t \in Threads : pc[t] \notin {"dial", "notify", "ready"}

\* The inductive invariant.
IInv ==
    /\ TypeOK /\ PcOK /\ AloneAtFirst /\ MuOK /\ DialOK /\ CloseOK
    /\ ReadyIsWatched /\ ClosedForGood

USE ConnectionAssumption DEF Threads, Locked

\* The operator under construction satisfies the invariant.
LEMMA InitIInv == Init => IInv
<1> SUFFICES ASSUME Init PROVE IInv
  OBVIOUS
<1>1. TypeOK
  <2>1. isReady \in BOOLEAN /\ closed \in BOOLEAN /\ closeCh \in BOOLEAN
    BY DEF Init
  <2>2. pc \in [Threads \cup {Closer} -> Locations] BY DEF Init, Locations
  <2>3. count \in [Threads -> 0..AttemptTimes] BY DEF Init
  <2> QED BY <2>1, <2>2, <2>3 DEF Init, TypeOK
<1>2. PcOK /\ AloneAtFirst /\ MuOK
  BY DEF Init, PcOK, AloneAtFirst, MuOK
<1>3. DialOK /\ CloseOK /\ ReadyIsWatched /\ ClosedForGood
  BY DEF Init, DialOK, CloseOK, ReadyIsWatched, ClosedForGood
<1> QED BY <1>1, <1>2, <1>3 DEF IInv

\* Every step keeps the types and the per-thread facts.
LEMMA NextTypes ==
    ASSUME IInv, [Next]_vars
    PROVE  (TypeOK /\ PcOK /\ AloneAtFirst)'
<1> USE DEF IInv, TypeOK, PcOK, AloneAtFirst, Locations, Goto, shared
<1>1. CASE ConnectOk BY <1>1 DEF ConnectOk, Fresh
<1>2. CASE ConnectFail BY <1>2 DEF ConnectFail
<1>3. ASSUME NEW p \in Callers,
             CreateChannel(p) \/ Recheck(p) \/ Valid(p) \/ Channel(p)
      PROVE  (TypeOK /\ PcOK /\ AloneAtFirst)'
  BY <1>3 DEF CreateChannel, Recheck, Valid, Channel, Created
<1>4. ASSUME NEW t \in Threads, TryReConnect(t) \/ DialOk(t)
      PROVE  (TypeOK /\ PcOK /\ AloneAtFirst)'
  <2>1. CASE Check(t) BY <2>1 DEF Check, ProceedTo
  <2>2. CASE Lock(t) BY <2>2 DEF Lock
  <2>3. CASE DoubleCheck(t) BY <2>3 DEF DoubleCheck
  <2>4. CASE DialFail(t) BY <2>4 DEF DialFail
  <2>5. CASE SetNotify(t) BY <2>5 DEF SetNotify
  <2>6. CASE SetReady(t) BY <2>6 DEF SetReady
  <2>7. CASE WaitTick(t) BY <2>7 DEF WaitTick, ProceedTo
  <2>8. CASE WaitClosed(t) BY <2>8 DEF WaitClosed
  <2>9. CASE DialOk(t) BY <2>9 DEF DialOk, Fresh
  <2> QED BY <1>4, <2>1, <2>2, <2>3, <2>4, <2>5, <2>6, <2>7, <2>8, <2>9
          DEF TryReConnect
<1>5. CASE Watch \/ RecvClosed
  BY ZenonT(60), <1>5 DEF Watch, Select, RecvNotify, MarkDown, RecvClosed
<1>6. CASE Close
  <2>1. CASE CloseMark BY <2>1 DEF CloseMark, Created
  <2>2. CASE CloseUnready BY <2>2 DEF CloseUnready
  <2>3. CASE CloseSignal BY <2>3 DEF CloseSignal
  <2>4. CASE CloseLock BY <2>4 DEF CloseLock
  <2>5. CASE CloseConn BY <2>5 DEF CloseConn
  <2> QED BY <1>6, <2>1, <2>2, <2>3, <2>4, <2>5 DEF Close
<1>7. ASSUME NEW c \in Conns, Drop(c)
      PROVE  (TypeOK /\ PcOK /\ AloneAtFirst)'
  BY <1>7 DEF Drop
<1>8. CASE UNCHANGED vars BY <1>8 DEF vars
<1> QED BY <1>1, <1>2, <1>3, <1>4, <1>5, <1>6, <1>7, <1>8 DEF Next

\* Every step keeps the mutual exclusion of connMu and what it protects.
LEMMA NextSafe ==
    ASSUME IInv, [Next]_vars
    PROVE  (MuOK /\ DialOK /\ CloseOK /\ ReadyIsWatched /\ ClosedForGood)'
<1> USE DEF IInv, TypeOK, PcOK, AloneAtFirst, Goto, shared,
            MuOK, DialOK, CloseOK, ReadyIsWatched, ClosedForGood
<1> DEFINE Safe == MuOK /\ DialOK /\ CloseOK /\ ReadyIsWatched /\ ClosedForGood
<1>1. CASE ConnectOk BY <1>1 DEF ConnectOk, Fresh
<1>2. CASE ConnectFail BY <1>2 DEF ConnectFail
<1>3. ASSUME NEW p \in Callers,
             CreateChannel(p) \/ Recheck(p) \/ Valid(p) \/ Channel(p)
      PROVE  Safe'
  BY <1>3 DEF CreateChannel, Recheck, Valid, Channel
<1>4. ASSUME NEW t \in Threads, TryReConnect(t) \/ DialOk(t)
      PROVE  Safe'
  <2>1. CASE Check(t) BY <2>1 DEF Check, ProceedTo
  <2>2. CASE Lock(t) BY <2>2 DEF Lock
  <2>3. CASE DoubleCheck(t) BY <2>3 DEF DoubleCheck
  <2>4. CASE DialFail(t) BY <2>4 DEF DialFail
  <2>5. CASE SetNotify(t) BY <2>5 DEF SetNotify
  <2>6. CASE SetReady(t) BY <2>6 DEF SetReady
  <2>7. CASE WaitTick(t) BY <2>7 DEF WaitTick, ProceedTo
  <2>8. CASE WaitClosed(t) BY <2>8 DEF WaitClosed
  <2>9. CASE DialOk(t) BY <2>9 DEF DialOk, Fresh
  <2> QED BY <1>4, <2>1, <2>2, <2>3, <2>4, <2>5, <2>6, <2>7, <2>8, <2>9
          DEF TryReConnect
<1>5. CASE Watch \/ RecvClosed
  BY <1>5 DEF Watch, Select, RecvNotify, MarkDown, RecvClosed
<1>6. CASE Close
  BY <1>6 DEF Close, CloseMark, CloseUnready, CloseSignal, CloseLock, CloseConn
<1>7. ASSUME NEW c \in Conns, Drop(c)
      PROVE  Safe'
  BY <1>7 DEF Drop
<1>8. CASE UNCHANGED vars BY <1>8 DEF vars
<1> QED BY <1>1, <1>2, <1>3, <1>4, <1>5, <1>6, <1>7, <1>8 DEF Next

\* The inductive invariant holds in every reachable state.
THEOREM Inductive == Spec => []IInv
<1>1. IInv /\ [Next]_vars => IInv'
  BY NextTypes, NextSafe DEF IInv
<1> QED BY InitIInv, <1>1, PTL DEF Spec

\* Type correctness of the connection component.
THEOREM TypeCorrect == Spec => []TypeOK
<1>1. IInv => TypeOK BY DEF IInv
<1> QED BY Inductive, <1>1, PTL

\* isReady never promises a connection that nobody watches.
THEOREM ReadyWatched == Spec => []ReadyIsWatched
<1>1. IInv => ReadyIsWatched BY DEF IInv
<1> QED BY Inductive, <1>1, PTL

\* Close leaves no open client.conn behind, whatever dial it raced with.
THEOREM CloseWins == Spec => []ClosedForGood
<1>1. IInv => ClosedForGood BY DEF IInv
<1> QED BY Inductive, <1>1, PTL

\* After Close has returned no step of any goroutine assigns client.conn.
THEOREM NoLateDial == Spec => NoReconnectAfterClose
<1>1. IInv /\ [Next]_vars => [pc[Closer] = "done" => conn' = conn]_vars
  <2> SUFFICES ASSUME IInv, Next, pc[Closer] = "done"
               PROVE  conn' = conn
    BY DEF vars
  <2> USE DEF IInv, TypeOK, PcOK, AloneAtFirst, CloseOK
  <2>1. ~ConnectOk /\ ~ConnectFail BY DEF ConnectOk, ConnectFail
  <2>2. ASSUME NEW t \in Threads PROVE ~DialOk(t) /\ ~DialFail(t)
    BY DEF DialOk, DialFail
  <2>3. ASSUME NEW p \in Callers,
               CreateChannel(p) \/ Recheck(p) \/ Valid(p) \/ Channel(p)
        PROVE  conn' = conn
    BY <2>3 DEF CreateChannel, Recheck, Valid, Channel, shared
  <2>4. ASSUME NEW t \in Threads, TryReConnect(t) PROVE conn' = conn
    BY <2>2, <2>4 DEF TryReConnect, Check, Lock, DoubleCheck, SetNotify,
                      SetReady, WaitTick, WaitClosed, shared
  <2>5. ASSUME Watch \/ RecvClosed \/ Close PROVE conn' = conn
    BY <2>5 DEF Watch, Select, RecvNotify, MarkDown, RecvClosed, Close, CloseMark,
                CloseUnready, CloseSignal, CloseLock, CloseConn, shared
  <2>6. ASSUME NEW c \in Conns, Drop(c) PROVE conn' = conn
    BY <2>6 DEF Drop
  <2> QED BY <2>1, <2>2, <2>3, <2>4, <2>5, <2>6 DEF Next
<1> QED BY Inductive, <1>1, PTL DEF Spec, NoReconnectAfterClose
=============================================================================
