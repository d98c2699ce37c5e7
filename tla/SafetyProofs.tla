---------------------------- MODULE SafetyProofs ----------------------------
(***************************************************************************)
(* Proofs about components without fairness, for any values of their       *)
(* constants.  KafkaConsume: every consumer can be cancelled, once; Close  *)
(* and CancelConsume reach whoever waits for a message; and what is        *)
(* committed was given to the application.  EsOperator and EnsureDatabase: *)
(* what a call answers is true whatever others did between its requests.   *)
(***************************************************************************)
EXTENDS KafkaConsume, Services, FiniteSetTheorems, TLAPS

----------------------------------------------------------------------------
(***************************************************************************)
(* KafkaConsume.                                                           *)
(***************************************************************************)
\* The rest of the types: messages, and what is in contents.
Types ==
    /\ TypeOK
    /\ msg \in [Consumers -> 0..Last] /\ hmsg \in [Consumers -> 0..Last]
    /\ buf \in [Consumers -> Seq(1..Last)]
    /\ \A c \in Consumers :
         /\ pc[c] \in {"send", "commit"} => msg[c] \in 1..Last
         /\ hpc[c] \in {"handle", "commit"} => hmsg[c] \in given

----------------------------------------------------------------------------
\* A cancel channel is in one place: in the map, in the hands of one
\* CancelConsume, or closed; and its consumer has put it into the map.
ChanOnce ==
    /\ \A c \in Consumers : cancelChan = c => c \notin closedChans
    /\ \A k \in Cancels :
         /\ cch[k] # None <=> cpc[k] = "signal"
         /\ cch[k] # None => cch[k] # cancelChan /\ cch[k] \notin closedChans
         /\ \A l \in Cancels : cch[l] # None /\ cch[l] = cch[k] => l = k
    /\ \A c \in Consumers : pc[c] \in {"none", "register"} =>
         cancelChan # c /\ c \notin closedChans /\ \A k \in Cancels : cch[k] # c

\* A consumer that has got past LoadOrStore has its channel in one of them.
ChanKnown ==
    \A c \in Consumers : Running(c) \/ pc[c] = "reader" =>
        cancelChan = c \/ c \in closedChans \/ \E k \in Cancels : cch[k] = c

ChanInv == ~panicked /\ ChanOnce /\ ChanKnown

----------------------------------------------------------------------------
\* A reader is made by its consumer, in getReader.
ReaderMade ==
    \A c \in Consumers : pc[c] \in {"none", "register", "reader"} =>
        /\ readers # c /\ c \notin open
        /\ \A d \in Consumers : reader[d] # c
        /\ \A k \in Cancels : crd[k] # c

\* While calls do not overlap there is one at a time, and no Consume is under
\* way once Close has begun.
OneCall ==
    ~overlap =>
        /\ \A c, d \in Consumers :
             pc[c] \in {"register", "reader"} /\ pc[d] \in {"register", "reader"} => c = d
        /\ \A k, l \in Cancels : cpc[k] # "idle" /\ cpc[l] # "idle" => k = l
        /\ \A c \in Consumers : pc[c] \in {"register", "reader"} =>
             ~Closed /\ \A k \in Cancels : cpc[k] = "idle"

\* An open reader is in the cache or in the hands of a CancelConsume, which
\* closes it; only a Close that overlaps with a Consume may lose one.
OpenKept ==
    closing # "done" \/ ~overlap =>
        \A r \in open : readers = r \/ \E k \in Cancels : crd[k] = r

ReaderTaken ==
    /\ \A k \in Cancels : crd[k] # None => cpc[k] = "close"
    /\ ~overlap =>
         /\ \A k \in Cancels : cpc[k] \in {"close", "chan", "signal"} => readers = None
         /\ \A k \in Cancels : cpc[k] \in {"chan", "signal"} => open = {}
         /\ closing \in {"forget", "done"} => readers \notin open

\* Once Close has closed the cached reader, nobody waits for another one.
FetchersReached ==
    closing \in {"forget", "done"} =>
        \A c \in Consumers : pc[c] = "fetch" =>
            reader[c] \notin open \/ \E k \in Cancels : crd[k] = reader[c]

ReaderInv ==
    ReaderMade /\ OneCall /\ OpenKept /\ ReaderTaken /\ FetchersReached /\ CancelReaches

----------------------------------------------------------------------------
\* Without overlap every consumer has a reader of its own, since whoever leaves
\* the map of cancel channels has left no reader behind.
OwnReader ==
    ~overlap =>
        /\ \A c \in Consumers : pc[c] = "exit" => Closed \/ c \in closedChans
        /\ cancelChan = None /\ ~Closed => readers = None
        /\ \A c \in Consumers : pc[c] = "reader" => cancelChan = c /\ readers = None
        /\ \A c \in Consumers : Running(c) => reader[c] = c

\* Messages that are through, and those that consumer c has in contents for its
\* handler.
Through == given \cup Valueless
Held(c) == IF c \in Handlers THEN {buf[c][i] : i \in 1..Len(buf[c])} ELSE {}

\* What comes before a message in contents is through or in contents before it.
InOrder(c) ==
    c \in Handlers => \A i \in 1..Len(buf[c]) : \A m \in 1..buf[c][i] :
        m \in Through \/ \E j \in 1..i : buf[c][j] = m

\* The messages of consumer c leave its reader and contents one after the other.
Passed(c) ==
    /\ pc[c] \in {"none", "register", "reader"} => buf[c] = <<>>
    /\ pc[c] \in {"loop", "fetch", "retry", "commit"} =>
         1..pos[c] \subseteq Through \cup Held(c)
    /\ pc[c] = "send" =>
         msg[c] = pos[c] /\ 1..pos[c] \subseteq Through \cup Held(c) \cup {msg[c]}
    /\ pc[c] = "commit" => 1..msg[c] \subseteq Through /\ c \notin Handlers
    /\ hpc[c] \in {"handle", "commit"} => 1..hmsg[c] \subseteq Through

GivenInOrder ==
    ~overlap =>
        /\ 1..committed \subseteq Through
        /\ \A c \in Consumers : InOrder(c) /\ Passed(c)

IInv == Types /\ ChanInv /\ ReaderInv /\ OwnReader /\ GivenInOrder

\* A step of c that only adds to what is through concerns c alone.
LEMMA GivenFrame ==
    ASSUME GivenInOrder, NEW c \in Consumers,
           \A d \in Consumers \ {c} :
               /\ pc'[d] = pc[d] /\ pos'[d] = pos[d] /\ msg'[d] = msg[d] /\ buf'[d] = buf[d]
               /\ hpc'[d] = hpc[d] /\ hmsg'[d] = hmsg[d],
           Through \subseteq Through', ~overlap' => ~overlap,
           ~overlap' => 1..committed' \subseteq Through' /\ InOrder(c)' /\ Passed(c)'
    PROVE  GivenInOrder'
<1>1. \A d \in Consumers \ {c} : Held(d)' = Held(d)
  BY ZenonT(60) DEF Held
<1>2. ASSUME ~overlap, NEW d \in Consumers \ {c} PROVE InOrder(d)' /\ Passed(d)'
  <2>1. InOrder(d) /\ Passed(d)
    BY <1>2 DEF GivenInOrder
  <2>2. InOrder(d)'
    BY <2>1 DEF InOrder
  <2>3. Passed(d)'
    BY <1>1, <2>1 DEF Passed
  <2> QED BY <2>2, <2>3
<1> QED BY <1>2 DEF GivenInOrder

\* A step of c that only moves it on.
LEMMA GivenMove ==
    ASSUME Types, GivenInOrder, NEW c \in Consumers, NEW l, pc' = [pc EXCEPT ![c] = l],
           \/ l \in {"exit", "ended"}
           \/ l \in {"register", "reader"} /\ pc[c] \in {"none", "register"}
           \/ l \in {"loop", "fetch", "retry"} /\ pc[c] \in {"loop", "fetch", "retry"},
           UNCHANGED <<pos, committed, buf, msg, hpc, hmsg, given>>, ~overlap' => ~overlap
    PROVE  GivenInOrder'
<1>1. Through' = Through /\ Held(c)' = Held(c) /\ pc'[c] = l
  BY DEF Through, Held, Types, TypeOK
<1>2. InOrder(c) => InOrder(c)'
  BY <1>1 DEF InOrder
<1>3. Passed(c) => Passed(c)'
  BY <1>1 DEF Passed
<1> QED BY <1>1, <1>2, <1>3, GivenFrame DEF GivenInOrder

\* A fetched message follows those that are through or in contents.
LEMMA GivenFetch ==
    ASSUME Types, OwnReader, GivenInOrder, NEW c \in Consumers, Fetch(c)
    PROVE  GivenInOrder'
<1> DEFINE m == pos[c] + 1
<1>1. SUFFICES ASSUME ~overlap PROVE GivenInOrder'
  BY DEF Fetch, GivenInOrder
<1>2. pc[c] = "fetch" /\ reader[c] = c /\ pos[c] \in Nat
  BY <1>1 DEF Fetch, OwnReader, Running, Types, TypeOK
<1>3. /\ pos' = [pos EXCEPT ![c] = m] /\ msg' = [msg EXCEPT ![c] = m]
      /\ \/ pc' = [pc EXCEPT ![c] = "send"]
         \/ pc' = [pc EXCEPT ![c] = "loop"] /\ m \in Valueless
         \/ pc' = [pc EXCEPT ![c] = "commit"] /\ m \in Valueless /\ c \notin Handlers
      /\ UNCHANGED <<committed, buf, hpc, hmsg, given, overlap>>
  BY <1>2 DEF Fetch, Goto, history, handling
<1>4. 1..m = 1..pos[c] \cup {m}
  BY <1>2
<1> HIDE DEF m
<1>5. Through' = Through /\ Held(c)' = Held(c) /\ pos'[c] = m /\ msg'[c] = m
  BY <1>3 DEF Through, Held, Types, TypeOK
<1>6. InOrder(c)'
  BY <1>1, <1>3, <1>5 DEF GivenInOrder, InOrder
<1>7. Passed(c) /\ 1..pos[c] \subseteq Through \cup Held(c)
  BY <1>1, <1>2 DEF GivenInOrder, Passed
<1>8. pc'[c] = "commit" => Held(c) = {} /\ m \in Through
  BY <1>3, <1>2 DEF Held, Through, Types, TypeOK
<1>9. pc'[c] = "loop" => m \in Through
  BY <1>3, <1>2 DEF Through, Types, TypeOK
<1>10. pc'[c] \in {"send", "loop", "commit"} /\ (pc'[c] = "commit" => c \notin Handlers)
  BY <1>3 DEF Types, TypeOK
<1>11. Passed(c)'
  BY <1>3, <1>4, <1>5, <1>7, <1>8, <1>9, <1>10 DEF Passed
<1> QED BY <1>1, <1>3, <1>5, <1>6, <1>11, GivenFrame DEF GivenInOrder, Types, TypeOK

\* A message sent goes to the end of contents, or to the application.
LEMMA GivenSend ==
    ASSUME Types, OwnReader, GivenInOrder, NEW c \in Consumers, Send(c)
    PROVE  GivenInOrder'
<1> DEFINE m == msg[c]
           b == buf[c]
<1>1. SUFFICES ASSUME ~overlap PROVE GivenInOrder'
  BY DEF Send, GivenInOrder
<1>2. InOrder(c) /\ Passed(c) /\ pc[c] = "send" /\ 1..committed \subseteq Through
  BY <1>1 DEF GivenInOrder, Send
<1>3. b \in Seq(1..Last) /\ m \in 1..Last
  BY <1>2 DEF Types
<1>4. m = pos[c] /\ 1..m \subseteq Through \cup Held(c) \cup {m}
  BY <1>2 DEF Passed
<1>5. /\ buf' = [buf EXCEPT ![c] = Append(b, m)] /\ buf'[c] = Append(b, m)
      /\ UNCHANGED <<pos, committed, hpc, hmsg, overlap>>
  BY DEF Send, handling, Types, kafka
<1>6. CASE c \in Handlers
  <2>1. /\ given' = given /\ pc' = [pc EXCEPT ![c] = "loop"] /\ pc'[c] = "loop"
        /\ msg' = [msg EXCEPT ![c] = 0]
    BY <1>6 DEF Send, Goto, Types, TypeOK
  <2>2. Through' = Through
    BY <2>1 DEF Through
  <2>3. /\ Len(buf'[c]) = Len(b) + 1 /\ buf'[c][Len(b) + 1] = m /\ Len(b) \in Nat
        /\ \A i \in 1..Len(b) : buf'[c][i] = b[i]
    BY <1>3, <1>5
  <2>4. Held(c)' = Held(c) \cup {m}
    BY SMTT(30), <1>6, <2>3 DEF Held
  <2>5. \A n \in 1..m : n \in Through \/ \E j \in 1..(Len(b) + 1) : buf'[c][j] = n
    BY <1>4, <1>6, <2>3 DEF Held
  <2>6. ASSUME NEW i \in 1..Len(b), NEW n \in 1..buf'[c][i]
        PROVE  n \in Through \/ \E j \in 1..i : buf'[c][j] = n
    <3>1. i \in 1..Len(b) /\ n \in 1..b[i] /\ \A j \in 1..i : j \in 1..Len(b)
      BY <2>3, <2>6
    <3>2. n \in Through \/ \E j \in 1..i : b[j] = n
      BY <1>2, <1>6, <3>1 DEF InOrder
    <3> QED BY <2>3, <3>1, <3>2
  <2>7. \A i \in 1..Len(buf'[c]) : i \in 1..Len(b) \/ i = Len(b) + 1
    BY <2>3
  <2>8. InOrder(c)'
    BY <2>2, <2>3, <2>5, <2>6, <2>7 DEF InOrder
  <2>9. Passed(c)'
    BY <1>2, <1>4, <1>5, <2>1, <2>2, <2>4 DEF Passed
  <2> QED BY <1>1, <1>2, <1>5, <2>1, <2>2, <2>8, <2>9, GivenFrame
<1>7. CASE c \notin Handlers
  <2>1. /\ given' = given \cup {m} /\ pc' = [pc EXCEPT ![c] = "commit"] /\ pc'[c] = "commit"
        /\ msg' = msg
    BY <1>7 DEF Send, Goto, Types, TypeOK
  <2>2. Through' = Through \cup {m} /\ Held(c) = {}
    BY <1>7, <2>1 DEF Through, Held
  <2>3. InOrder(c)'
    BY <1>7 DEF InOrder
  <2>4. Passed(c)'
    BY <1>2, <1>4, <1>5, <1>7, <2>1, <2>2 DEF Passed
  <2> QED BY <1>1, <1>2, <1>5, <2>1, <2>2, <2>3, <2>4, GivenFrame
<1> QED BY <1>6, <1>7

\* The handler takes the first message of contents.
LEMMA GivenHandle ==
    ASSUME Types, GivenInOrder, NEW c \in Consumers, Handle(c)
    PROVE  GivenInOrder'
<1> DEFINE b == buf[c]
<1>1. SUFFICES ASSUME ~overlap PROVE GivenInOrder'
  BY DEF Handle, GivenInOrder
<1>2. InOrder(c) /\ Passed(c) /\ 1..committed \subseteq Through
  BY <1>1 DEF GivenInOrder
<1>3. b \in Seq(1..Last) /\ b # <<>> /\ c \in Handlers
  BY DEF Handle, Types
<1>4. /\ buf' = [buf EXCEPT ![c] = Tail(b)] /\ buf'[c] = Tail(b)
      /\ hmsg' = [hmsg EXCEPT ![c] = Head(b)] /\ hmsg'[c] = Head(b)
      /\ hpc' = [hpc EXCEPT ![c] = "handle"] /\ given' = given \cup {Head(b)}
      /\ UNCHANGED <<pc, pos, committed, msg, overlap>>
  BY DEF Handle, Types, kafka
<1>5. Through' = Through \cup {Head(b)}
  BY <1>4 DEF Through
<1>6. /\ Len(b) \in Nat \ {0} /\ Head(b) = b[1] /\ Len(Tail(b)) = Len(b) - 1
      /\ \A i \in 1..(Len(b) - 1) : Tail(b)[i] = b[i + 1]
  BY <1>3
<1>7. Held(c) \subseteq Held(c)' \cup {Head(b)}
  <2>1. ASSUME NEW i \in 1..Len(b) PROVE b[i] \in Held(c)' \cup {Head(b)}
    <3>1. CASE i = 1
      BY <1>6, <3>1
    <3>2. CASE i # 1
      <4>1. i - 1 \in 1..(Len(b) - 1) /\ (i - 1) + 1 = i
        BY <1>6, <3>2
      <4>2. i - 1 \in 1..Len(buf'[c]) /\ buf'[c][i - 1] = b[i]
        BY <1>4, <1>6, <4>1
      <4> QED BY <1>3, <4>2 DEF Held
    <3> QED BY <3>1, <3>2
  <2> QED BY <1>3, <2>1 DEF Held
<1>8. 1..Head(b) \subseteq Through'
  BY <1>2, <1>3, <1>5, <1>6 DEF InOrder
<1>9. InOrder(c)'
  <2>1. ASSUME NEW i \in 1..Len(buf'[c]), NEW m \in 1..buf'[c][i]
        PROVE  m \in Through' \/ \E j \in 1..i : buf'[c][j] = m
    <3>1. i \in 1..(Len(b) - 1) /\ i + 1 \in 1..Len(b)
      <4>1. i \in 1..(Len(b) - 1)
        BY <1>4, <1>6
      <4> HIDE DEF b
      <4> QED BY <1>6, <4>1
    <3>4. m \in 1..b[i + 1]
      BY <1>4, <1>6, <3>1
    <3>2. CASE m \in Through
      BY <1>5, <3>2
    <3>3. ASSUME NEW j \in 1..(i + 1), b[j] = m
          PROVE  m \in Through' \/ \E n \in 1..i : buf'[c][n] = m
      <4>1. CASE j = 1
        BY <1>5, <1>6, <3>3, <4>1
      <4>2. CASE j # 1
        <5>1. j - 1 \in 1..i /\ j - 1 \in 1..(Len(b) - 1) /\ (j - 1) + 1 = j
          <6> HIDE DEF b
          <6> QED BY <1>6, <3>1, <3>3, <4>2
        <5>2. buf'[c][j - 1] = m
          BY <1>4, <1>6, <3>3, <5>1
        <5> QED BY <5>1, <5>2
      <4> QED BY <4>1, <4>2
    <3> QED BY <1>2, <1>3, <3>1, <3>2, <3>3, <3>4 DEF InOrder
  <2> QED BY <2>1 DEF InOrder
<1>10. Passed(c)'
  BY <1>2, <1>3, <1>4, <1>5, <1>7, <1>8 DEF Passed
<1> QED BY <1>1, <1>2, <1>4, <1>5, <1>9, <1>10, GivenFrame DEF Types, TypeOK

\* A new reader starts after the committed offset.
LEMMA GivenGetReader ==
    ASSUME Types, OwnReader, GivenInOrder, NEW c \in Consumers, GetReader(c)
    PROVE  GivenInOrder'
<1>1. SUFFICES ASSUME ~overlap PROVE GivenInOrder'
  BY DEF GetReader, GivenInOrder, history
<1>2. /\ readers = None /\ buf[c] = <<>> /\ 1..committed \subseteq Through
      /\ InOrder(c) /\ Passed(c) /\ committed \in 0..Last
  BY <1>1 DEF GetReader, OwnReader, GivenInOrder, Passed, Types, TypeOK
<1>3. /\ pos' = [pos EXCEPT ![c] = committed] /\ pos'[c] = committed
      /\ pc' = [pc EXCEPT ![c] = "loop"] /\ pc'[c] = "loop"
      /\ UNCHANGED <<committed, buf, msg, hpc, hmsg, given, overlap>>
  BY <1>2 DEF GetReader, Goto, handling, history, Types, TypeOK
<1>4. Through' = Through /\ InOrder(c)'
  BY <1>2, <1>3 DEF Through, InOrder
<1>5. Passed(c)'
  BY <1>2, <1>3, <1>4 DEF Passed
<1> QED BY <1>1, <1>2, <1>3, <1>4, <1>5, GivenFrame DEF GivenInOrder, Types, TypeOK

\* Steps that only move the consumer on.
LEMMA GivenMoves ==
    ASSUME Types, GivenInOrder, NEW c \in Consumers,
           \/ Consume(c) \/ Register(c) \/ GetReaderFails(c) \/ LoopTop(c)
           \/ FetchFails(c) \/ RetryTick(c) \/ Stop(c) \/ Exit(c)
    PROVE  GivenInOrder'
<1>1. UNCHANGED <<pos, committed, buf, msg, hpc, hmsg, given>> /\ (~overlap' => ~overlap)
  <2> USE DEF kafka, handling, history
  <2>1. CASE Consume(c)
    BY <2>1 DEF Consume, CallStarts
  <2>2. CASE Register(c) \/ GetReaderFails(c) \/ LoopTop(c)
    BY <2>2 DEF Register, GetReaderFails, LoopTop
  <2>3. CASE FetchFails(c) \/ RetryTick(c) \/ Stop(c) \/ Exit(c)
    BY <2>3 DEF FetchFails, RetryTick, Stop, Exit
  <2> QED BY <2>1, <2>2, <2>3
<1>2. CASE Consume(c)
  <2>1. pc[c] = "none" /\ pc' = [pc EXCEPT ![c] = "register"]
    BY <1>2 DEF Consume, Goto
  <2> QED BY <1>1, <2>1, GivenMove
<1>3. CASE Register(c)
  <2>1. pc[c] = "register" /\ \E l \in {"reader", "ended"} : pc' = [pc EXCEPT ![c] = l]
    BY <1>3 DEF Register, Goto
  <2> QED BY <1>1, <2>1, GivenMove
<1>4. CASE GetReaderFails(c) \/ Stop(c) \/ Exit(c)
  <2>1. \E l \in {"exit", "ended"} : pc' = [pc EXCEPT ![c] = l]
    BY <1>4 DEF GetReaderFails, Stop, Exit, Goto
  <2> QED BY <1>1, <2>1, GivenMove
<1>5. CASE LoopTop(c) \/ FetchFails(c) \/ RetryTick(c)
  <2>1. /\ pc[c] \in {"loop", "fetch", "retry"}
        /\ \E l \in {"exit", "fetch", "retry", "loop"} : pc' = [pc EXCEPT ![c] = l]
    BY <1>5 DEF LoopTop, FetchFails, RetryTick, Goto
  <2> QED BY <1>1, <2>1, GivenMove
<1> QED BY <1>2, <1>3, <1>4, <1>5

\* A message that is committed after it was written to contents is through.
LEMMA GivenAutoCommit ==
    ASSUME Types, GivenInOrder, NEW c \in Consumers, AutoCommit(c)
    PROVE  GivenInOrder'
<1>1. SUFFICES ASSUME ~overlap PROVE GivenInOrder'
  BY DEF AutoCommit, GivenInOrder, history
<1>2. /\ InOrder(c) /\ Passed(c) /\ 1..committed \subseteq Through
      /\ pc[c] = "commit" /\ 1..msg[c] \subseteq Through
  BY <1>1 DEF GivenInOrder, Passed, AutoCommit
<1>3. /\ pc' = [pc EXCEPT ![c] = "loop"] /\ pc'[c] = "loop"
      /\ msg' = [msg EXCEPT ![c] = 0] /\ committed' \in {committed, msg[c]}
      /\ UNCHANGED <<pos, buf, hpc, hmsg, given, overlap>>
  BY DEF AutoCommit, Commit, Goto, handling, history, Types, TypeOK
<1>4. Through' = Through /\ Held(c)' = Held(c) /\ InOrder(c)'
  BY <1>2, <1>3 DEF Through, Held, InOrder
<1>5. Passed(c)'
  BY <1>2, <1>3, <1>4 DEF Passed
<1> QED BY <1>1, <1>2, <1>3, <1>4, <1>5, GivenFrame

\* What the application reads leaves contents of a consumer without a handler.
LEMMA GivenAppReads ==
    ASSUME Types, GivenInOrder, NEW c \in Consumers, AppReads(c)
    PROVE  GivenInOrder'
<1>1. SUFFICES ASSUME ~overlap PROVE GivenInOrder'
  BY DEF AppReads, GivenInOrder, history
<1>2. /\ Passed(c) /\ 1..committed \subseteq Through /\ c \notin Handlers
      /\ buf[c] # <<>> /\ \A d \in Consumers \ {c} : buf'[d] = buf[d]
      /\ UNCHANGED <<pc, pos, committed, msg, hpc, hmsg, given, overlap>>
  BY <1>1 DEF GivenInOrder, AppReads, kafka, handling, history, Types
<1>3. Through' = Through /\ Held(c)' = Held(c) /\ InOrder(c)'
  BY <1>2 DEF Through, Held, InOrder
<1>4. Passed(c)'
  BY <1>2, <1>3 DEF Passed
<1> QED BY <1>1, <1>2, <1>3, <1>4, GivenFrame

\* The message a handler has finished is committed or not.
LEMMA GivenHandled ==
    ASSUME Types, GivenInOrder, NEW c \in Consumers,
           HandleOk(c) \/ HandleCommit(c) \/ HandleFails(c) \/ HandlePanics(c)
    PROVE  GivenInOrder'
<1>1. UNCHANGED <<pc, pos, buf, msg, given, overlap>>
  BY DEF HandleOk, HandleCommit, HandleFails, HandlePanics, kafka, consuming, history
<1>2. SUFFICES ASSUME ~overlap PROVE GivenInOrder'
  BY <1>1 DEF GivenInOrder
<1>3. InOrder(c) /\ Passed(c) /\ 1..committed \subseteq Through
  BY <1>2 DEF GivenInOrder
<1>4. \A d \in Consumers \ {c} : hpc'[d] = hpc[d] /\ hmsg'[d] = hmsg[d]
  BY DEF HandleOk, HandleCommit, HandleFails, HandlePanics, Types, TypeOK
<1>5. /\ \/ hpc'[c] \in {"range", "gone"}
         \/ hpc[c] = "handle" /\ hmsg'[c] = hmsg[c]
      /\ committed' = committed \/ (hpc[c] = "commit" /\ committed' = hmsg[c])
  BY DEF HandleOk, HandleCommit, HandleFails, HandlePanics, Commit, kafka, Types, TypeOK
<1>6. Through' = Through /\ Held(c)' = Held(c) /\ InOrder(c)'
  BY <1>1, <1>3 DEF Through, Held, InOrder
<1>7. 1..committed' \subseteq Through
  BY <1>3, <1>5 DEF Passed
<1>8. Passed(c)'
  BY <1>1, <1>3, <1>5, <1>6 DEF Passed
<1> QED BY <1>1, <1>2, <1>4, <1>6, <1>7, <1>8, GivenFrame

\* CancelConsume and Close touch no message.
LEMMA GivenStay ==
    ASSUME GivenInOrder, UNCHANGED <<pc, pos, committed, buf, msg, hpc, hmsg, given>>,
           ~overlap' => ~overlap
    PROVE  GivenInOrder'
<1>1. Through' = Through /\ \A c \in Consumers : Held(c)' = Held(c)
  BY DEF Through, Held
<1>2. ASSUME ~overlap, NEW c \in Consumers PROVE InOrder(c)' /\ Passed(c)'
  BY <1>1, <1>2 DEF GivenInOrder, InOrder, Passed
<1> QED BY <1>1, <1>2 DEF GivenInOrder

\* A step that moves consumer c on, when it is not in Consume any more.
LEMMA OneCallMove ==
    ASSUME Types, OneCall, NEW c \in Consumers,
           NEW l \in {"loop", "fetch", "retry", "send", "commit", "exit", "ended"},
           pc' = [pc EXCEPT ![c] = l], UNCHANGED <<overlap, cpc, closing>>
    PROVE  OneCall'
<1>1. \A d \in Consumers : pc'[d] \in {"register", "reader"} =>
        pc[d] \in {"register", "reader"}
  BY DEF Types, TypeOK
<1> QED BY <1>1 DEF OneCall, Closed

----------------------------------------------------------------------------
\* The message after one that is not the last.
LEMMA NextMessage ==
    ASSUME NEW p \in 0..Last, p < Last, Last \in Nat
    PROVE  p + 1 \in 1..Last /\ p + 1 \in 0..Last
OBVIOUS

\* A step keeps the types.
LEMMA TypesStep ==
    ASSUME Types, ChanInv, [Next]_vars
    PROVE  Types'
<1>0. Last \in Nat /\ Buffer \in Nat \ {0} /\ 0 \in 0..Last /\ 1..Last \subseteq 0..Last
  BY KafkaAssumption
<1> USE <1>0 DEF Types, TypeOK, Goto, maps, kafka, consuming, handling, cancelling,
     history
<1>1. ASSUME NEW c \in Consumers, Consume(c) PROVE Types'
  BY <1>1 DEF Consume, CallStarts, Calling
<1>2. ASSUME NEW c \in Consumers, Register(c) PROVE Types'
  BY ZenonT(60), <1>2 DEF Register
<1>3. ASSUME NEW c \in Consumers, GetReader(c) PROVE Types'
  <2>1. /\ readers' \in Consumers \cup {None} /\ open' \subseteq Consumers
        /\ pos' \in [Consumers -> 0..Last]
        /\ reader' \in [Consumers -> Consumers \cup {None}]
    BY <1>3, ZenonT(30) DEF GetReader
  <2>2. /\ pc' = [pc EXCEPT ![c] = "loop"]
        /\ UNCHANGED <<cancelChan, closedChans, panicked, committed, msg, buf,
                       handling, cancelling, closing, history, overlap>>
    BY <1>3 DEF GetReader
  <2>3. \A d \in Consumers : pc'[d] \in {"send", "commit"} => msg'[d] \in 1..Last
    BY <2>2
  <2>4. pc' \in [Consumers -> {"none", "register", "reader", "loop", "fetch", "retry",
                             "send", "commit", "exit", "ended"}]
    BY <2>2
  <2> QED BY <2>1, <2>2, <2>3, <2>4
<1>4. ASSUME NEW c \in Consumers, GetReaderFails(c) PROVE Types'
  BY <1>4 DEF GetReaderFails
<1>5. ASSUME NEW c \in Consumers, LoopTop(c) PROVE Types'
  BY <1>5 DEF LoopTop, Stopped, CloseCh
<1>6. ASSUME NEW c \in Consumers, Fetch(c) PROVE Types'
  <2> DEFINE r == reader[c]
             m == pos[r] + 1
  <2>1. r \in Consumers /\ pos[r] \in 0..Last /\ pos[r] < Last
    BY <1>6 DEF Fetch
  <2>2. m \in 1..Last /\ m \in 0..Last
    BY <2>1, NextMessage
  <2>3. /\ pos' \in [Consumers -> 0..Last] /\ msg' \in [Consumers -> 0..Last]
        /\ msg'[c] \in 1..Last /\ \A d \in Consumers \ {c} : msg'[d] = msg[d]
    BY <1>6, <2>1, <2>2 DEF Fetch
  <2>4. \E l \in {"send", "loop", "commit"} : pc' = [pc EXCEPT ![c] = l]
    BY <1>6 DEF Fetch
  <2>5. UNCHANGED <<maps, open, committed, reader, buf, handling, cancelling,
                   closing, history, overlap>>
    BY <1>6 DEF Fetch
  <2>6. \A d \in Consumers : pc'[d] \in {"send", "commit"} => msg'[d] \in 1..Last
    <3> HIDE DEF r, m
    <3> QED BY <2>3, <2>4
  <2>7. pc' \in [Consumers -> {"none", "register", "reader", "loop", "fetch", "retry",
                             "send", "commit", "exit", "ended"}]
    <3> HIDE DEF r, m
    <3> QED BY <2>4
  <2> HIDE DEF r, m
  <2> QED BY <2>3, <2>5, <2>6, <2>7
<1>7. ASSUME NEW c \in Consumers, FetchFails(c) PROVE Types'
  BY <1>7 DEF FetchFails
<1>8. ASSUME NEW c \in Consumers, RetryTick(c) PROVE Types'
  BY <1>8 DEF RetryTick
<1>9. ASSUME NEW c \in Consumers, Send(c) PROVE Types'
  <2>1. buf[c] \in Seq(1..Last) /\ msg[c] \in 1..Last /\ Len(buf[c]) < Buffer
    BY <1>9 DEF Send
  <2>2. /\ Append(buf[c], msg[c]) \in Seq(1..Last)
        /\ Len(Append(buf[c], msg[c])) <= Buffer
    BY <2>1
  <2>3. /\ buf' \in [Consumers -> Seq(1..Last)]
        /\ \A d \in Consumers : Len(buf'[d]) <= Buffer
    BY <1>9, <2>2 DEF Send
  <2> QED BY <1>9, <2>1, <2>3 DEF Send
<1>10. ASSUME NEW c \in Consumers, Stop(c) PROVE Types'
  BY <1>10 DEF Stop, Stopped, CloseCh
<1>11. ASSUME NEW c \in Consumers, AutoCommit(c) PROVE Types'
  BY <1>11 DEF AutoCommit, Commit
<1>12. ASSUME NEW c \in Consumers, Exit(c) PROVE Types'
  BY <1>12 DEF Exit
<1>13. ASSUME NEW c \in Consumers, AppReads(c) PROVE Types'
  <2>1. buf[c] \in Seq(1..Last) /\ buf[c] # <<>> /\ Len(buf[c]) <= Buffer
    BY <1>13 DEF AppReads
  <2>2. Tail(buf[c]) \in Seq(1..Last) /\ Len(Tail(buf[c])) <= Buffer
    BY <2>1
  <2>3. /\ buf' \in [Consumers -> Seq(1..Last)]
        /\ \A d \in Consumers : Len(buf'[d]) <= Buffer
    BY <1>13, <2>2 DEF AppReads
  <2> QED BY <1>13, <2>3 DEF AppReads
<1>14. ASSUME NEW c \in Consumers, Handle(c) PROVE Types'
  <2>1. buf[c] \in Seq(1..Last) /\ buf[c] # <<>> /\ Len(buf[c]) <= Buffer
    BY <1>14 DEF Handle
  <2>2. /\ Tail(buf[c]) \in Seq(1..Last) /\ Len(Tail(buf[c])) <= Buffer
        /\ Head(buf[c]) \in 1..Last
    BY SMTT(60), <2>1
  <2>3. /\ buf' \in [Consumers -> Seq(1..Last)]
        /\ \A d \in Consumers : Len(buf'[d]) <= Buffer
    BY <1>14, <2>2 DEF Handle
  <2> QED BY <1>14, <2>2, <2>3 DEF Handle
<1>15. ASSUME NEW c \in Consumers, HandleOk(c) PROVE Types'
  BY <1>15 DEF HandleOk
<1>16. ASSUME NEW c \in Consumers, HandleCommit(c) PROVE Types'
  BY <1>16 DEF HandleCommit, Commit
<1>17. ASSUME NEW c \in Consumers, HandleFails(c) PROVE Types'
  BY <1>17 DEF HandleFails
<1>18. ASSUME NEW c \in Consumers, HandlePanics(c) PROVE Types'
  BY <1>18 DEF HandlePanics
<1>19. ASSUME NEW k \in Cancels, CancelLoad(k) PROVE Types'
  BY <1>19 DEF CancelLoad, CallStarts, Calling
<1>20. ASSUME NEW k \in Cancels, CancelTakeReader(k) PROVE Types'
  BY <1>20 DEF CancelTakeReader
<1>21. ASSUME NEW k \in Cancels, CancelCloseReader(k) PROVE Types'
  BY <1>21 DEF CancelCloseReader
<1>22. ASSUME NEW k \in Cancels, CancelTakeChan(k) PROVE Types'
  BY <1>22 DEF CancelTakeChan
<1>23. ASSUME NEW k \in Cancels, CancelSignal(k) PROVE Types'
  <2>1. cch[k] \in Consumers
    BY <1>23 DEF CancelSignal, ChanInv, ChanOnce
  <2> QED BY <1>23, <2>1 DEF CancelSignal
<1>24. ASSUME CloseMark PROVE Types'
  BY <1>24 DEF CloseMark, CloseStep, CallStarts, Calling
<1>25. ASSUME CloseSignal PROVE Types'
  BY <1>25 DEF CloseSignal, CloseStep
<1>26. ASSUME CloseReaders PROVE Types'
  BY <1>26 DEF CloseReaders
<1>27. ASSUME CloseForget PROVE Types'
  BY <1>27 DEF CloseForget, CloseStep
<1>28. CASE UNCHANGED vars
  BY <1>28 DEF vars
<1> QED
  BY <1>1, <1>2, <1>3, <1>4, <1>5, <1>6, <1>7, <1>8, <1>9, <1>10, <1>11, <1>12, <1>13,
       <1>14, <1>15, <1>16, <1>17, <1>18, <1>19, <1>20, <1>21, <1>22, <1>23, <1>24,
       <1>25, <1>26, <1>27, <1>28
  DEF Next, Goroutine, Handler, CancelConsume, Close

\* A step keeps every cancel channel in one place and closes none twice.
LEMMA ChanOnceStep ==
    ASSUME Types, ~panicked, ChanOnce, [Next]_vars
    PROVE  (~panicked /\ ChanOnce)'
<1>0. None \notin Consumers
  BY KafkaAssumption
<1> USE <1>0 DEF Types, TypeOK, ChanOnce, Goto, maps, kafka, consuming, handling,
     cancelling, history
<1>1. ASSUME NEW c \in Consumers, Consume(c) PROVE (~panicked /\ ChanOnce)'
  BY <1>1 DEF Consume, CallStarts, Calling
<1>2. ASSUME NEW c \in Consumers, Register(c) PROVE (~panicked /\ ChanOnce)'
  BY <1>2 DEF Register
<1>3. ASSUME NEW c \in Consumers, GetReader(c) PROVE (~panicked /\ ChanOnce)'
  BY <1>3 DEF GetReader
<1>4. ASSUME NEW c \in Consumers, GetReaderFails(c) PROVE (~panicked /\ ChanOnce)'
  BY <1>4 DEF GetReaderFails
<1>5. ASSUME NEW c \in Consumers, LoopTop(c) PROVE (~panicked /\ ChanOnce)'
  BY <1>5 DEF LoopTop, Stopped, CloseCh
<1>6. ASSUME NEW c \in Consumers, Fetch(c) PROVE (~panicked /\ ChanOnce)'
  <2>1. \E l \in {"send", "loop", "commit"} : pc' = [pc EXCEPT ![c] = l]
    BY <1>6 DEF Fetch
  <2>2. pc[c] = "fetch" /\ UNCHANGED <<cancelChan, closedChans, panicked, cpc, cch>>
    BY <1>6 DEF Fetch
  <2> QED BY <2>1, <2>2
<1>7. ASSUME NEW c \in Consumers, FetchFails(c) PROVE (~panicked /\ ChanOnce)'
  BY <1>7 DEF FetchFails
<1>8. ASSUME NEW c \in Consumers, RetryTick(c) PROVE (~panicked /\ ChanOnce)'
  BY <1>8 DEF RetryTick
<1>9. ASSUME NEW c \in Consumers, Send(c) PROVE (~panicked /\ ChanOnce)'
  BY <1>9 DEF Send
<1>10. ASSUME NEW c \in Consumers, Stop(c) PROVE (~panicked /\ ChanOnce)'
  BY <1>10 DEF Stop, Stopped, CloseCh
<1>11. ASSUME NEW c \in Consumers, AutoCommit(c) PROVE (~panicked /\ ChanOnce)'
  BY <1>11 DEF AutoCommit, Commit
<1>12. ASSUME NEW c \in Consumers, Exit(c) PROVE (~panicked /\ ChanOnce)'
  BY <1>12 DEF Exit
<1>13. ASSUME NEW c \in Consumers, AppReads(c) PROVE (~panicked /\ ChanOnce)'
  BY <1>13 DEF AppReads
<1>14. ASSUME NEW c \in Consumers, Handle(c) PROVE (~panicked /\ ChanOnce)'
  BY <1>14 DEF Handle
<1>15. ASSUME NEW c \in Consumers, HandleOk(c) PROVE (~panicked /\ ChanOnce)'
  BY <1>15 DEF HandleOk
<1>16. ASSUME NEW c \in Consumers, HandleCommit(c) PROVE (~panicked /\ ChanOnce)'
  BY <1>16 DEF HandleCommit, Commit
<1>17. ASSUME NEW c \in Consumers, HandleFails(c) PROVE (~panicked /\ ChanOnce)'
  BY <1>17 DEF HandleFails
<1>18. ASSUME NEW c \in Consumers, HandlePanics(c) PROVE (~panicked /\ ChanOnce)'
  BY <1>18 DEF HandlePanics
<1>19. ASSUME NEW k \in Cancels, CancelLoad(k) PROVE (~panicked /\ ChanOnce)'
  BY <1>19 DEF CancelLoad, CallStarts, Calling
<1>20. ASSUME NEW k \in Cancels, CancelTakeReader(k) PROVE (~panicked /\ ChanOnce)'
  BY <1>20 DEF CancelTakeReader
<1>21. ASSUME NEW k \in Cancels, CancelCloseReader(k) PROVE (~panicked /\ ChanOnce)'
  BY <1>21 DEF CancelCloseReader
<1>22. ASSUME NEW k \in Cancels, CancelTakeChan(k) PROVE (~panicked /\ ChanOnce)'
  BY <1>22 DEF CancelTakeChan
<1>23. ASSUME NEW k \in Cancels, CancelSignal(k) PROVE (~panicked /\ ChanOnce)'
  BY <1>23 DEF CancelSignal
<1>24. ASSUME CloseMark PROVE (~panicked /\ ChanOnce)'
  BY <1>24 DEF CloseMark, CloseStep, CallStarts, Calling
<1>25. ASSUME CloseSignal PROVE (~panicked /\ ChanOnce)'
  BY <1>25 DEF CloseSignal, CloseStep
<1>26. ASSUME CloseReaders PROVE (~panicked /\ ChanOnce)'
  BY <1>26 DEF CloseReaders
<1>27. ASSUME CloseForget PROVE (~panicked /\ ChanOnce)'
  BY <1>27 DEF CloseForget, CloseStep
<1>28. CASE UNCHANGED vars
  BY <1>28 DEF vars
<1> QED
  BY <1>1, <1>2, <1>3, <1>4, <1>5, <1>6, <1>7, <1>8, <1>9, <1>10, <1>11, <1>12, <1>13,
       <1>14, <1>15, <1>16, <1>17, <1>18, <1>19, <1>20, <1>21, <1>22, <1>23, <1>24,
       <1>25, <1>26, <1>27, <1>28
  DEF Next, Goroutine, Handler, CancelConsume, Close

\* A step loses no cancel channel of a consumer that runs.
LEMMA ChanKnownStep ==
    ASSUME Types, ChanOnce, ChanKnown, [Next]_vars
    PROVE  ChanKnown'
<1>0. None \notin Consumers
  BY KafkaAssumption
<1> USE <1>0 DEF Types, TypeOK, ChanOnce, ChanKnown, Running, Goto, maps, kafka,
     consuming, handling, cancelling, history
<1>1. ASSUME NEW c \in Consumers, Consume(c) PROVE ChanKnown'
  BY <1>1 DEF Consume, CallStarts, Calling
<1>2. ASSUME NEW c \in Consumers, Register(c) PROVE ChanKnown'
  <2>1. \/ cancelChan = None /\ cancelChan' = c /\ pc' = [pc EXCEPT ![c] = "reader"]
        \/ cancelChan' = cancelChan /\ pc' = [pc EXCEPT ![c] = "ended"]
    BY <1>2 DEF Register
  <2>2. pc[c] = "register" /\ UNCHANGED <<closedChans, cch>>
    BY <1>2 DEF Register
  <2>3. CASE cancelChan' = cancelChan /\ pc' = [pc EXCEPT ![c] = "ended"]
    BY <2>2, <2>3
  <2>4. CASE cancelChan = None /\ cancelChan' = c /\ pc' = [pc EXCEPT ![c] = "reader"]
    BY ZenonT(60), <2>2, <2>4
  <2> QED BY <2>1, <2>3, <2>4
<1>3. ASSUME NEW c \in Consumers, GetReader(c) PROVE ChanKnown'
  BY <1>3 DEF GetReader
<1>4. ASSUME NEW c \in Consumers, GetReaderFails(c) PROVE ChanKnown'
  BY <1>4 DEF GetReaderFails
<1>5. ASSUME NEW c \in Consumers, LoopTop(c) PROVE ChanKnown'
  BY <1>5 DEF LoopTop, Stopped, CloseCh
<1>6. ASSUME NEW c \in Consumers, Fetch(c) PROVE ChanKnown'
  BY <1>6 DEF Fetch
<1>7. ASSUME NEW c \in Consumers, FetchFails(c) PROVE ChanKnown'
  BY <1>7 DEF FetchFails
<1>8. ASSUME NEW c \in Consumers, RetryTick(c) PROVE ChanKnown'
  BY <1>8 DEF RetryTick
<1>9. ASSUME NEW c \in Consumers, Send(c) PROVE ChanKnown'
  BY <1>9 DEF Send
<1>10. ASSUME NEW c \in Consumers, Stop(c) PROVE ChanKnown'
  BY <1>10 DEF Stop, Stopped, CloseCh
<1>11. ASSUME NEW c \in Consumers, AutoCommit(c) PROVE ChanKnown'
  BY <1>11 DEF AutoCommit, Commit
<1>12. ASSUME NEW c \in Consumers, Exit(c) PROVE ChanKnown'
  BY <1>12 DEF Exit
<1>13. ASSUME NEW c \in Consumers, AppReads(c) PROVE ChanKnown'
  BY <1>13 DEF AppReads
<1>14. ASSUME NEW c \in Consumers, Handle(c) PROVE ChanKnown'
  BY <1>14 DEF Handle
<1>15. ASSUME NEW c \in Consumers, HandleOk(c) PROVE ChanKnown'
  BY <1>15 DEF HandleOk
<1>16. ASSUME NEW c \in Consumers, HandleCommit(c) PROVE ChanKnown'
  BY <1>16 DEF HandleCommit, Commit
<1>17. ASSUME NEW c \in Consumers, HandleFails(c) PROVE ChanKnown'
  BY <1>17 DEF HandleFails
<1>18. ASSUME NEW c \in Consumers, HandlePanics(c) PROVE ChanKnown'
  BY <1>18 DEF HandlePanics
<1>19. ASSUME NEW k \in Cancels, CancelLoad(k) PROVE ChanKnown'
  BY <1>19 DEF CancelLoad, CallStarts, Calling
<1>20. ASSUME NEW k \in Cancels, CancelTakeReader(k) PROVE ChanKnown'
  BY <1>20 DEF CancelTakeReader
<1>21. ASSUME NEW k \in Cancels, CancelCloseReader(k) PROVE ChanKnown'
  BY <1>21 DEF CancelCloseReader
<1>22. ASSUME NEW k \in Cancels, CancelTakeChan(k) PROVE ChanKnown'
  BY <1>22 DEF CancelTakeChan
<1>23. ASSUME NEW k \in Cancels, CancelSignal(k) PROVE ChanKnown'
  BY <1>23 DEF CancelSignal
<1>24. ASSUME CloseMark PROVE ChanKnown'
  BY <1>24 DEF CloseMark, CloseStep, CallStarts, Calling
<1>25. ASSUME CloseSignal PROVE ChanKnown'
  BY <1>25 DEF CloseSignal, CloseStep
<1>26. ASSUME CloseReaders PROVE ChanKnown'
  BY <1>26 DEF CloseReaders
<1>27. ASSUME CloseForget PROVE ChanKnown'
  BY <1>27 DEF CloseForget, CloseStep
<1>28. CASE UNCHANGED vars
  BY <1>28 DEF vars
<1> QED
  BY <1>1, <1>2, <1>3, <1>4, <1>5, <1>6, <1>7, <1>8, <1>9, <1>10, <1>11, <1>12, <1>13,
       <1>14, <1>15, <1>16, <1>17, <1>18, <1>19, <1>20, <1>21, <1>22, <1>23, <1>24,
       <1>25, <1>26, <1>27, <1>28
  DEF Next, Goroutine, Handler, CancelConsume, Close

\* A step makes a reader only for its consumer.
LEMMA ReaderMadeStep ==
    ASSUME Types, ReaderMade, [Next]_vars
    PROVE  ReaderMade'
<1>0. None \notin Consumers
  BY KafkaAssumption
<1> USE <1>0 DEF Types, TypeOK, ReaderMade, Goto, maps, kafka, consuming, handling,
     cancelling, history
<1>1. ASSUME NEW c \in Consumers, Consume(c) PROVE ReaderMade'
  BY <1>1 DEF Consume, CallStarts, Calling
<1>2. ASSUME NEW c \in Consumers, Register(c) PROVE ReaderMade'
  BY <1>2 DEF Register
<1>3. ASSUME NEW c \in Consumers, GetReader(c) PROVE ReaderMade'
  BY SMTT(30), <1>3 DEF GetReader
<1>4. ASSUME NEW c \in Consumers, GetReaderFails(c) PROVE ReaderMade'
  BY <1>4 DEF GetReaderFails
<1>5. ASSUME NEW c \in Consumers, LoopTop(c) PROVE ReaderMade'
  BY <1>5 DEF LoopTop, Stopped, CloseCh
<1>6. ASSUME NEW c \in Consumers, Fetch(c) PROVE ReaderMade'
  BY <1>6 DEF Fetch
<1>7. ASSUME NEW c \in Consumers, FetchFails(c) PROVE ReaderMade'
  BY <1>7 DEF FetchFails
<1>8. ASSUME NEW c \in Consumers, RetryTick(c) PROVE ReaderMade'
  BY <1>8 DEF RetryTick
<1>9. ASSUME NEW c \in Consumers, Send(c) PROVE ReaderMade'
  BY <1>9 DEF Send
<1>10. ASSUME NEW c \in Consumers, Stop(c) PROVE ReaderMade'
  BY <1>10 DEF Stop, Stopped, CloseCh
<1>11. ASSUME NEW c \in Consumers, AutoCommit(c) PROVE ReaderMade'
  BY <1>11 DEF AutoCommit, Commit
<1>12. ASSUME NEW c \in Consumers, Exit(c) PROVE ReaderMade'
  BY <1>12 DEF Exit
<1>13. ASSUME NEW c \in Consumers, AppReads(c) PROVE ReaderMade'
  BY <1>13 DEF AppReads
<1>14. ASSUME NEW c \in Consumers, Handle(c) PROVE ReaderMade'
  BY <1>14 DEF Handle
<1>15. ASSUME NEW c \in Consumers, HandleOk(c) PROVE ReaderMade'
  BY <1>15 DEF HandleOk
<1>16. ASSUME NEW c \in Consumers, HandleCommit(c) PROVE ReaderMade'
  BY <1>16 DEF HandleCommit, Commit
<1>17. ASSUME NEW c \in Consumers, HandleFails(c) PROVE ReaderMade'
  BY <1>17 DEF HandleFails
<1>18. ASSUME NEW c \in Consumers, HandlePanics(c) PROVE ReaderMade'
  BY <1>18 DEF HandlePanics
<1>19. ASSUME NEW k \in Cancels, CancelLoad(k) PROVE ReaderMade'
  BY <1>19 DEF CancelLoad, CallStarts, Calling
<1>20. ASSUME NEW k \in Cancels, CancelTakeReader(k) PROVE ReaderMade'
  BY <1>20 DEF CancelTakeReader
<1>21. ASSUME NEW k \in Cancels, CancelCloseReader(k) PROVE ReaderMade'
  BY <1>21 DEF CancelCloseReader
<1>22. ASSUME NEW k \in Cancels, CancelTakeChan(k) PROVE ReaderMade'
  BY <1>22 DEF CancelTakeChan
<1>23. ASSUME NEW k \in Cancels, CancelSignal(k) PROVE ReaderMade'
  BY <1>23 DEF CancelSignal
<1>24. ASSUME CloseMark PROVE ReaderMade'
  BY <1>24 DEF CloseMark, CloseStep, CallStarts, Calling
<1>25. ASSUME CloseSignal PROVE ReaderMade'
  BY <1>25 DEF CloseSignal, CloseStep
<1>26. ASSUME CloseReaders PROVE ReaderMade'
  BY <1>26 DEF CloseReaders
<1>27. ASSUME CloseForget PROVE ReaderMade'
  BY <1>27 DEF CloseForget, CloseStep
<1>28. CASE UNCHANGED vars
  BY <1>28 DEF vars
<1> QED
  BY <1>1, <1>2, <1>3, <1>4, <1>5, <1>6, <1>7, <1>8, <1>9, <1>10, <1>11, <1>12, <1>13,
       <1>14, <1>15, <1>16, <1>17, <1>18, <1>19, <1>20, <1>21, <1>22, <1>23, <1>24,
       <1>25, <1>26, <1>27, <1>28
  DEF Next, Goroutine, Handler, CancelConsume, Close

\* Calls that do not overlap stay one at a time.
LEMMA OneCallStep ==
    ASSUME Types, OneCall, [Next]_vars
    PROVE  OneCall'
<1>0. None \notin Consumers
  BY KafkaAssumption
<1> USE <1>0 DEF Types, TypeOK, OneCall, Closed, Goto, maps, kafka, consuming, handling,
     cancelling, history
<1>1. ASSUME NEW c \in Consumers, Consume(c) PROVE OneCall'
  BY ZenonT(60), <1>1 DEF Consume, CallStarts, Calling
<1>2. ASSUME NEW c \in Consumers, Register(c) PROVE OneCall'
  BY ZenonT(60), <1>2 DEF Register
<1>3. ASSUME NEW c \in Consumers, GetReader(c) PROVE OneCall'
  BY <1>3 DEF GetReader
<1>4. ASSUME NEW c \in Consumers, GetReaderFails(c) PROVE OneCall'
  BY <1>4 DEF GetReaderFails
<1>5. ASSUME NEW c \in Consumers, LoopTop(c) PROVE OneCall'
  <2>1. \E l \in {"exit", "fetch"} : pc' = [pc EXCEPT ![c] = l]
    BY <1>5 DEF LoopTop
  <2>2. UNCHANGED <<overlap, cpc, closing>>
    BY <1>5 DEF LoopTop
  <2> QED BY <2>1, <2>2, OneCallMove
<1>6. ASSUME NEW c \in Consumers, Fetch(c) PROVE OneCall'
  <2>1. \E l \in {"send", "loop", "commit"} : pc' = [pc EXCEPT ![c] = l]
    BY <1>6 DEF Fetch
  <2>2. UNCHANGED <<overlap, cpc, closing>>
    BY <1>6 DEF Fetch
  <2> QED BY <2>1, <2>2, OneCallMove
<1>7. ASSUME NEW c \in Consumers, FetchFails(c) PROVE OneCall'
  <2>1. \E l \in {"exit", "retry"} : pc' = [pc EXCEPT ![c] = l]
    BY <1>7 DEF FetchFails
  <2>2. UNCHANGED <<overlap, cpc, closing>>
    BY <1>7 DEF FetchFails
  <2> QED BY <2>1, <2>2, OneCallMove
<1>8. ASSUME NEW c \in Consumers, RetryTick(c) PROVE OneCall'
  BY SMTT(30), <1>8 DEF RetryTick
<1>9. ASSUME NEW c \in Consumers, Send(c) PROVE OneCall'
  <2>1. \E l \in {"loop", "commit"} : pc' = [pc EXCEPT ![c] = l]
    BY <1>9 DEF Send
  <2>2. UNCHANGED <<overlap, cpc, closing>>
    BY <1>9 DEF Send
  <2> QED BY <2>1, <2>2, OneCallMove
<1>10. ASSUME NEW c \in Consumers, Stop(c) PROVE OneCall'
  BY <1>10 DEF Stop, Stopped, CloseCh
<1>11. ASSUME NEW c \in Consumers, AutoCommit(c) PROVE OneCall'
  BY SMTT(30), <1>11 DEF AutoCommit, Commit
<1>12. ASSUME NEW c \in Consumers, Exit(c) PROVE OneCall'
  BY <1>12 DEF Exit
<1>13. ASSUME NEW c \in Consumers, AppReads(c) PROVE OneCall'
  BY <1>13 DEF AppReads
<1>14. ASSUME NEW c \in Consumers, Handle(c) PROVE OneCall'
  BY <1>14 DEF Handle
<1>15. ASSUME NEW c \in Consumers, HandleOk(c) PROVE OneCall'
  BY <1>15 DEF HandleOk
<1>16. ASSUME NEW c \in Consumers, HandleCommit(c) PROVE OneCall'
  BY <1>16 DEF HandleCommit, Commit
<1>17. ASSUME NEW c \in Consumers, HandleFails(c) PROVE OneCall'
  BY <1>17 DEF HandleFails
<1>18. ASSUME NEW c \in Consumers, HandlePanics(c) PROVE OneCall'
  BY <1>18 DEF HandlePanics
<1>19. ASSUME NEW k \in Cancels, CancelLoad(k) PROVE OneCall'
  BY <1>19 DEF CancelLoad, CallStarts, Calling
<1>20. ASSUME NEW k \in Cancels, CancelTakeReader(k) PROVE OneCall'
  BY <1>20 DEF CancelTakeReader
<1>21. ASSUME NEW k \in Cancels, CancelCloseReader(k) PROVE OneCall'
  BY <1>21 DEF CancelCloseReader
<1>22. ASSUME NEW k \in Cancels, CancelTakeChan(k) PROVE OneCall'
  BY <1>22 DEF CancelTakeChan
<1>23. ASSUME NEW k \in Cancels, CancelSignal(k) PROVE OneCall'
  BY <1>23 DEF CancelSignal
<1>24. ASSUME CloseMark PROVE OneCall'
  BY <1>24 DEF CloseMark, CloseStep, CallStarts, Calling
<1>25. ASSUME CloseSignal PROVE OneCall'
  BY <1>25 DEF CloseSignal, CloseStep
<1>26. ASSUME CloseReaders PROVE OneCall'
  BY <1>26 DEF CloseReaders
<1>27. ASSUME CloseForget PROVE OneCall'
  BY <1>27 DEF CloseForget, CloseStep
<1>28. CASE UNCHANGED vars
  BY <1>28 DEF vars
<1> QED
  BY <1>1, <1>2, <1>3, <1>4, <1>5, <1>6, <1>7, <1>8, <1>9, <1>10, <1>11, <1>12, <1>13,
       <1>14, <1>15, <1>16, <1>17, <1>18, <1>19, <1>20, <1>21, <1>22, <1>23, <1>24,
       <1>25, <1>26, <1>27, <1>28
  DEF Next, Goroutine, Handler, CancelConsume, Close

\* A step loses no open reader, and CancelConsume and Close leave none behind.
LEMMA OpenKeptStep ==
    ASSUME Types, ReaderMade, OneCall, OpenKept, ReaderTaken, [Next]_vars
    PROVE  (OpenKept /\ ReaderTaken)'
<1>0. None \notin Consumers
  BY KafkaAssumption
<1> USE <1>0 DEF Types, TypeOK, ReaderMade, OneCall, OpenKept, ReaderTaken, Closed,
     Goto, maps, kafka, consuming, handling, cancelling, history
<1>1. ASSUME NEW c \in Consumers, Consume(c) PROVE (OpenKept /\ ReaderTaken)'
  BY <1>1 DEF Consume, CallStarts, Calling
<1>2. ASSUME NEW c \in Consumers, Register(c) PROVE (OpenKept /\ ReaderTaken)'
  BY <1>2 DEF Register
<1>3. ASSUME NEW c \in Consumers, GetReader(c) PROVE (OpenKept /\ ReaderTaken)'
  <2>1. CASE readers # None
    BY <1>3, <2>1 DEF GetReader
  <2>2. CASE readers = None
    <3>1. /\ readers' = c /\ open' = open \cup {c} /\ pc[c] = "reader"
          /\ UNCHANGED <<overlap, closing, cpc, crd>>
      BY <1>3, <2>2 DEF GetReader
    <3>2. OpenKept'
      BY <2>2, <3>1
    <3>3. ReaderTaken'
      BY <3>1
    <3> QED BY <3>2, <3>3
  <2> QED BY <2>1, <2>2
<1>4. ASSUME NEW c \in Consumers, GetReaderFails(c) PROVE (OpenKept /\ ReaderTaken)'
  BY <1>4 DEF GetReaderFails
<1>5. ASSUME NEW c \in Consumers, LoopTop(c) PROVE (OpenKept /\ ReaderTaken)'
  BY <1>5 DEF LoopTop, Stopped, CloseCh
<1>6. ASSUME NEW c \in Consumers, Fetch(c) PROVE (OpenKept /\ ReaderTaken)'
  BY <1>6 DEF Fetch
<1>7. ASSUME NEW c \in Consumers, FetchFails(c) PROVE (OpenKept /\ ReaderTaken)'
  BY <1>7 DEF FetchFails
<1>8. ASSUME NEW c \in Consumers, RetryTick(c) PROVE (OpenKept /\ ReaderTaken)'
  BY <1>8 DEF RetryTick
<1>9. ASSUME NEW c \in Consumers, Send(c) PROVE (OpenKept /\ ReaderTaken)'
  BY <1>9 DEF Send
<1>10. ASSUME NEW c \in Consumers, Stop(c) PROVE (OpenKept /\ ReaderTaken)'
  BY <1>10 DEF Stop, Stopped, CloseCh
<1>11. ASSUME NEW c \in Consumers, AutoCommit(c) PROVE (OpenKept /\ ReaderTaken)'
  BY <1>11 DEF AutoCommit, Commit
<1>12. ASSUME NEW c \in Consumers, Exit(c) PROVE (OpenKept /\ ReaderTaken)'
  BY <1>12 DEF Exit
<1>13. ASSUME NEW c \in Consumers, AppReads(c) PROVE (OpenKept /\ ReaderTaken)'
  BY <1>13 DEF AppReads
<1>14. ASSUME NEW c \in Consumers, Handle(c) PROVE (OpenKept /\ ReaderTaken)'
  BY <1>14 DEF Handle
<1>15. ASSUME NEW c \in Consumers, HandleOk(c) PROVE (OpenKept /\ ReaderTaken)'
  BY <1>15 DEF HandleOk
<1>16. ASSUME NEW c \in Consumers, HandleCommit(c) PROVE (OpenKept /\ ReaderTaken)'
  BY <1>16 DEF HandleCommit, Commit
<1>17. ASSUME NEW c \in Consumers, HandleFails(c) PROVE (OpenKept /\ ReaderTaken)'
  BY <1>17 DEF HandleFails
<1>18. ASSUME NEW c \in Consumers, HandlePanics(c) PROVE (OpenKept /\ ReaderTaken)'
  BY <1>18 DEF HandlePanics
<1>19. ASSUME NEW k \in Cancels, CancelLoad(k) PROVE (OpenKept /\ ReaderTaken)'
  BY <1>19 DEF CancelLoad, CallStarts, Calling
<1>20. ASSUME NEW k \in Cancels, CancelTakeReader(k) PROVE (OpenKept /\ ReaderTaken)'
  BY <1>20 DEF CancelTakeReader
<1>21. ASSUME NEW k \in Cancels, CancelCloseReader(k) PROVE (OpenKept /\ ReaderTaken)'
  <2>1. /\ cpc[k] = "close" /\ cpc' = [cpc EXCEPT ![k] = "chan"]
        /\ crd' = [crd EXCEPT ![k] = None] /\ open' = open \ {crd[k]}
        /\ UNCHANGED <<readers, closing, overlap>>
    BY <1>21 DEF CancelCloseReader
  <2>2. OpenKept'
    BY <2>1
  <2>3. ASSUME ~overlap, NEW r \in open
        PROVE  r = crd[k]
    <3>1. readers = None /\ r \in Consumers
      BY <2>1, <2>3
    <3>2. PICK l \in Cancels : crd[l] = r
      BY <2>3, <3>1
    <3>3. cpc[l] = "close"
      BY <3>1, <3>2
    <3> QED BY <2>1, <2>3, <3>2, <3>3
  <2>4. ~overlap => open' = {}
    BY <2>1, <2>3
  <2>5. ReaderTaken'
    BY <2>1, <2>4
  <2> QED BY <2>2, <2>5
<1>22. ASSUME NEW k \in Cancels, CancelTakeChan(k) PROVE (OpenKept /\ ReaderTaken)'
  BY <1>22 DEF CancelTakeChan
<1>23. ASSUME NEW k \in Cancels, CancelSignal(k) PROVE (OpenKept /\ ReaderTaken)'
  BY <1>23 DEF CancelSignal
<1>24. ASSUME CloseMark PROVE (OpenKept /\ ReaderTaken)'
  BY <1>24 DEF CloseMark, CloseStep, CallStarts, Calling
<1>25. ASSUME CloseSignal PROVE (OpenKept /\ ReaderTaken)'
  BY <1>25 DEF CloseSignal, CloseStep
<1>26. ASSUME CloseReaders PROVE (OpenKept /\ ReaderTaken)'
  BY <1>26 DEF CloseReaders
<1>27. ASSUME CloseForget PROVE (OpenKept /\ ReaderTaken)'
  <2>1. /\ closing = "forget" /\ closing' = "done" /\ readers' = None
        /\ UNCHANGED <<open, crd, cpc, overlap>>
    BY <1>27 DEF CloseForget, CloseStep
  <2> QED BY ZenonT(60), <2>1
<1>28. CASE UNCHANGED vars
  BY <1>28 DEF vars
<1> QED
  BY <1>1, <1>2, <1>3, <1>4, <1>5, <1>6, <1>7, <1>8, <1>9, <1>10, <1>11, <1>12, <1>13,
       <1>14, <1>15, <1>16, <1>17, <1>18, <1>19, <1>20, <1>21, <1>22, <1>23, <1>24,
       <1>25, <1>26, <1>27, <1>28
  DEF Next, Goroutine, Handler, CancelConsume, Close

\* Nobody starts to wait for a message once Close has closed the reader.
LEMMA FetchersStep ==
    ASSUME Types, ReaderMade, OpenKept, ReaderTaken, FetchersReached, [Next]_vars
    PROVE  FetchersReached'
<1>0. None \notin Consumers
  BY KafkaAssumption
<1> USE <1>0 DEF Types, TypeOK, ReaderMade, OpenKept, ReaderTaken, FetchersReached,
     Closed, CloseCh, Goto, maps, kafka, consuming, handling, cancelling, history
<1>1. ASSUME NEW c \in Consumers, Consume(c) PROVE FetchersReached'
  BY <1>1 DEF Consume, CallStarts, Calling
<1>2. ASSUME NEW c \in Consumers, Register(c) PROVE FetchersReached'
  <2>1. \E l \in {"reader", "ended"} : pc' = [pc EXCEPT ![c] = l]
    BY <1>2 DEF Register
  <2>2. UNCHANGED <<closing, open, reader, crd>>
    BY <1>2 DEF Register
  <2> QED BY <2>1, <2>2
<1>3. ASSUME NEW c \in Consumers, GetReader(c) PROVE FetchersReached'
  BY <1>3 DEF GetReader
<1>4. ASSUME NEW c \in Consumers, GetReaderFails(c) PROVE FetchersReached'
  BY <1>4 DEF GetReaderFails
<1>5. ASSUME NEW c \in Consumers, LoopTop(c) PROVE FetchersReached'
  BY <1>5 DEF LoopTop, Stopped, CloseCh
<1>6. ASSUME NEW c \in Consumers, Fetch(c) PROVE FetchersReached'
  BY <1>6 DEF Fetch
<1>7. ASSUME NEW c \in Consumers, FetchFails(c) PROVE FetchersReached'
  BY <1>7 DEF FetchFails
<1>8. ASSUME NEW c \in Consumers, RetryTick(c) PROVE FetchersReached'
  BY <1>8 DEF RetryTick
<1>9. ASSUME NEW c \in Consumers, Send(c) PROVE FetchersReached'
  BY <1>9 DEF Send
<1>10. ASSUME NEW c \in Consumers, Stop(c) PROVE FetchersReached'
  BY <1>10 DEF Stop, Stopped, CloseCh
<1>11. ASSUME NEW c \in Consumers, AutoCommit(c) PROVE FetchersReached'
  BY <1>11 DEF AutoCommit, Commit
<1>12. ASSUME NEW c \in Consumers, Exit(c) PROVE FetchersReached'
  BY <1>12 DEF Exit
<1>13. ASSUME NEW c \in Consumers, AppReads(c) PROVE FetchersReached'
  BY <1>13 DEF AppReads
<1>14. ASSUME NEW c \in Consumers, Handle(c) PROVE FetchersReached'
  BY <1>14 DEF Handle
<1>15. ASSUME NEW c \in Consumers, HandleOk(c) PROVE FetchersReached'
  BY <1>15 DEF HandleOk
<1>16. ASSUME NEW c \in Consumers, HandleCommit(c) PROVE FetchersReached'
  BY <1>16 DEF HandleCommit, Commit
<1>17. ASSUME NEW c \in Consumers, HandleFails(c) PROVE FetchersReached'
  BY <1>17 DEF HandleFails
<1>18. ASSUME NEW c \in Consumers, HandlePanics(c) PROVE FetchersReached'
  BY <1>18 DEF HandlePanics
<1>19. ASSUME NEW k \in Cancels, CancelLoad(k) PROVE FetchersReached'
  BY <1>19 DEF CancelLoad, CallStarts, Calling
<1>20. ASSUME NEW k \in Cancels, CancelTakeReader(k) PROVE FetchersReached'
  <2>1. crd[k] = None /\ crd' = [crd EXCEPT ![k] = readers]
        /\ UNCHANGED <<closing, pc, open, reader>>
    BY <1>20 DEF CancelTakeReader
  <2> QED BY <2>1
<1>21. ASSUME NEW k \in Cancels, CancelCloseReader(k) PROVE FetchersReached'
  BY <1>21 DEF CancelCloseReader
<1>22. ASSUME NEW k \in Cancels, CancelTakeChan(k) PROVE FetchersReached'
  BY <1>22 DEF CancelTakeChan
<1>23. ASSUME NEW k \in Cancels, CancelSignal(k) PROVE FetchersReached'
  BY <1>23 DEF CancelSignal
<1>24. ASSUME CloseMark PROVE FetchersReached'
  BY <1>24 DEF CloseMark, CloseStep, CallStarts, Calling
<1>25. ASSUME CloseSignal PROVE FetchersReached'
  BY <1>25 DEF CloseSignal, CloseStep
<1>26. ASSUME CloseReaders PROVE FetchersReached'
  BY <1>26 DEF CloseReaders
<1>27. ASSUME CloseForget PROVE FetchersReached'
  BY <1>27 DEF CloseForget, CloseStep
<1>28. CASE UNCHANGED vars
  BY <1>28 DEF vars
<1> QED
  BY <1>1, <1>2, <1>3, <1>4, <1>5, <1>6, <1>7, <1>8, <1>9, <1>10, <1>11, <1>12, <1>13,
       <1>14, <1>15, <1>16, <1>17, <1>18, <1>19, <1>20, <1>21, <1>22, <1>23, <1>24,
       <1>25, <1>26, <1>27, <1>28
  DEF Next, Goroutine, Handler, CancelConsume, Close

\* Nobody starts to wait for a message once CancelConsume has signalled.
LEMMA CancelReachesStep ==
    ASSUME Types, ChanOnce, ReaderMade, ReaderTaken, CancelReaches, [Next]_vars
    PROVE  CancelReaches'
<1>0. None \notin Consumers
  BY KafkaAssumption
<1> USE <1>0 DEF Types, TypeOK, ChanOnce, ReaderMade, ReaderTaken, CancelReaches,
     Closed, CloseCh, Goto, maps, kafka, consuming, handling, cancelling, history
<1>1. ASSUME NEW c \in Consumers, Consume(c) PROVE CancelReaches'
  BY <1>1 DEF Consume, CallStarts, Calling
<1>2. ASSUME NEW c \in Consumers, Register(c) PROVE CancelReaches'
  BY <1>2 DEF Register
<1>3. ASSUME NEW c \in Consumers, GetReader(c) PROVE CancelReaches'
  BY <1>3 DEF GetReader
<1>4. ASSUME NEW c \in Consumers, GetReaderFails(c) PROVE CancelReaches'
  BY <1>4 DEF GetReaderFails
<1>5. ASSUME NEW c \in Consumers, LoopTop(c) PROVE CancelReaches'
  BY <1>5 DEF LoopTop, Stopped, CloseCh
<1>6. ASSUME NEW c \in Consumers, Fetch(c) PROVE CancelReaches'
  BY <1>6 DEF Fetch
<1>7. ASSUME NEW c \in Consumers, FetchFails(c) PROVE CancelReaches'
  BY <1>7 DEF FetchFails
<1>8. ASSUME NEW c \in Consumers, RetryTick(c) PROVE CancelReaches'
  BY <1>8 DEF RetryTick
<1>9. ASSUME NEW c \in Consumers, Send(c) PROVE CancelReaches'
  BY <1>9 DEF Send
<1>10. ASSUME NEW c \in Consumers, Stop(c) PROVE CancelReaches'
  BY <1>10 DEF Stop, Stopped, CloseCh
<1>11. ASSUME NEW c \in Consumers, AutoCommit(c) PROVE CancelReaches'
  BY <1>11 DEF AutoCommit, Commit
<1>12. ASSUME NEW c \in Consumers, Exit(c) PROVE CancelReaches'
  BY <1>12 DEF Exit
<1>13. ASSUME NEW c \in Consumers, AppReads(c) PROVE CancelReaches'
  BY <1>13 DEF AppReads
<1>14. ASSUME NEW c \in Consumers, Handle(c) PROVE CancelReaches'
  BY <1>14 DEF Handle
<1>15. ASSUME NEW c \in Consumers, HandleOk(c) PROVE CancelReaches'
  BY <1>15 DEF HandleOk
<1>16. ASSUME NEW c \in Consumers, HandleCommit(c) PROVE CancelReaches'
  BY <1>16 DEF HandleCommit, Commit
<1>17. ASSUME NEW c \in Consumers, HandleFails(c) PROVE CancelReaches'
  BY <1>17 DEF HandleFails
<1>18. ASSUME NEW c \in Consumers, HandlePanics(c) PROVE CancelReaches'
  BY <1>18 DEF HandlePanics
<1>19. ASSUME NEW k \in Cancels, CancelLoad(k) PROVE CancelReaches'
  BY <1>19 DEF CancelLoad, CallStarts, Calling
<1>20. ASSUME NEW k \in Cancels, CancelTakeReader(k) PROVE CancelReaches'
  BY <1>20 DEF CancelTakeReader
<1>21. ASSUME NEW k \in Cancels, CancelCloseReader(k) PROVE CancelReaches'
  BY <1>21 DEF CancelCloseReader
<1>22. ASSUME NEW k \in Cancels, CancelTakeChan(k) PROVE CancelReaches'
  BY <1>22 DEF CancelTakeChan
<1>23. ASSUME NEW k \in Cancels, CancelSignal(k) PROVE CancelReaches'
  BY <1>23 DEF CancelSignal
<1>24. ASSUME CloseMark PROVE CancelReaches'
  BY <1>24 DEF CloseMark, CloseStep, CallStarts, Calling
<1>25. ASSUME CloseSignal PROVE CancelReaches'
  BY <1>25 DEF CloseSignal, CloseStep
<1>26. ASSUME CloseReaders PROVE CancelReaches'
  BY <1>26 DEF CloseReaders
<1>27. ASSUME CloseForget PROVE CancelReaches'
  BY <1>27 DEF CloseForget, CloseStep
<1>28. CASE UNCHANGED vars
  BY <1>28 DEF vars
<1> QED
  BY <1>1, <1>2, <1>3, <1>4, <1>5, <1>6, <1>7, <1>8, <1>9, <1>10, <1>11, <1>12, <1>13,
       <1>14, <1>15, <1>16, <1>17, <1>18, <1>19, <1>20, <1>21, <1>22, <1>23, <1>24,
       <1>25, <1>26, <1>27, <1>28
  DEF Next, Goroutine, Handler, CancelConsume, Close

\* Without overlap a consumer that starts finds no reader of another one.
LEMMA OwnStep ==
    ASSUME Types, ChanOnce, OneCall, ReaderTaken, OwnReader, [Next]_vars
    PROVE  OwnReader'
<1>0. None \notin Consumers
  BY KafkaAssumption
<1> USE <1>0 DEF Types, TypeOK, OneCall, OwnReader, Closed, CloseCh, Running, Goto,
     maps, kafka, consuming, handling, cancelling, history
<1>1. ASSUME NEW c \in Consumers, Consume(c) PROVE OwnReader'
  BY <1>1 DEF Consume, CallStarts, Calling
<1>2. ASSUME NEW c \in Consumers, Register(c) PROVE OwnReader'
  <2>1. CASE cancelChan = None
    BY <1>2, <2>1 DEF Register
  <2>2. CASE cancelChan # None
    BY <1>2, <2>2 DEF Register
  <2> QED BY <2>1, <2>2
<1>3. ASSUME NEW c \in Consumers, GetReader(c) PROVE OwnReader'
  BY <1>3 DEF GetReader
<1>4. ASSUME NEW c \in Consumers, GetReaderFails(c) PROVE OwnReader'
  BY <1>4 DEF GetReaderFails
<1>5. ASSUME NEW c \in Consumers, LoopTop(c) PROVE OwnReader'
  BY <1>5 DEF LoopTop, Stopped, CloseCh
<1>6. ASSUME NEW c \in Consumers, Fetch(c) PROVE OwnReader'
  BY <1>6 DEF Fetch
<1>7. ASSUME NEW c \in Consumers, FetchFails(c) PROVE OwnReader'
  BY <1>7 DEF FetchFails
<1>8. ASSUME NEW c \in Consumers, RetryTick(c) PROVE OwnReader'
  BY <1>8 DEF RetryTick
<1>9. ASSUME NEW c \in Consumers, Send(c) PROVE OwnReader'
  BY <1>9 DEF Send
<1>10. ASSUME NEW c \in Consumers, Stop(c) PROVE OwnReader'
  BY <1>10 DEF Stop, Stopped, CloseCh
<1>11. ASSUME NEW c \in Consumers, AutoCommit(c) PROVE OwnReader'
  BY <1>11 DEF AutoCommit, Commit
<1>12. ASSUME NEW c \in Consumers, Exit(c) PROVE OwnReader'
  BY <1>12 DEF Exit, ChanOnce
<1>13. ASSUME NEW c \in Consumers, AppReads(c) PROVE OwnReader'
  BY <1>13 DEF AppReads
<1>14. ASSUME NEW c \in Consumers, Handle(c) PROVE OwnReader'
  BY <1>14 DEF Handle
<1>15. ASSUME NEW c \in Consumers, HandleOk(c) PROVE OwnReader'
  BY <1>15 DEF HandleOk
<1>16. ASSUME NEW c \in Consumers, HandleCommit(c) PROVE OwnReader'
  BY <1>16 DEF HandleCommit, Commit
<1>17. ASSUME NEW c \in Consumers, HandleFails(c) PROVE OwnReader'
  BY <1>17 DEF HandleFails
<1>18. ASSUME NEW c \in Consumers, HandlePanics(c) PROVE OwnReader'
  BY <1>18 DEF HandlePanics
<1>19. ASSUME NEW k \in Cancels, CancelLoad(k) PROVE OwnReader'
  BY <1>19 DEF CancelLoad, CallStarts, Calling
<1>20. ASSUME NEW k \in Cancels, CancelTakeReader(k) PROVE OwnReader'
  BY <1>20 DEF CancelTakeReader
<1>21. ASSUME NEW k \in Cancels, CancelCloseReader(k) PROVE OwnReader'
  BY <1>21 DEF CancelCloseReader
<1>22. ASSUME NEW k \in Cancels, CancelTakeChan(k) PROVE OwnReader'
  BY <1>22 DEF CancelTakeChan, ReaderTaken
<1>23. ASSUME NEW k \in Cancels, CancelSignal(k) PROVE OwnReader'
  BY <1>23 DEF CancelSignal
<1>24. ASSUME CloseMark PROVE OwnReader'
  BY <1>24 DEF CloseMark, CloseStep, CallStarts, Calling
<1>25. ASSUME CloseSignal PROVE OwnReader'
  BY <1>25 DEF CloseSignal, CloseStep
<1>26. ASSUME CloseReaders PROVE OwnReader'
  BY <1>26 DEF CloseReaders
<1>27. ASSUME CloseForget PROVE OwnReader'
  BY <1>27 DEF CloseForget, CloseStep
<1>28. CASE UNCHANGED vars
  BY <1>28 DEF vars
<1> QED
  BY <1>1, <1>2, <1>3, <1>4, <1>5, <1>6, <1>7, <1>8, <1>9, <1>10, <1>11, <1>12, <1>13,
       <1>14, <1>15, <1>16, <1>17, <1>18, <1>19, <1>20, <1>21, <1>22, <1>23, <1>24,
       <1>25, <1>26, <1>27, <1>28
  DEF Next, Goroutine, Handler, CancelConsume, Close

\* A step keeps the messages in order.
LEMMA GivenStep ==
    ASSUME Types, OwnReader, GivenInOrder, [Next]_vars
    PROVE  GivenInOrder'
<1>1. ASSUME NEW c \in Consumers, Goroutine(c) \/ Consume(c) \/ FetchFails(c)
      PROVE  GivenInOrder'
  BY <1>1, GivenMoves, GivenGetReader, GivenFetch, GivenSend, GivenAutoCommit DEF
       Goroutine
<1>2. ASSUME NEW c \in Consumers, AppReads(c) \/ Handler(c)
      PROVE  GivenInOrder'
  BY <1>2, GivenAppReads, GivenHandle, GivenHandled DEF Handler
<1>3. ASSUME NEW k \in Cancels, CancelLoad(k) \/ CancelConsume(k)
      PROVE  GivenInOrder'
  <2>1. CASE CancelLoad(k)
    BY <2>1, GivenStay DEF CancelLoad, CallStarts, kafka, consuming, handling, history
  <2>2. CASE CancelTakeReader(k)
    BY <2>2, GivenStay DEF CancelTakeReader, kafka, consuming, handling, history
  <2>3. CASE CancelCloseReader(k)
    BY <2>3, GivenStay DEF CancelCloseReader, kafka, consuming, handling, history
  <2>4. CASE CancelTakeChan(k)
    BY <2>4, GivenStay DEF CancelTakeChan, kafka, consuming, handling, history
  <2>5. CASE CancelSignal(k)
    BY <2>5, GivenStay DEF CancelSignal, kafka, consuming, handling, history
  <2> QED BY <1>3, <2>1, <2>2, <2>3, <2>4, <2>5 DEF CancelConsume
<1>4. CASE Close
  <2> USE GivenStay DEF kafka, consuming, handling, history
  <2>1. CASE CloseMark
    BY <2>1 DEF CloseMark, CallStarts
  <2>2. CASE CloseSignal
    BY <2>2 DEF CloseSignal
  <2>3. CASE CloseReaders
    BY <2>3 DEF CloseReaders
  <2>4. CASE CloseForget
    BY <2>4 DEF CloseForget
  <2> QED BY <1>4, <2>1, <2>2, <2>3, <2>4 DEF Close
<1>5. CASE UNCHANGED vars
  BY <1>5, GivenStay DEF vars, kafka, consuming, handling, history
<1> QED BY <1>1, <1>2, <1>3, <1>4, <1>5 DEF Next

----------------------------------------------------------------------------
\* The initial states satisfy IInv, and every step keeps it.
LEMMA InvInit ==
    ASSUME Init
    PROVE  IInv
<1>0. None \notin Consumers /\ Last \in Nat /\ Buffer \in Nat \ {0} /\ 1..0 = {}
  BY KafkaAssumption
<1> USE <1>0 DEF Init
<1>1. Types
  <2>1. \A c \in Consumers : Len(buf[c]) <= Buffer
    <3>1. buf = [c \in Consumers |-> <<>>] /\ Len(<<>>) = 0 /\ 0 <= Buffer
      OBVIOUS
    <3> QED BY <3>1
  <2>2. buf \in [Consumers -> Seq(1..Last)] /\ 0 \in 0..Last
    OBVIOUS
  <2>3. TypeOK
    BY <2>1, <2>2 DEF TypeOK
  <2> QED BY <2>2, <2>3 DEF Types
<1>2. ChanInv
  BY DEF ChanInv, ChanOnce, ChanKnown, Running
<1>3. ReaderMade /\ OneCall /\ OpenKept /\ ReaderTaken
  BY DEF ReaderMade, OneCall, OpenKept, ReaderTaken, Closed
<1>4. FetchersReached /\ CancelReaches
  BY DEF FetchersReached, CancelReaches
<1>5. OwnReader
  BY DEF OwnReader, Running
<1>6. GivenInOrder
  BY DEF GivenInOrder, InOrder, Passed, Through
<1> QED BY <1>1, <1>2, <1>3, <1>4, <1>5, <1>6 DEF IInv, ReaderInv

LEMMA InvStep ==
    ASSUME IInv, [Next]_vars
    PROVE  IInv'
<1>1. Types' /\ ChanInv'
  BY TypesStep, ChanOnceStep, ChanKnownStep DEF IInv, ChanInv
<1>2. ReaderInv'
  BY ReaderMadeStep, OneCallStep, OpenKeptStep, FetchersStep, CancelReachesStep
     DEF IInv, ChanInv, ReaderInv
<1>3. OwnReader' /\ GivenInOrder'
  BY OwnStep, GivenStep DEF IInv, ChanInv, ReaderInv
<1> QED BY <1>1, <1>2, <1>3 DEF IInv

\* IInv is an invariant, whatever the consumers, cancellers and messages are.
THEOREM KafkaInvariant == Spec => []IInv
<1>1. Init => IInv
  BY InvInit
<1>2. IInv /\ [Next]_vars => IInv'
  BY InvStep
<1> QED BY <1>1, <1>2, PTL DEF Spec

\* Every consumer that runs can be cancelled: CancelConsume finds its channel in
\* the map, or another call has it or has closed it, and close(cancelChan) is
\* never called twice, which would panic.  Close and CancelConsume leave no
\* consumer waiting on a reader that is open.
THEOREM EveryConsumerCanBeCancelled == Spec => []CanBeCancelled
<1>1. IInv => CloseReaches /\ CancelReaches
  BY DEF IInv, ReaderInv, FetchersReached, CloseReaches
<1>2. IInv => CanBeCancelled
  BY <1>1 DEF IInv, Types, ChanInv, ChanKnown, CanBeCancelled
<1> QED BY <1>2, KafkaInvariant, PTL

\* The offset that is committed is not ahead of the messages the application
\* has been given, as long as the calls on the operator do not overlap.
THEOREM NothingUnseenIsCommitted == Spec => []CommittedIsGiven
<1>1. IInv => CommittedIsGiven
  BY DEF IInv, GivenInOrder, Through, CommittedIsGiven
<1> QED BY <1>1, KafkaInvariant, PTL

----------------------------------------------------------------------------
(***************************************************************************)
(* The Elasticsearch operator.                                             *)
(***************************************************************************)
\* The state of every caller.
PerCaller ==
    /\ DOMAIN op = EsCallers /\ DOMAIN esAt = EsCallers /\ DOMAIN answer = EsCallers
    /\ DOMAIN page = EsCallers /\ DOMAIN snapshot = EsCallers /\ DOMAIN esGiven = EsCallers

\* Where an operation can be.
PlaceOK(c) ==
    /\ esAt[c] \in {"idle", "look", "act", "reindex", "copy", "bulk", "item",
                  "search", "page", "scroll", "clearNil", "clearError"}
    /\ esAt[c] \in {"look", "act"} => op[c].name \in Es!Names
    /\ esAt[c] = "reindex" => op[c].name \in {"Reindex", "ReindexAsync"}
    /\ esAt[c] = "copy" => op[c].name = "Reindex"
    /\ esAt[c] \in {"bulk", "item"} => op[c].name = "Bulk"
    /\ esAt[c] \in {"search", "page", "scroll", "clearNil", "clearError"} => op[c].name = "ScrollEach"
    /\ esAt[c] = "search" => c \notin scrollID
    /\ esAt[c] \in {"page", "scroll", "clearNil", "clearError"} => (c \in scrollID <=> op[c].scroll)
    /\ esAt[c] = "scroll" => op[c].scroll

\* What a search found has been given, is in the caller's hands or is left in
\* the context, as long as the context is there.  Without one there is one page.
ScrollOK(c) ==
    /\ esAt[c] = "search" => esGiven[c] = {}
    /\ c \in DOMAIN contexts => contexts[c] \subseteq Docs
    /\ op[c].scroll /\ c \notin repeated =>
        /\ esAt[c] = "page" =>
            /\ page[c] = {} => esGiven[c] = snapshot[c]
            /\ c \in DOMAIN contexts => snapshot[c] = esGiven[c] \cup page[c] \cup contexts[c]
        /\ esAt[c] = "scroll" /\ c \in DOMAIN contexts => snapshot[c] = esGiven[c] \cup contexts[c]
        /\ esAt[c] = "clearNil" => esGiven[c] = snapshot[c]
    /\ ~op[c].scroll =>
        /\ esAt[c] = "page" => esGiven[c] = {} /\ page[c] \in Es!Pages(snapshot[c])
        /\ esAt[c] = "clearNil" => esGiven[c] \in Es!Pages(snapshot[c])

\* A context is somebody's who will clear it, or known as lost.
ContextOK(c) ==
    c \in DOMAIN contexts =>
        \/ c \in unclear
        \/ c \in scrollID /\ esAt[c] \in {"page", "scroll", "clearNil", "clearError"}

\* What an operation has answered.
AnswerOK(c) ==
    esAt[c] = "idle" /\ answer[c] = "nil" =>
        /\ op[c].name \in Es!Names => c \in esHeld
        /\ op[c].name = "Bulk" => esGiven[c] = DOMAIN op[c].items
        /\ op[c].name = "Reindex" => esGiven[c] = snapshot[c]
        /\ op[c].name = "ScrollEach" /\ c \notin repeated =>
             IF op[c].scroll THEN esGiven[c] = snapshot[c] ELSE esGiven[c] \in Es!Pages(snapshot[c])

\* The inductive invariant.
CallerOK(c) == PlaceOK(c) /\ ScrollOK(c) /\ ContextOK(c) /\ AnswerOK(c)

EsInv == PerCaller /\ \A c \in EsCallers : CallerOK(c)

\* The invariant says what is checked.
LEMMA EsInvAnswers == EsInv => Es!EsAnswers
<1> SUFFICES ASSUME EsInv PROVE Es!EsAnswers
  OBVIOUS
<1>1. ASSUME NEW c \in EsCallers PROVE ContextOK(c) /\ AnswerOK(c)
  BY DEF EsInv, CallerOK
<1>2. Es!AnsweredIsDone /\ Es!BulkIsDone /\ Es!ReindexIsDone /\ Es!ScrollIsWhole
  BY <1>1 DEF AnswerOK, Es!AnsweredIsDone, Es!BulkIsDone, Es!ReindexIsDone, Es!ScrollIsWhole,
     Es!Answered
<1>3. Es!ScrollsAreCleared
  BY <1>1 DEF ContextOK, Es!ScrollsAreCleared
<1> QED
  BY <1>2, <1>3 DEF Es!EsAnswers

\* No operation has begun.
LEMMA EsInitially == Es!Init => EsInv
<1> SUFFICES ASSUME Es!Init PROVE EsInv
  OBVIOUS
<1>1. PerCaller
  BY DEF Es!Init, PerCaller
<1>2. DOMAIN contexts = {}
  BY DEF Es!Init
<1>3. ASSUME NEW c \in EsCallers PROVE CallerOK(c)
  BY <1>2 DEF Es!Init, CallerOK, PlaceOK, ScrollOK, ContextOK, AnswerOK
<1> QED
  BY <1>1, <1>3 DEF EsInv

----------------------------------------------------------------------------
\* The sizes of sets that EsOperator speaks of are those of FiniteSets.
LEMMA FiniteSetsOfEs ==
    \A S : (Es!IsFiniteSet(S) <=> IsFiniteSet(S)) /\ Es!Cardinality(S) = Cardinality(S)
BY DEF Es!IsFiniteSet, IsFiniteSet, Es!Cardinality, Cardinality

\* A page is a part of what is left, and empty only if nothing is.
LEMMA PageOfRest ==
    ASSUME Es!EsParameters, NEW left, left \subseteq Docs, NEW p \in Es!Pages(left)
    PROVE  p \subseteq left /\ (p = {} => left = {})
<1>1. IsFiniteSet(left)
  BY FS_Subset, FiniteSetsOfEs DEF Es!EsParameters
<1>2. Cardinality(left) \in Nat /\ (Cardinality(left) = 0 <=> left = {})
  BY <1>1, FS_CardinalityType, FS_EmptySet
<1>3. Cardinality(p) = (IF Cardinality(left) < BatchSize THEN Cardinality(left) ELSE BatchSize)
  BY FiniteSetsOfEs DEF Es!Pages
<1>4. ASSUME p = {} PROVE Cardinality(left) = 0
  BY <1>2, <1>3, <1>4, FS_EmptySet, SMT DEF Es!EsParameters
<1> QED
  BY <1>2, <1>4 DEF Es!Pages

\* What a step leaves alone of an operation; its context may go with an index.
Unmoved(c) ==
    /\ esAt'[c] = esAt[c] /\ op'[c] = op[c] /\ answer'[c] = answer[c]
    /\ page'[c] = page[c] /\ snapshot'[c] = snapshot[c] /\ esGiven'[c] = esGiven[c]
    /\ (c \in repeated' <=> c \in repeated)
    /\ (c \in unclear' <=> c \in unclear)
    /\ (c \in scrollID' <=> c \in scrollID)
    /\ (c \in DOMAIN contexts' => c \in DOMAIN contexts /\ contexts'[c] = contexts[c])

\* What a request that changes the cluster does to the operations.
LEMMA ChangeApart ==
    ASSUME PerCaller, NEW d \in EsCallers, NEW c \in EsCallers, c # d,
           NEW possible, NEW ACTION effect, Es!Change(d, possible, effect)
    PROVE  esAt'[c] = esAt[c] /\ answer'[c] = answer[c] /\ op' = op
           /\ (c \in repeated' <=> c \in repeated)
BY DEF Es!Change, Es!Return, Es!Goto, Es!Keep, PerCaller

\* It answers one caller.
LEMMA ChangeKeepsDomains ==
    ASSUME PerCaller, NEW d, NEW possible, NEW ACTION effect, Es!Change(d, possible, effect)
    PROVE  DOMAIN esAt' = EsCallers /\ DOMAIN answer' = EsCallers /\ op' = op
BY DEF Es!Change, Es!Return, Es!Goto, Es!Keep, PerCaller

\* Every step keeps one state per caller.
LEMMA PerCallerStep ==
    ASSUME PerCaller, NEW d \in EsCallers, Es!Step(d)
    PROVE  PerCaller'
<1> USE DEF Es!Goto, Es!Going, Es!Return, Es!scrolling, Es!cluster
<1>1. CASE Es!Call(d)
  BY <1>1 DEF Es!Call, PerCaller
<1>2. CASE Es!Look(d)
  BY <1>2 DEF Es!Look, PerCaller
<1>3. CASE Es!Act(d)
  <2>1. DOMAIN esAt' = EsCallers /\ DOMAIN answer' = EsCallers /\ op' = op
    BY <1>3, ChangeKeepsDomains DEF Es!Act
  <2> QED
    BY <2>1, <1>3 DEF Es!Act, PerCaller
<1>4. CASE Es!Reindex(d)
  BY <1>4 DEF Es!Reindex, PerCaller
<1>9. CASE Es!Copy(d)
  BY <1>9 DEF Es!Copy, PerCaller
<1>5. CASE Es!BuildNDJSON(d) \/ Es!BulkItem(d) \/ Es!BulkAnswer(d)
  BY <1>5 DEF Es!BuildNDJSON, Es!BulkItem, Es!BulkAnswer, PerCaller
<1>6. CASE Es!Search(d)
  BY <1>6 DEF Es!Search, PerCaller
<1>7. CASE Es!Page(d) \/ Es!ScrollFails(d) \/ Es!ClearScroll(d)
  BY <1>7 DEF Es!Page, Es!ScrollFails, Es!ClearScroll, PerCaller
<1>8. CASE Es!Scroll(d)
  BY <1>8 DEF Es!Scroll, PerCaller
<1> QED
  BY <1>1, <1>2, <1>3, <1>4, <1>5, <1>6, <1>7, <1>8, <1>9 DEF Es!Step

\* A step of a caller leaves the operations of the others alone.
LEMMA OthersApart ==
    ASSUME PerCaller, NEW d \in EsCallers, Es!Step(d), NEW c \in EsCallers, c # d
    PROVE  Unmoved(c)
<1> USE DEF Es!Goto, Es!Going, Es!Return, Es!scrolling, Es!cluster, Unmoved, PerCaller
<1>1. CASE Es!Call(d)
  BY <1>1 DEF Es!Call, Es!Without
<1>2. CASE Es!Look(d)
  BY <1>2 DEF Es!Look
<1>3. CASE Es!Act(d)
  <2>1. esAt'[c] = esAt[c] /\ answer'[c] = answer[c] /\ op' = op /\ (c \in repeated' <=> c \in repeated)
    BY <1>3, ChangeApart DEF Es!Act
  <2> QED
    BY <2>1, <1>3 DEF Es!Act
<1>4. CASE Es!Reindex(d)
  BY <1>4 DEF Es!Reindex
<1>9. CASE Es!Copy(d)
  BY <1>9 DEF Es!Copy
<1>5. CASE Es!BuildNDJSON(d) \/ Es!BulkItem(d) \/ Es!BulkAnswer(d)
  BY <1>5 DEF Es!BuildNDJSON, Es!BulkItem, Es!BulkAnswer
<1>6. CASE Es!Search(d)
  BY <1>6 DEF Es!Search, Es!Set
<1>7. CASE Es!Page(d) \/ Es!ScrollFails(d) \/ Es!ClearScroll(d)
  BY <1>7 DEF Es!Page, Es!ScrollFails, Es!ClearScroll, Es!Without
<1>8. CASE Es!Scroll(d)
  BY <1>8 DEF Es!Scroll
<1> QED
  BY <1>1, <1>2, <1>3, <1>4, <1>5, <1>6, <1>7, <1>8, <1>9 DEF Es!Step

\* What the others do, a caller's operation stays in order.
LEMMA OthersOK ==
    ASSUME PerCaller, Es!Held, NEW c \in EsCallers, CallerOK(c),
           Es!TaskStep \/ \E d \in EsCallers \ {c} : Es!Step(d)
    PROVE  CallerOK(c)'
<1>1. Unmoved(c)
  <2>1. CASE Es!TaskStep
    BY <2>1 DEF Es!TaskStep, Es!scrolling, Unmoved
  <2> QED BY <2>1, OthersApart
<1>2. c \in esHeld => c \in esHeld'
  BY <1>1 DEF Es!Held, Es!Starts, Unmoved
<1>3. PlaceOK(c)'
  BY <1>1 DEF Unmoved, CallerOK, PlaceOK
<1>4. ScrollOK(c)'
  BY <1>1 DEF Unmoved, CallerOK, ScrollOK
<1>5. ContextOK(c)'
  BY <1>1 DEF Unmoved, CallerOK, ContextOK
<1>6. AnswerOK(c)'
  BY <1>1, <1>2 DEF Unmoved, CallerOK, AnswerOK
<1> QED
  BY <1>3, <1>4, <1>5, <1>6 DEF CallerOK

----------------------------------------------------------------------------
\* The operation of a caller itself.  It begins with nothing given and no
\* context left.
LEMMA CallOK ==
    ASSUME PerCaller, NEW c \in EsCallers, CallerOK(c), Es!Call(c)
    PROVE  CallerOK(c)'
<1> USE DEF Es!Goto, Es!Going, PerCaller
<1>1. esGiven'[c] = {} /\ c \notin DOMAIN contexts' /\ c \notin scrollID'
  BY DEF Es!Call, Es!Without
<1>2. PlaceOK(c)' /\ esAt'[c] \in {"look", "bulk", "search", "reindex"}
  <2>1. ASSUME NEW n \in Es!Names, NEW i \in Indices,
               op' = [op EXCEPT ![c] = Es!New(n, i)], Es!Going(c, "look")
        PROVE  PlaceOK(c)' /\ esAt'[c] \in {"look", "bulk", "search", "reindex"}
    BY <2>1 DEF PlaceOK, Es!New, Es!NoOp
  <2>2. ASSUME NEW i \in Indices, NEW b \in Es!Bulks,
               op' = [op EXCEPT ![c] = [Es!New("Bulk", i) EXCEPT !.items = b]], Es!Going(c, "bulk")
        PROVE  PlaceOK(c)' /\ esAt'[c] \in {"look", "bulk", "search", "reindex"}
    <3> DEFINE o == [Es!New("Bulk", i) EXCEPT !.items = b]
    <3>1. o.name = "Bulk"
      BY DEF Es!New, Es!NoOp
    <3>2. op'[c] = o
      BY <2>2
    <3> HIDE DEF o
    <3> QED
      BY <2>2, <3>1, <3>2 DEF PlaceOK
  <2>3. ASSUME NEW i \in Indices, NEW s \in BOOLEAN,
               op' = [op EXCEPT ![c] = [Es!New("ScrollEach", i) EXCEPT !.scroll = s]],
               Es!Going(c, "search")
        PROVE  PlaceOK(c)' /\ esAt'[c] \in {"look", "bulk", "search", "reindex"}
    <3> DEFINE o == [Es!New("ScrollEach", i) EXCEPT !.scroll = s]
    <3>1. o.name = "ScrollEach"
      BY DEF Es!New, Es!NoOp
    <3>2. op'[c] = o
      BY <2>3
    <3> HIDE DEF o
    <3> QED
      BY <1>1, <2>3, <3>1, <3>2 DEF PlaceOK
  <2>4. ASSUME NEW n \in {"Reindex", "ReindexAsync"}, NEW i \in Indices, NEW j \in Indices,
               op' = [op EXCEPT ![c] = [Es!New(n, i) EXCEPT !.dest = j]], Es!Going(c, "reindex")
        PROVE  PlaceOK(c)' /\ esAt'[c] \in {"look", "bulk", "search", "reindex"}
    <3> DEFINE o == [Es!New(n, i) EXCEPT !.dest = j]
    <3>1. o.name = n
      BY DEF Es!New, Es!NoOp
    <3>2. op'[c] = o
      BY <2>4
    <3> HIDE DEF o
    <3> QED
      BY <2>4, <3>1, <3>2 DEF PlaceOK
  <2> QED
    BY <2>1, <2>2, <2>3, <2>4, Zenon DEF Es!Call
<1> QED
  BY <1>1, <1>2 DEF CallerOK, ScrollOK, ContextOK, AnswerOK

\* What a request changes, or that it failed.
LEMMA ChangeOutcome ==
    ASSUME PerCaller, NEW c \in EsCallers, NEW possible, NEW ACTION effect,
           Es!Change(c, possible, effect)
    PROVE  /\ op' = op
           /\ \/ esAt'[c] = esAt[c] /\ answer'[c] = answer[c]
              \/ esAt'[c] = "idle" /\ answer'[c] = "error"
              \/ esAt'[c] = "idle" /\ answer'[c] = "nil" /\ possible /\ effect
BY DEF Es!Change, Es!Return, Es!Goto, Es!Keep, PerCaller

\* The operations on indices and aliases: nothing is left to do, or it is done
\* by the request that succeeds.
LEMMA LookOK ==
    ASSUME PerCaller, NEW c \in EsCallers, CallerOK(c), Es!Look(c), Es!Held
    PROVE  CallerOK(c)'
<1> USE DEF Es!Goto, Es!Going, Es!Return, PerCaller, Es!scrolling, Es!cluster
<1>1. op[c].name \in Es!Names /\ esAt[c] = "look"
  BY DEF CallerOK, PlaceOK, Es!Look
<1>2. PlaceOK(c)'
  BY <1>1 DEF Es!Look, PlaceOK
<1>3. ScrollOK(c)' /\ ContextOK(c)'
  BY <1>1 DEF Es!Look, CallerOK, ScrollOK, ContextOK
<1>4. ASSUME esAt'[c] = "idle", answer'[c] = "nil" PROVE Es!Promise(c)'
  <2>1. Es!AlreadyThere(c) = Es!Creates(c)
    BY <1>4 DEF Es!Look
  <2>2. Es!AlreadyThere(c) = Es!Creates(c) => Es!Promise(c)
    BY <1>1 DEF Es!AlreadyThere, Es!Creates, Es!Promise, Es!Names
  <2> QED
    BY <2>1, <2>2 DEF Es!Look, Es!Promise, Es!Exists
<1>5. AnswerOK(c)'
  BY <1>1, <1>4 DEF AnswerOK, Es!Held, Es!Look, Es!Names
<1> QED
  BY <1>2, <1>3, <1>5 DEF CallerOK

\* The request that succeeds does what the operation promises.
LEMMA ActOK ==
    ASSUME PerCaller, NEW c \in EsCallers, CallerOK(c), Es!Act(c), Es!Held
    PROVE  CallerOK(c)'
<1> DEFINE i == op[c].index
           n == op[c].name
<1>1. n \in Es!Names /\ esAt[c] = "act"
  BY DEF CallerOK, PlaceOK, Es!Act
<1>2. /\ op' = op
      /\ \/ esAt'[c] = esAt[c] /\ answer'[c] = answer[c]
         \/ esAt'[c] = "idle" /\ answer'[c] = "error"
         \/ /\ esAt'[c] = "idle" /\ answer'[c] = "nil"
            /\ \/ n \in {"CreateIndex", "CreateIndexWithAlias"} /\ docs' = Es!Set(docs, i, {})
               \/ n = "DeleteIndex" /\ docs' = Es!Without(docs, i)
               \/ n = "CreateAlias" /\ aliased' = aliased \cup {i}
               \/ n = "DeleteAlias" /\ aliased' = aliased \ {i}
  BY ChangeOutcome DEF Es!Act
<1>3. UNCHANGED <<scrollID, page, snapshot, unclear, esGiven>>
  BY DEF Es!Act
<1>4. c \notin DOMAIN contexts' \/ (c \in DOMAIN contexts /\ contexts'[c] = contexts[c])
  BY DEF Es!Act
<1>5. PlaceOK(c)'
  BY <1>1, <1>2 DEF PlaceOK
<1>6. ScrollOK(c)' /\ ContextOK(c)'
  BY <1>1, <1>2, <1>3, <1>4 DEF CallerOK, ScrollOK, ContextOK
<1>7. ASSUME esAt'[c] = "idle", answer'[c] = "nil" PROVE Es!Promise(c)'
  <2>1. CASE n \in {"CreateIndex", "CreateIndexWithAlias"}
    BY <1>1, <1>2, <1>7, <2>1 DEF Es!Promise, Es!Exists, Es!Set
  <2>2. CASE n = "DeleteIndex"
    BY <1>1, <1>2, <1>7, <2>2 DEF Es!Promise, Es!Exists, Es!Without
  <2>3. CASE n \in {"CreateAlias", "DeleteAlias"}
    BY <1>1, <1>2, <1>7, <2>3 DEF Es!Promise
  <2> QED
    BY <1>1, <2>1, <2>2, <2>3 DEF Es!Names
<1>8. AnswerOK(c)'
  BY <1>1, <1>2, <1>7 DEF AnswerOK, Es!Held, Es!Names
<1> QED
  BY <1>5, <1>6, <1>8 DEF CallerOK

\* A copy begins with nothing copied, and ends without an error when nothing is left.
LEMMA ReindexOK ==
    ASSUME PerCaller, NEW c \in EsCallers, CallerOK(c), Es!Reindex(c)
    PROVE  CallerOK(c)'
<1> USE DEF Es!Goto, Es!Going, Es!Return, PerCaller
<1>1. /\ op[c].name \in {"Reindex", "ReindexAsync"} /\ esAt[c] = "reindex"
      /\ UNCHANGED <<contexts, scrollID, page, unclear, op>>
  BY DEF CallerOK, PlaceOK, Es!Reindex
<1>2. \/ esAt'[c] = "copy" /\ op[c].name = "Reindex" /\ answer' = answer
      \/ esAt'[c] = "reindex" /\ answer' = answer
      \/ esAt'[c] = "idle" /\ (answer'[c] = "error" \/ op[c].name = "ReindexAsync")
  BY <1>1 DEF Es!Reindex
<1>3. PlaceOK(c)' /\ ContextOK(c)' /\ ScrollOK(c)' /\ AnswerOK(c)'
  BY <1>1, <1>2 DEF CallerOK, PlaceOK, ContextOK, ScrollOK, AnswerOK, Es!Names
<1> QED
  BY <1>3 DEF CallerOK

LEMMA CopyOK ==
    ASSUME PerCaller, NEW c \in EsCallers, CallerOK(c), Es!Copy(c)
    PROVE  CallerOK(c)'
<1> USE DEF Es!Goto, Es!Going, Es!Return, PerCaller
<1>1. /\ op[c].name = "Reindex" /\ esAt[c] = "copy"
      /\ UNCHANGED <<contexts, scrollID, page, snapshot, unclear, op>>
  BY DEF CallerOK, PlaceOK, Es!Copy, Es!scrolling
<1>2. \/ esAt'[c] \in {"copy", "reindex"} /\ answer' = answer
      \/ esAt'[c] = "idle" /\ answer'[c] = "error"
      \/ esAt'[c] = "idle" /\ snapshot[c] = esGiven[c] /\ esGiven' = esGiven
  BY <1>1 DEF Es!Copy
<1>3. PlaceOK(c)' /\ ContextOK(c)' /\ ScrollOK(c)' /\ AnswerOK(c)'
  BY <1>1, <1>2 DEF CallerOK, PlaceOK, ContextOK, ScrollOK, AnswerOK, Es!Names
<1> QED
  BY <1>3 DEF CallerOK

\* A bulk ends without an error only if every item took effect.
LEMMA BulkOK ==
    ASSUME PerCaller, NEW c \in EsCallers, CallerOK(c), Es!BuildNDJSON(c) \/ Es!BulkItem(c) \/ Es!BulkAnswer(c)
    PROVE  CallerOK(c)'
<1> USE DEF Es!Goto, Es!Going, Es!Return, PerCaller, Es!scrolling, Es!cluster
<1>1. op[c].name = "Bulk" /\ esAt[c] \in {"bulk", "item"} /\ op' = op
  BY DEF CallerOK, PlaceOK, Es!BuildNDJSON, Es!BulkItem, Es!BulkAnswer
<1>2. PlaceOK(c)' /\ esAt'[c] \in {"item", "idle"}
  BY <1>1 DEF Es!BuildNDJSON, Es!BulkItem, Es!BulkAnswer, PlaceOK
<1>3. UNCHANGED <<contexts, scrollID, snapshot, unclear>>
  BY DEF Es!BuildNDJSON, Es!BulkItem, Es!BulkAnswer
<1>4. ScrollOK(c)' /\ ContextOK(c)'
  BY <1>1, <1>2, <1>3 DEF CallerOK, ScrollOK, ContextOK
<1>5. ASSUME esAt'[c] = "idle", answer'[c] = "nil" PROVE esGiven'[c] = DOMAIN op[c].items
  BY <1>1, <1>5 DEF Es!BuildNDJSON, Es!BulkItem, Es!BulkAnswer
<1>6. AnswerOK(c)'
  BY <1>1, <1>5 DEF AnswerOK, Es!Names
<1> QED
  BY <1>2, <1>4, <1>6 DEF CallerOK

\* The first page of a search and the rest in the context are what it found.
LEMMA SearchOK ==
    ASSUME Es!EsParameters, PerCaller, NEW c \in EsCallers, CallerOK(c), Es!Search(c)
    PROVE  CallerOK(c)'
<1> USE DEF Es!Goto, Es!Going, Es!Return, PerCaller, Es!scrolling, Es!cluster
<1>1. /\ op[c].name = "ScrollEach" /\ esAt[c] = "search" /\ esGiven[c] = {}
      /\ op' = op /\ esGiven' = esGiven /\ repeated' = repeated
  BY DEF CallerOK, PlaceOK, ScrollOK, Es!Search
<1>4. c \notin scrollID
  BY <1>1 DEF CallerOK, PlaceOK
<1>2. CASE Es!Return(c, "error") /\ UNCHANGED Es!scrolling
  BY <1>1, <1>2 DEF CallerOK, PlaceOK, ScrollOK, ContextOK, AnswerOK
<1>3. ASSUME NEW found \in SUBSET Docs, NEW p \in Es!Pages(found),
             snapshot' = [snapshot EXCEPT ![c] = found],
             contexts' = IF op[c].scroll THEN Es!Set(contexts, c, found \ p) ELSE contexts,
             \/ /\ page' = [page EXCEPT ![c] = p]
                /\ scrollID' = scrollID \cup (IF op[c].scroll THEN {c} ELSE {})
                /\ Es!Going(c, "page") /\ UNCHANGED unclear
             \/ /\ unclear' = unclear \cup (IF op[c].scroll THEN {c} ELSE {})
                /\ Es!Return(c, "error") /\ UNCHANGED <<page, scrollID>>
      PROVE  CallerOK(c)'
  <2>1. p \subseteq found /\ (p = {} => found = {})
    BY PageOfRest
  <2>2. /\ snapshot'[c] = found
        /\ op[c].scroll => c \in DOMAIN contexts' /\ contexts'[c] = found \ p
        /\ ~op[c].scroll => UNCHANGED contexts
    BY <1>3 DEF Es!Set
  <2>3. PlaceOK(c)'
    BY <1>1, <1>3, <1>4 DEF PlaceOK
  <2>4. ScrollOK(c)'
    <3>1. CASE op[c].scroll
      BY <1>1, <1>3, <2>1, <2>2, <3>1 DEF ScrollOK
    <3>2. CASE ~op[c].scroll
      BY <1>1, <1>3, <2>2, <3>2 DEF CallerOK, ScrollOK
    <3> QED BY <3>1, <3>2
  <2>5. ContextOK(c)' /\ AnswerOK(c)'
    BY <1>1, <1>3, <2>2 DEF CallerOK, ContextOK, AnswerOK
  <2> QED
    BY <2>3, <2>4, <2>5 DEF CallerOK
<1> QED
  BY <1>2, <1>3, Zenon DEF Es!Search

\* A page is given to fn, or it is empty and nothing is left.
LEMMA PageOK ==
    ASSUME PerCaller, NEW c \in EsCallers, CallerOK(c), Es!Page(c) \/ Es!ScrollFails(c)
    PROVE  CallerOK(c)'
<1> USE DEF Es!Goto, Es!Going, PerCaller, Es!scrolling, Es!cluster
<1>1. CASE Es!ScrollFails(c)
  BY <1>1 DEF Es!ScrollFails, CallerOK, PlaceOK, ScrollOK, ContextOK, AnswerOK
<1>2. CASE Es!Page(c)
  <2>1. esAt[c] = "page" /\ esAt'[c] \in {"clearNil", "scroll", "clearError"}
    BY <1>2 DEF Es!Page
  <2>2. PlaceOK(c)' /\ ContextOK(c)' /\ AnswerOK(c)'
    BY <1>2, <2>1 DEF Es!Page, CallerOK, PlaceOK, ContextOK, AnswerOK
  <2>3. ScrollOK(c)'
    <3>1. c \in scrollID <=> op[c].scroll
      BY <2>1 DEF CallerOK, PlaceOK
    <3>2. CASE op[c].scroll
      BY <1>2, <2>1, <3>1, <3>2 DEF Es!Page, CallerOK, ScrollOK
    <3>3. CASE ~op[c].scroll
      <4>1. esGiven[c] = {} /\ page[c] \in Es!Pages(snapshot[c])
        BY <2>1, <3>3 DEF CallerOK, ScrollOK
      <4>2. esGiven'[c] = page[c] /\ esAt'[c] # "page"
        BY <1>2, <2>1, <4>1 DEF Es!Page
      <4> QED BY <1>2, <3>3, <4>1, <4>2 DEF Es!Page, CallerOK, ScrollOK
    <3> QED BY <3>2, <3>3
  <2> QED
    BY <2>2, <2>3 DEF CallerOK
<1> QED
  BY <1>1, <1>2

\* The next page comes out of what is left; one that is lost marks the caller.
LEMMA ScrollStepOK ==
    ASSUME Es!EsParameters, PerCaller, NEW c \in EsCallers, CallerOK(c), Es!Scroll(c)
    PROVE  CallerOK(c)'
<1> USE DEF Es!Goto, Es!Going, PerCaller
<1>1. /\ esAt[c] = "scroll" /\ op[c].scroll
      /\ c \in DOMAIN contexts /\ contexts[c] \subseteq Docs
  BY DEF Es!Scroll, CallerOK, ScrollOK, PlaceOK
<1>2. PICK p \in Es!Pages(contexts[c]) :
        /\ contexts' = [contexts EXCEPT ![c] = @ \ p]
        /\ \/ page' = [page EXCEPT ![c] = p] /\ Es!Going(c, "page") /\ UNCHANGED repeated
           \/ c \notin repeated /\ repeated' = repeated \cup {c} /\ UNCHANGED <<esAt, answer, page>>
  BY Zenon DEF Es!Scroll
<1>3. p \subseteq contexts[c] /\ (p = {} => contexts[c] = {})
  BY <1>1, PageOfRest
<1>4. c \in DOMAIN contexts' /\ contexts'[c] = contexts[c] \ p
  BY <1>1, <1>2
<1>5. UNCHANGED <<scrollID, snapshot, unclear, op, esGiven>>
  BY DEF Es!Scroll
<1>6. PlaceOK(c)' /\ ContextOK(c)' /\ AnswerOK(c)'
  BY <1>1, <1>2, <1>5 DEF CallerOK, PlaceOK, ContextOK, AnswerOK
<1>7. ScrollOK(c)'
  BY <1>1, <1>2, <1>3, <1>4, <1>5 DEF CallerOK, ScrollOK
<1> QED
  BY <1>6, <1>7 DEF CallerOK

\* The context is cleared, or known as left.
LEMMA ClearOK ==
    ASSUME PerCaller, NEW c \in EsCallers, CallerOK(c), Es!ClearScroll(c)
    PROVE  CallerOK(c)'
<1> USE DEF Es!Goto, Es!Return, PerCaller, Es!cluster
<1>1. esAt[c] \in {"clearNil", "clearError"} /\ esAt'[c] = "idle"
  BY DEF Es!ClearScroll
<1>2. PlaceOK(c)'
  BY <1>1 DEF PlaceOK
<1>3. ContextOK(c)'
  BY <1>1 DEF Es!ClearScroll, CallerOK, ContextOK, Es!Without
<1>4. ScrollOK(c)'
  BY <1>1 DEF Es!ClearScroll, CallerOK, ScrollOK, Es!Without
<1>5. AnswerOK(c)'
  BY <1>1 DEF Es!ClearScroll, CallerOK, ScrollOK, PlaceOK, AnswerOK, Es!Names
<1> QED
  BY <1>2, <1>3, <1>4, <1>5 DEF CallerOK

----------------------------------------------------------------------------
\* A step that does nothing.
LEMMA EsStutter == EsInv /\ UNCHANGED Es!vars => EsInv'
BY DEF EsInv, PerCaller, CallerOK, PlaceOK, ScrollOK, ContextOK, AnswerOK, Es!vars, Es!cluster, Es!scrolling

\* Every step keeps the invariant.
LEMMA EsStep == Es!EsParameters /\ EsInv /\ [Es!Next]_(Es!vars) => EsInv'
<1> SUFFICES ASSUME Es!EsParameters, EsInv, Es!Next PROVE EsInv'
  BY EsStutter
<1>1. Es!TaskStep \/ \E d \in EsCallers : Es!Step(d)
  BY DEF Es!Next
<1>2. PerCaller /\ Es!Held
  BY DEF Es!Next, EsInv
<1>3. PerCaller'
  <2>1. CASE Es!TaskStep
    BY <1>2, <2>1 DEF Es!TaskStep, Es!scrolling, PerCaller
  <2> QED BY <1>1, <1>2, <2>1, PerCallerStep
<1>4. ASSUME NEW c \in EsCallers PROVE CallerOK(c)'
  <2>1. CallerOK(c)
    BY DEF EsInv
  <2>2. CASE Es!Step(c)
    BY <1>2, <2>1, <2>2, CallOK, LookOK, ActOK, ReindexOK, CopyOK, BulkOK, SearchOK, PageOK,
       ScrollStepOK, ClearOK DEF Es!Step
  <2>3. CASE ~Es!Step(c)
    BY <1>1, <1>2, <2>1, <2>3, OthersOK
  <2> QED
    BY <2>2, <2>3
<1> QED
  BY <1>3, <1>4 DEF EsInv

\* What the operator answers is true, and it leaves no context open.
THEOREM AnswersAreTrue == Es!Spec => []EsAnswers
<1>1. EsInv /\ [Es!Next]_(Es!vars) => EsInv'
  BY EsStep, ServicesAssumption
<1>2. EsInv => EsAnswers
  BY EsInvAnswers DEF EsAnswers
<1> QED
  BY EsInitially, <1>1, <1>2, PTL DEF Es!Spec

----------------------------------------------------------------------------
(***************************************************************************)
(* EnsureDatabase.                                                         *)
(***************************************************************************)
Locations == {"idle", "load", "open", "store", "check", "create", "exec", "close", "done"}

\* The state of every call and of dbMap.
EnsureTypes ==
    /\ process \in [EnsureCalls -> EnsureProcesses] /\ target \in [EnsureCalls -> EnsurePlaces]
    /\ registry \in [EnsureProcesses -> [Ensure!Names -> EnsureCalls \cup {NoCall}]]
    /\ ensurePc \in [EnsureCalls -> Locations]
    /\ stage \in [EnsureCalls -> Ensure!Names]
    /\ pool \in [EnsureCalls -> EnsureCalls \cup {NoCall}]

\* The admin connection comes first, the one to the schema afterwards.
StageOK ==
    \A c \in EnsureCalls :
        /\ ensurePc[c] \in {"idle", "check", "create", "done"} => stage[c] = Ensure!EnsureDB
        /\ ensurePc[c] = "exec" => stage[c] = Ensure!EnsureSchema

\* A call that meets another one in its process is marked.
OverlapOK ==
    \A c, d \in Ensure!Running : c # d /\ process[c] = process[d] => c \in overlapped

\* The deferred Close of what is registered under a name is still to come.
Closes(c, n) ==
    \/ /\ n = Ensure!EnsureDB
       /\ \/ ensurePc[c] \in {"check", "create", "close"}
          \/ stage[c] = Ensure!EnsureSchema
    \/ n = Ensure!EnsureSchema /\ stage[c] = Ensure!EnsureSchema /\ ensurePc[c] \in {"exec", "close"}

RegistryOK ==
    \A p \in EnsureProcesses, n \in Ensure!Names :
        LET c == registry[p][n] IN c # NoCall => process[c] = p /\ Closes(c, n)

\* A call that meets nobody finds its own pools, and nothing else, in dbMap.
OpenOK ==
    \A c \in EnsureCalls \ overlapped, n \in Ensure!Names :
        <<c, n>> \in pools =>
            \/ ensurePc[c] = "store" /\ stage[c] = n
            \/ registry[process[c]][n] = c
PoolOK ==
    \A c \in EnsureCalls \ overlapped : ensurePc[c] \in {"check", "create", "exec"} => pool[c] = c

\* What a call without an error has reached.
ReachedOK ==
    \A c \in EnsureCalls \ (failed \cup overlapped) :
        /\ stage[c] = Ensure!EnsureSchema \/ ensurePc[c] = "close" => target[c] \in databases
        /\ ensurePc[c] = "close" /\ dialect.schemas /\ c \in schema => target[c] \in schemas

CreatedOK == \A c \in created \ overlapped : c \in EnsureCalls /\ target[c] \in databases

\* The inductive invariant.
EnsureInv ==
    /\ EnsureTypes /\ StageOK /\ OverlapOK /\ RegistryOK /\ OpenOK /\ PoolOK
    /\ ReachedOK /\ CreatedOK /\ Ensure!Exists /\ Ensure!CreatedOnce

\* The invariant says what is checked: whoever is registered still runs.
LEMMA InvEnsured == Ensure!EnsureParameters /\ EnsureInv => Ensure!Ensured
<1> SUFFICES ASSUME Ensure!EnsureParameters, EnsureInv PROVE Ensure!PoolsAreTemporary
  BY DEF EnsureInv, Ensure!Ensured
<1> USE DEF EnsureInv
<1> SUFFICES ASSUME NEW c \in EnsureCalls, ensurePc[c] = "done",
                    \A d \in Ensure!Running : process[d] # process[c]
             PROVE  /\ \A n \in Ensure!Names : registry[process[c]][n] = NoCall
                    /\ c \notin overlapped => \A n \in Ensure!Names : <<c, n>> \notin pools
  BY DEF Ensure!PoolsAreTemporary
<1>1. ASSUME NEW n \in Ensure!Names PROVE registry[process[c]][n] = NoCall
  <2> DEFINE d == registry[process[c]][n]
  <2> SUFFICES ASSUME d # NoCall PROVE FALSE
    OBVIOUS
  <2>1. d \in EnsureCalls /\ process[d] = process[c] /\ Closes(d, n)
    BY DEF EnsureTypes, RegistryOK
  <2>2. d \in Ensure!Running
    BY <2>1 DEF Closes, StageOK, Ensure!Running, Ensure!EnsureDB, Ensure!EnsureSchema
  <2> QED
    BY <2>1, <2>2
<1>2. ASSUME c \notin overlapped, NEW n \in Ensure!Names PROVE <<c, n>> \notin pools
  BY <1>1, <1>2 DEF OpenOK, Ensure!EnsureParameters
<1> QED
  BY <1>1, <1>2

LEMMA EnsureInitially == Ensure!Init => EnsureInv
<1> SUFFICES ASSUME Ensure!Init PROVE EnsureInv
  OBVIOUS
<1>1. EnsureTypes
  BY DEF Ensure!Init, EnsureTypes, Ensure!Names, Locations
<1>2. StageOK /\ OverlapOK /\ RegistryOK /\ OpenOK /\ PoolOK
  BY DEF Ensure!Init, StageOK, OverlapOK, Ensure!Running, RegistryOK, OpenOK, PoolOK
<1>3. ReachedOK /\ CreatedOK /\ Ensure!Exists /\ Ensure!CreatedOnce
  BY DEF Ensure!Init, ReachedOK, CreatedOK, Ensure!Exists, Ensure!CreatedOnce, Ensure!EnsureDB, Ensure!EnsureSchema
<1> QED
  BY <1>1, <1>2, <1>3 DEF EnsureInv

----------------------------------------------------------------------------
\* A call that has met nobody is alone in its process, so that the names are
\* free when it looks for them and what it uses is its own.
LEMMA FreeName ==
    ASSUME Ensure!EnsureParameters, EnsureInv, NEW c \in EnsureCalls, c \notin overlapped, ensurePc[c] = "load"
    PROVE  Ensure!InUse(c) = NoCall
<1> DEFINE d == Ensure!InUse(c)
<1> SUFFICES ASSUME d # NoCall PROVE FALSE
  OBVIOUS
<1>1. d \in EnsureCalls /\ process[d] = process[c] /\ Closes(d, stage[c])
  BY DEF Ensure!InUse, EnsureInv, EnsureTypes, RegistryOK
<1>2. d \in Ensure!Running /\ c \in Ensure!Running
  BY <1>1 DEF Closes, EnsureInv, StageOK, Ensure!Running, Ensure!EnsureDB, Ensure!EnsureSchema
<1>3. d # c
  BY <1>1 DEF Closes, Ensure!EnsureDB, Ensure!EnsureSchema
<1> QED
  BY <1>1, <1>2, <1>3 DEF EnsureInv, OverlapOK

LEMMA OwnPlace ==
    ASSUME Ensure!EnsureParameters, EnsureInv, NEW c \in EnsureCalls, c \notin overlapped,
           ensurePc[c] \in {"check", "create", "exec"}
    PROVE  Ensure!At(c) = target[c]
<1>1. pool[c] = c /\ target[c] \in EnsurePlaces
  BY DEF EnsureInv, PoolOK, EnsureTypes
<1> QED
  BY <1>1 DEF Ensure!At, Ensure!EnsureParameters

\* Nobody else changes what the process of such a call has registered for it.
LEMMA OwnName ==
    ASSUME Ensure!EnsureParameters, EnsureInv, NEW c \in EnsureCalls \ overlapped, NEW n \in Ensure!Names,
           registry[process[c]][n] = c, NEW d \in Ensure!Running, process[d] = process[c]
    PROVE  d = c
<1>1. process[c] \in EnsureProcesses /\ c # NoCall
  BY DEF EnsureInv, EnsureTypes, Ensure!EnsureParameters
<1>2. Closes(c, n)
  BY <1>1 DEF EnsureInv, RegistryOK
<1>3. c \in Ensure!Running
  BY <1>2 DEF EnsureInv, Closes, StageOK, Ensure!Running, Ensure!EnsureDB, Ensure!EnsureSchema
<1> QED
  BY <1>3 DEF EnsureInv, OverlapOK

----------------------------------------------------------------------------
LEMMA StartKeeps ==
    ASSUME EnsureInv, NEW e \in EnsureCalls, Ensure!Start(e)
    PROVE  EnsureInv'
<1> USE DEF Ensure!Start, Ensure!Goto, Ensure!callVars, EnsureInv
<1>1. EnsureTypes' /\ StageOK'
  BY DEF EnsureTypes, StageOK, Locations
<1>2. overlapped \subseteq overlapped' /\ failed \subseteq failed'
  OBVIOUS
<1>3. OverlapOK'
  BY DEF OverlapOK, Ensure!Running, EnsureTypes
<1>4. RegistryOK'
  BY DEF RegistryOK, Closes, EnsureTypes
<1>5. OpenOK' /\ PoolOK'
  BY <1>2 DEF OpenOK, PoolOK, EnsureTypes
<1>6. ReachedOK' /\ CreatedOK' /\ Ensure!CreatedOnce'
  BY <1>2 DEF ReachedOK, CreatedOK, Ensure!CreatedOnce, EnsureTypes
<1>7. Ensure!Exists'
  BY <1>2 DEF Ensure!Exists, EnsureTypes
<1> QED
  BY <1>1, <1>3, <1>4, <1>5, <1>6, <1>7

LEMMA LoadKeeps ==
    ASSUME Ensure!EnsureParameters, EnsureInv, NEW e \in EnsureCalls, Ensure!InitLoad(e)
    PROVE  EnsureInv'
<1> USE DEF Ensure!InitLoad, Ensure!Goto, Ensure!FirstUse, Ensure!callVars, EnsureInv
<1>1. EnsureTypes'
  <2>1. Ensure!InUse(e) \in EnsureCalls \cup {NoCall}
    BY DEF EnsureTypes, Ensure!InUse
  <2>2. ensurePc' \in [EnsureCalls -> Locations]
    BY DEF EnsureTypes, Locations
  <2> QED
    BY <2>1, <2>2 DEF EnsureTypes
<1>2. StageOK'
  BY DEF EnsureTypes, StageOK, Ensure!Names
<1>3. OverlapOK'
  BY DEF OverlapOK, Ensure!Running, EnsureTypes
<1>4. RegistryOK'
  BY DEF RegistryOK, Closes, EnsureTypes, Ensure!Names, Ensure!EnsureDB, Ensure!EnsureSchema
<1>5. OpenOK'
  BY DEF OpenOK, EnsureTypes
<1>6. PoolOK'
  BY FreeName DEF PoolOK, EnsureTypes
<1>7. ReachedOK' /\ CreatedOK' /\ Ensure!CreatedOnce' /\ Ensure!Exists'
  BY DEF ReachedOK, CreatedOK, Ensure!CreatedOnce, Ensure!Exists, EnsureTypes
<1> QED
  BY <1>1, <1>2, <1>3, <1>4, <1>5, <1>6, <1>7

LEMMA OpenKeeps ==
    ASSUME EnsureInv, NEW e \in EnsureCalls, Ensure!InitOpen(e)
    PROVE  EnsureInv'
<1> USE DEF Ensure!InitOpen, Ensure!Goto, Ensure!callVars, EnsureInv
<1>1. EnsureTypes'
  BY DEF EnsureTypes, Locations, Ensure!Names
<1>2. StageOK'
  BY DEF EnsureTypes, StageOK, Ensure!Names
<1>3. OverlapOK'
  BY DEF OverlapOK, Ensure!Running, EnsureTypes
<1>4. RegistryOK'
  BY DEF RegistryOK, Closes, EnsureTypes, Ensure!Names, Ensure!EnsureDB, Ensure!EnsureSchema
<1>5. OpenOK'
  BY DEF OpenOK, EnsureTypes
<1>6. PoolOK'
  BY DEF PoolOK, EnsureTypes
<1>7. ReachedOK' /\ CreatedOK' /\ Ensure!CreatedOnce' /\ Ensure!Exists'
  BY DEF ReachedOK, CreatedOK, Ensure!CreatedOnce, Ensure!Exists, EnsureTypes
<1> QED
  BY <1>1, <1>2, <1>3, <1>4, <1>5, <1>6, <1>7

LEMMA StoreKeeps ==
    ASSUME Ensure!EnsureParameters, EnsureInv, NEW e \in EnsureCalls, Ensure!InitStore(e)
    PROVE  EnsureInv'
<1> USE DEF Ensure!InitStore, Ensure!Goto, Ensure!FirstUse, Ensure!callVars, EnsureInv
<1>1. EnsureTypes'
  BY DEF EnsureTypes, Locations, Ensure!Names
<1>2. StageOK'
  BY DEF EnsureTypes, StageOK, Ensure!Names
<1>3. OverlapOK'
  BY DEF OverlapOK, Ensure!Running, EnsureTypes
<1>4. RegistryOK'
  BY DEF RegistryOK, Closes, EnsureTypes, Ensure!Names, Ensure!EnsureDB, Ensure!EnsureSchema
<1>5. OpenOK'
  <2> SUFFICES ASSUME NEW c \in EnsureCalls \ overlapped, NEW n \in Ensure!Names, <<c, n>> \in pools
               PROVE  \/ ensurePc'[c] = "store" /\ stage[c] = n
                      \/ registry'[process[c]][n] = c
    BY DEF OpenOK
  <2>1. CASE c = e
    BY <2>1 DEF OpenOK, EnsureTypes
  <2>2. CASE c # e /\ ensurePc[c] = "store" /\ stage[c] = n
    BY <2>2 DEF EnsureTypes
  <2>3. CASE c # e /\ registry[process[c]][n] = c
    <3>1. process[e] # process[c]
      BY <2>3, OwnName DEF Ensure!Running
    <3> QED
      BY <2>3, <3>1 DEF EnsureTypes
  <2> QED
    BY <2>1, <2>2, <2>3 DEF OpenOK
<1>6. PoolOK'
  BY DEF PoolOK, EnsureTypes
<1>7. ReachedOK' /\ CreatedOK' /\ Ensure!CreatedOnce' /\ Ensure!Exists'
  BY DEF ReachedOK, CreatedOK, Ensure!CreatedOnce, Ensure!Exists, EnsureTypes
<1> QED
  BY <1>1, <1>2, <1>3, <1>4, <1>5, <1>6, <1>7

LEMMA CloseKeeps ==
    ASSUME Ensure!EnsureParameters, EnsureInv, NEW e \in EnsureCalls, Ensure!Close(e)
    PROVE  EnsureInv'
<1> USE DEF Ensure!Close, Ensure!Goto, Ensure!callVars, EnsureInv
<1>1. EnsureTypes'
  BY DEF EnsureTypes, Locations, Ensure!Names
<1>2. StageOK'
  BY DEF EnsureTypes, StageOK, Ensure!Names
<1>3. OverlapOK'
  BY DEF OverlapOK, Ensure!Running, EnsureTypes
<1>4. RegistryOK'
  BY DEF RegistryOK, Closes, EnsureTypes, Ensure!Names, Ensure!EnsureDB, Ensure!EnsureSchema
<1>5. OpenOK'
  <2> SUFFICES ASSUME NEW c \in EnsureCalls \ overlapped, NEW n \in Ensure!Names, <<c, n>> \in pools'
               PROVE  \/ ensurePc'[c] = "store" /\ stage'[c] = n
                      \/ registry'[process[c]][n] = c
    BY DEF OpenOK
  <2>1. <<c, n>> \in pools
    OBVIOUS
  <2>2. CASE ensurePc[c] = "store" /\ stage[c] = n
    BY <2>2 DEF EnsureTypes
  <2>3. CASE registry[process[c]][n] = c
    <3>1. CASE process[e] = process[c] /\ stage[e] = n
      BY <2>3, <3>1 DEF Ensure!InUse
    <3>2. CASE process[e] # process[c] \/ stage[e] # n
      BY <2>3, <3>2 DEF EnsureTypes
    <3> QED
      BY <3>1, <3>2
  <2> QED
    BY <2>1, <2>2, <2>3 DEF OpenOK
<1>6. PoolOK'
  BY DEF PoolOK, EnsureTypes
<1>7. ReachedOK' /\ CreatedOK' /\ Ensure!CreatedOnce'
  BY DEF ReachedOK, CreatedOK, Ensure!CreatedOnce, EnsureTypes, Ensure!Names, Ensure!EnsureDB, Ensure!EnsureSchema
<1>8. Ensure!Exists'
  BY DEF Ensure!Exists, ReachedOK, EnsureTypes
<1> QED
  BY <1>1, <1>2, <1>3, <1>4, <1>5, <1>6, <1>7, <1>8

\* dbExists goes on where the database is, or to the statement.
LEMMA CheckKeeps ==
    ASSUME Ensure!EnsureParameters, EnsureInv, NEW e \in EnsureCalls, Ensure!Check(e)
    PROVE  EnsureInv'
<1> USE DEF Ensure!Check, Ensure!Continue, Ensure!Goto, Ensure!callVars, EnsureInv
<1>1. EnsureTypes'
  BY DEF EnsureTypes, Locations, Ensure!Names
<1>2. StageOK'
  BY DEF EnsureTypes, StageOK, Ensure!Names
<1>3. OverlapOK'
  BY DEF OverlapOK, Ensure!Running, EnsureTypes
<1>4. RegistryOK'
  BY DEF RegistryOK, Closes, EnsureTypes, Ensure!Names, StageOK, Ensure!EnsureDB, Ensure!EnsureSchema
<1>5. OpenOK'
  BY DEF OpenOK, EnsureTypes
<1>6. PoolOK'
  BY DEF PoolOK, EnsureTypes
<1>7. ReachedOK'
  BY OwnPlace DEF ReachedOK, StageOK, EnsureTypes, Ensure!EnsureDB, Ensure!EnsureSchema
<1>8. CreatedOK' /\ Ensure!CreatedOnce' /\ Ensure!Exists'
  BY DEF CreatedOK, Ensure!CreatedOnce, Ensure!Exists, EnsureTypes
<1> QED
  BY <1>1, <1>2, <1>3, <1>4, <1>5, <1>6, <1>7, <1>8

\* The statement creates the database of the call, if the pool is its own.
LEMMA CreateKeeps ==
    ASSUME Ensure!EnsureParameters, EnsureInv, NEW e \in EnsureCalls, Ensure!Create(e)
    PROVE  EnsureInv'
<1> USE DEF Ensure!Create, Ensure!Continue, Ensure!Goto, Ensure!callVars, EnsureInv
<1>1. EnsureTypes'
  BY DEF EnsureTypes, Locations, Ensure!Names
<1>2. StageOK'
  BY DEF EnsureTypes, StageOK, Ensure!Names
<1>3. OverlapOK'
  BY DEF OverlapOK, Ensure!Running, EnsureTypes
<1>4. RegistryOK'
  BY DEF RegistryOK, Closes, EnsureTypes, Ensure!Names, StageOK, Ensure!EnsureDB, Ensure!EnsureSchema
<1>5. OpenOK'
  BY DEF OpenOK, EnsureTypes
<1>6. PoolOK'
  BY DEF PoolOK, EnsureTypes
<1>7. databases \subseteq databases' /\ failed \subseteq failed'
  OBVIOUS
<1>8. e \notin overlapped => Ensure!At(e) = target[e]
  BY OwnPlace
<1>9. ReachedOK'
  BY <1>7, <1>8 DEF ReachedOK, StageOK, EnsureTypes, Ensure!EnsureDB, Ensure!EnsureSchema
<1>10. CreatedOK'
  BY <1>7, <1>8 DEF CreatedOK, EnsureTypes
<1>11. Ensure!CreatedOnce'
  BY <1>8 DEF Ensure!CreatedOnce, CreatedOK, EnsureTypes
<1>12. Ensure!Exists'
  BY <1>7 DEF Ensure!Exists, EnsureTypes
<1> QED
  BY <1>1, <1>2, <1>3, <1>4, <1>5, <1>6, <1>9, <1>10, <1>11, <1>12

LEMMA CreateSchemaKeeps ==
    ASSUME Ensure!EnsureParameters, EnsureInv, NEW e \in EnsureCalls, Ensure!CreateSchema(e)
    PROVE  EnsureInv'
<1> USE DEF Ensure!CreateSchema, Ensure!Goto, Ensure!callVars, EnsureInv
<1>1. EnsureTypes'
  BY DEF EnsureTypes, Locations, Ensure!Names
<1>2. StageOK'
  BY DEF EnsureTypes, StageOK, Ensure!Names
<1>3. OverlapOK'
  BY DEF OverlapOK, Ensure!Running, EnsureTypes
<1>4. RegistryOK'
  BY DEF RegistryOK, Closes, EnsureTypes, Ensure!Names, StageOK, Ensure!EnsureDB, Ensure!EnsureSchema
<1>5. OpenOK'
  BY DEF OpenOK, EnsureTypes
<1>6. PoolOK'
  BY DEF PoolOK, EnsureTypes
<1>7. schemas \subseteq schemas' /\ failed \subseteq failed'
  OBVIOUS
<1>8. e \notin overlapped => Ensure!At(e) = target[e]
  BY OwnPlace
<1>9. ReachedOK'
  BY <1>7, <1>8 DEF ReachedOK, StageOK, EnsureTypes, Ensure!EnsureDB, Ensure!EnsureSchema
<1>10. CreatedOK' /\ Ensure!CreatedOnce' /\ Ensure!Exists'
  BY <1>7 DEF CreatedOK, Ensure!CreatedOnce, Ensure!Exists, EnsureTypes
<1> QED
  BY <1>1, <1>2, <1>3, <1>4, <1>5, <1>6, <1>9, <1>10

LEMMA EnsureStutter == EnsureInv /\ UNCHANGED Ensure!vars => EnsureInv'
<1> SUFFICES ASSUME EnsureInv, UNCHANGED Ensure!vars PROVE EnsureInv'
  OBVIOUS
<1> USE DEF Ensure!vars, Ensure!callVars
<1>1. EnsureTypes' /\ StageOK'
  BY DEF EnsureInv, EnsureTypes, StageOK
<1>2. OverlapOK' /\ RegistryOK'
  BY DEF EnsureInv, OverlapOK, RegistryOK, Closes, Ensure!Running
<1>3. OpenOK' /\ PoolOK'
  BY DEF EnsureInv, OpenOK, PoolOK
<1>4. ReachedOK' /\ CreatedOK' /\ Ensure!Exists' /\ Ensure!CreatedOnce'
  BY DEF EnsureInv, ReachedOK, CreatedOK, Ensure!Exists, Ensure!CreatedOnce
<1> QED
  BY <1>1, <1>2, <1>3, <1>4 DEF EnsureInv

\* What EnsureDatabase returns is true.
THEOREM DatabasesAreEnsured == Ensure!Spec => []Ensured
<1>1. EnsureInv /\ [Ensure!Next]_(Ensure!vars) => EnsureInv'
  BY EnsureStutter, StartKeeps, LoadKeeps, OpenKeeps, StoreKeeps, CloseKeeps, CheckKeeps,
     CreateKeeps, CreateSchemaKeeps,
     ServicesAssumption DEF Ensure!Next
<1>2. EnsureInv => Ensured
  BY InvEnsured, ServicesAssumption DEF Ensured
<1> QED
  BY EnsureInitially, <1>1, <1>2, PTL DEF Ensure!Spec
=============================================================================
