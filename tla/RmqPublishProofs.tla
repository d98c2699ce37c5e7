--------------------------- MODULE RmqPublishProofs ---------------------------
(***************************************************************************)
(* Proofs about RmqPublish for any number of pushes, consumers, queues,    *)
(* slots and attempts: a push that ends holds nothing and was stored no    *)
(* more often than it was tried, what is reported as confirmed was stored, *)
(* and nobody waits in a circle for channels and queue locks.              *)
(***************************************************************************)
EXTENDS RmqPublish, FiniteSetTheorems, TLAPS

Channel ==
    [open : BOOLEAN, confirm : BOOLEAN, sent : Seq(Pushers),
     confirms : Seq([msg : Pushers, ack : BOOLEAN])]

PushPlaces == {"idle", "try", "borrow", "exchange", "topology", "bind", "confirm",
               "unlock", "return", "wait", "done", "panicked"}
ConsumePlaces == {"idle", "ready", "borrow", "setup", "consuming", "retry", "panicked"}

\* Where a push and a consumer can be.
Places ==
    /\ pc \in [Threads -> PushPlaces \cup ConsumePlaces]
    /\ \A p \in Pushers : pc[p] \in PushPlaces
    /\ \A c \in Consumers : pc[c] \in ConsumePlaces

\* The types, the lengths of what is in a channel apart.
Types ==
    /\ where \in [Slots -> {"free", "idle"} \cup Threads]
    /\ ch \in [Slots -> Channel]
    /\ stored \in [Pushers -> Nat]
    /\ lock \in [Queues -> Threads \cup {Nobody}]
    /\ Places
    /\ slot \in [Threads -> Slots \cup {Nobody}]
    /\ todo \in [Pushers -> SUBSET Queues]
    /\ attempt \in [Pushers -> 0..AttemptTimes]
    /\ result \in [Pushers -> {"none", "ok", "error", "closed"}]
    /\ {closed, closeCh, connDown, poolDown} \subseteq BOOLEAN
    /\ closeCh => closed

\* Who uses a slot has borrowed it from its pool.
BorrowedOK ==
    /\ \A t \in Threads : slot[t] # Nobody => where[slot[t]] = t /\ slot[t] \in PoolOf(t)
    /\ \A s \in Slots : where[s] \in Threads => slot[where[s]] = s

\* A push has a slot from the time it has borrowed it until it returns it, or for
\* good after a panic, and waits for a confirmation only if it asked for one.
HeldPlaces == {"exchange", "topology", "bind", "confirm", "unlock", "return", "panicked"}
HeldOK ==
    /\ BorrowedOK
    /\ \A p \in Pushers : /\ slot[p] # Nobody <=> pc[p] \in HeldPlaces
                          /\ pc[p] = "confirm" => p \in Confirming
    /\ \A c \in Consumers :
         /\ pc[c] \in {"setup", "consuming", "panicked"} => slot[c] # Nobody
         /\ pc[c] \in {"idle", "borrow"} => slot[c] = Nobody

\* Who holds a queue lock is between its Lock and its Unlock.
LockPlaces(t) ==
    IF t \in Pushers THEN {"topology", "bind", "confirm", "unlock"}
    ELSE {"ready", "borrow", "setup"}
LockOK == \A q \in Queues : lock[q] \in Threads => pc[lock[q]] \in LockPlaces(lock[q])

\* The message of p is on its way in slot s, or its confirmation waits there.
Sent(p, s) == \E i \in DOMAIN ch[s].sent : ch[s].sent[i] = p
Confirmed(p, s) == \E i \in DOMAIN ch[s].confirms : ch[s].confirms[i].msg = p
In(p, s) == Sent(p, s) \/ Confirmed(p, s)

\* What is in a channel belongs to the push that waits for its confirmation, or
\* to one that has given the channel up, has succeeded without confirmation, or
\* was told by Close to end.
Way(p) ==
    \A s \in Slots : In(p, s) =>
        /\ s \in PoolOf(p)
        /\ \/ pc[p] = "confirm" /\ slot[p] = s
           \/ pc[p] \in {"unlock", "return"} /\ slot[p] = s /\ ~ch[s].open
           \/ pc[p] \in {"unlock", "return", "done"} /\ result[p] = "ok" /\ p \notin Confirming
           \/ pc[p] \in {"unlock", "return", "wait", "try", "done"} /\ closeCh
WayOK == \A p \in Pushers : Way(p)

\* A message is in the channels once.
OnceOK ==
    \A s \in Slots :
        /\ \A t \in Slots : \A i \in DOMAIN ch[s].sent, j \in DOMAIN ch[t].sent :
             ch[s].sent[i] = ch[t].sent[j] => s = t /\ i = j
        /\ \A i, j \in DOMAIN ch[s].confirms :
             ch[s].confirms[i].msg = ch[s].confirms[j].msg => i = j
        /\ \A i \in DOMAIN ch[s].sent, j \in DOMAIN ch[s].confirms :
             ch[s].sent[i] # ch[s].confirms[j].msg

\* A channel that is closed sends nothing, and an ack is about a stored message.
ChannelOK ==
    \A s \in Slots :
        /\ ~ch[s].open => ch[s].sent = <<>>
        /\ \A i \in DOMAIN ch[s].confirms :
             ch[s].confirms[i].ack => stored[ch[s].confirms[i].msg] > 0

\* The copies of a message, stored or still on the way, were sent in an attempt.
Copies(p) == stored[p] + IF \E s \in Slots : Sent(p, s) THEN 1 ELSE 0
AttemptOK ==
    \A p \in Pushers :
        /\ Copies(p) <= AttemptTimes
        /\ pc[p] # "done" =>
             /\ attempt[p] < AttemptTimes
             /\ Copies(p) <= attempt[p] +
                    IF pc[p] \in {"confirm", "unlock", "return", "wait"} THEN 1 ELSE 0

\* The inductive invariant.
IInv == Types /\ HeldOK /\ LockOK /\ WayOK /\ OnceOK /\ ChannelOK /\ AttemptOK

\* A push is not a consumer, nor is either what a slot says of no thread.
LEMMA Names ==
    /\ Pushers \subseteq Threads /\ Consumers \subseteq Threads
    /\ Threads = Pushers \cup Consumers /\ Pushers \cap Consumers = {}
    /\ Nobody \notin Threads /\ Nobody \notin Slots
    /\ Threads \cap {"free", "idle"} = {}
    /\ AttemptTimes \in Nat \ {0}
    /\ Slots = ConfirmSlots \cup PlainSlots /\ ConfirmSlots \cap PlainSlots = {}
    /\ \A t \in Consumers : PoolOf(t) = PlainSlots
    /\ \A t \in Threads : PoolOf(t) \subseteq Slots
    /\ \A p \in Pushers, s \in ConfirmSlots : s \in PoolOf(p) => p \in Confirming
    /\ \A p \in Confirming : p \in Pushers /\ PoolOf(p) = ConfirmSlots
BY PublishAssumption DEF Threads, Slots, PoolOf

----------------------------------------------------------------------------
(***************************************************************************)
(* How often a message is taken.                                           *)
(***************************************************************************)

\* A set with at most one element has cardinality 0 or 1.
LEMMA OneAtMost ==
    ASSUME NEW S, \A x, y \in S : x = y
    PROVE  Cardinality(S) = IF S = {} THEN 0 ELSE 1
<1>1. CASE S = {}
  BY <1>1, FS_EmptySet
<1>2. CASE S # {}
  <2>1. PICK x \in S : S = {x}
    BY <1>2
  <2> QED BY <1>2, <2>1, FS_Singleton
<1> QED BY <1>1, <1>2

\* Of the first n messages of a channel one at most is the message of p.
LEMMA TakenOnce ==
    ASSUME Types, OnceOK, NEW s \in Slots, NEW n \in 0..Len(ch[s].sent)
    PROVE  /\ Taken(s, n) \in [Pushers -> Nat]
           /\ \A p \in Pushers : Taken(s, n)[p] =
                stored[p] + IF \E i \in 1..n : ch[s].sent[i] = p THEN 1 ELSE 0
<1>1. ch[s].sent \in Seq(Pushers) /\ stored \in [Pushers -> Nat]
  BY DEF Types, Channel
<1>2. \A i \in 1..n : i \in DOMAIN ch[s].sent
  BY <1>1
<1>3. ASSUME NEW p \in Pushers
      PROVE  Cardinality({i \in 1..n : ch[s].sent[i] = p}) =
               IF \E i \in 1..n : ch[s].sent[i] = p THEN 1 ELSE 0
  <2> DEFINE S == {i \in 1..n : ch[s].sent[i] = p}
  <2>1. \A x, y \in S : x = y
    BY <1>2 DEF OnceOK
  <2>2. S = {} <=> ~\E i \in 1..n : ch[s].sent[i] = p
    OBVIOUS
  <2> HIDE DEF S
  <2>3. Cardinality(S) = IF S = {} THEN 0 ELSE 1
    BY <2>1, OneAtMost
  <2> QED BY <2>2, <2>3 DEF S
<1> QED BY SMTT(30), <1>1, <1>3 DEF Taken

\* What CloseConn adds for a message is at most one as well.
LEMMA ClosedOnce ==
    ASSUME Types, OnceOK, NEW p \in Pushers, NEW n,
           \A s \in Slots : n[s] \in Nat /\ n[s] <= Len(ch[s].sent)
    PROVE  LET X == {x \in Slots \X (1..Cardinality(Pushers)) :
                        x[2] <= n[x[1]] /\ ch[x[1]].sent[x[2]] = p}
           IN  /\ Cardinality(X) = IF X = {} THEN 0 ELSE 1
               /\ X # {} => \E s \in Slots : Sent(p, s)
<1> DEFINE X == {x \in Slots \X (1..Cardinality(Pushers)) :
                    x[2] <= n[x[1]] /\ ch[x[1]].sent[x[2]] = p}
<1>1. ASSUME NEW x \in X
      PROVE  /\ x = <<x[1], x[2]>> /\ x[1] \in Slots
             /\ x[2] \in DOMAIN ch[x[1]].sent /\ ch[x[1]].sent[x[2]] = p
  <2>1. x[1] \in Slots /\ x[2] \in 1..Cardinality(Pushers) /\ x = <<x[1], x[2]>>
        /\ x[2] <= n[x[1]] /\ ch[x[1]].sent[x[2]] = p
    OBVIOUS
  <2>2. ch[x[1]].sent \in Seq(Pushers)
    BY <2>1 DEF Types, Channel
  <2>3. Cardinality(Pushers) \in Nat
    BY PublishAssumption, FS_CardinalityType
  <2> QED BY <2>1, <2>2, <2>3
<1>2. \A x, y \in X : x = y
  BY SMTT(30), <1>1 DEF OnceOK
<1>3. X # {} => \E s \in Slots : Sent(p, s)
  BY <1>1 DEF Sent
<1> HIDE DEF X
<1>4. Cardinality(X) = IF X = {} THEN 0 ELSE 1
  BY <1>2, OneAtMost
<1> QED BY <1>3, <1>4 DEF X

----------------------------------------------------------------------------
(***************************************************************************)
(* What the steps do to the channels.                                      *)
(***************************************************************************)

\* The channel in slot s ends or is replaced: nothing is on its way any more, and
\* confirmations wait at most in a channel that is closed.
Dropped(s) ==
    /\ ch'[s].sent = <<>> /\ ch'[s].confirms \in {<<>>, ch[s].confirms}
    /\ ch'[s].confirms # <<>> => ~ch'[s].open

\* Channels end, and the broker has taken some of what was on its way.
DropStep ==
    /\ ch' \in [Slots -> Channel] /\ stored' \in [Pushers -> Nat]
    /\ \A s \in Slots : ch'[s] = ch[s] \/ Dropped(s)
    /\ \A p \in Pushers :
         \/ stored'[p] = stored[p]
         \/ stored'[p] = stored[p] + 1 /\ \E s \in Slots : Sent(p, s) /\ Dropped(s)

\* The channel in one slot ends or is replaced.
LEMMA OneDrop ==
    ASSUME IInv, NEW s \in Slots, NEW r \in Channel,
           r.sent = <<>>, r.confirms \in {<<>>, ch[s].confirms}, r.confirms # <<>> => ~r.open,
           ch' = [ch EXCEPT ![s] = r],
           stored' = stored \/ \E n \in 0..Len(ch[s].sent) : stored' = Taken(s, n)
    PROVE  DropStep
<1>1. ch \in [Slots -> Channel] /\ stored \in [Pushers -> Nat]
  BY DEF IInv, Types
<1>2. /\ ch' \in [Slots -> Channel] /\ ch'[s] = r
      /\ \A t \in Slots : t # s => ch'[t] = ch[t]
  BY <1>1
<1>3. Dropped(s)
  BY <1>2 DEF Dropped
<1>4. CASE stored' = stored
  BY <1>1, <1>2, <1>3, <1>4 DEF DropStep
<1>5. ASSUME NEW n \in 0..Len(ch[s].sent), stored' = Taken(s, n)
      PROVE  DropStep
  <2>1. /\ stored' \in [Pushers -> Nat]
        /\ \A p \in Pushers : stored'[p] =
             stored[p] + IF \E i \in 1..n : ch[s].sent[i] = p THEN 1 ELSE 0
    BY <1>5, TakenOnce DEF IInv
  <2>2. ch[s].sent \in Seq(Pushers)
    BY <1>1 DEF Channel
  <2>3. \A p \in Pushers : (\E i \in 1..n : ch[s].sent[i] = p) => Sent(p, s)
    BY <2>2 DEF Sent
  <2>4. \A p \in Pushers : stored[p] \in Nat
    BY <1>1
  <2> QED BY <1>2, <1>3, <2>1, <2>3, <2>4 DEF DropStep
<1> QED BY <1>4, <1>5

\* The channels that an operation puts into a slot.
LEMMA SomeChannels ==
    /\ NoChannel \in Channel /\ NoChannel.sent = <<>> /\ NoChannel.confirms = <<>>
    /\ ~NoChannel.open
    /\ \A b \in BOOLEAN : /\ NewChannel(b) \in Channel /\ NewChannel(b).sent = <<>>
                          /\ NewChannel(b).confirms = <<>>
    /\ Types => \A s \in Slots :
         /\ Ended(s) \in Channel /\ Ended(s).sent = <<>>
         /\ Ended(s).confirms = ch[s].confirms /\ ~Ended(s).open
<1>1. <<>> \in Seq(Pushers) /\ <<>> \in Seq([msg : Pushers, ack : BOOLEAN])
  OBVIOUS
<1> QED BY <1>1 DEF NoChannel, NewChannel, Ended, Types, Channel

\* Steps after which the channel in one slot, or in every slot, has ended.
LEMMA BorrowedDrops ==
    ASSUME IInv, NEW t \in Threads, NEW s \in Slots, Borrowed(t, s), stored' = stored
    PROVE  DropStep
<1>1. ch \in [Slots -> Channel] /\ stored \in [Pushers -> Nat]
  BY DEF IInv, Types
<1>2. CASE BorrowIdle(t, s)
  BY <1>1, <1>2 DEF BorrowIdle, DropStep
<1>3. CASE BorrowRebuilt(t, s)
  BY <1>3, OneDrop, SomeChannels DEF BorrowRebuilt
<1>4. CASE BorrowCreated(t, s)
  <2>1. (s \in ConfirmSlots) \in BOOLEAN
    OBVIOUS
  <2> QED BY <1>4, <2>1, OneDrop, SomeChannels DEF BorrowCreated
<1> QED BY <1>2, <1>3, <1>4 DEF Borrowed

\* A consumer gives its channel up.
LEMMA DiscardDrops ==
    ASSUME IInv, NEW c \in Consumers, Discard(c), stored' = stored
    PROVE  DropStep
<1>1. ch \in [Slots -> Channel] /\ stored \in [Pushers -> Nat]
  BY DEF IInv, Types
<1>2. ch' = [s \in Slots |-> IF s = slot[c] THEN NoChannel ELSE ch[s]]
  BY DEF Discard
<1>3. ch' \in [Slots -> Channel]
  BY <1>1, <1>2, SomeChannels
<1>4. \A s \in Slots : ch'[s] = ch[s] \/ Dropped(s)
  BY <1>2, SomeChannels DEF Dropped
<1> QED BY <1>1, <1>3, <1>4 DEF DropStep

\* A push returns its channel.
LEMMA GiveBackDrops ==
    ASSUME IInv, NEW p \in Pushers, slot[p] \in Slots, GiveBack(p)
    PROVE  DropStep
<1>1. ch \in [Slots -> Channel] /\ stored \in [Pushers -> Nat]
  BY DEF IInv, Types
<1>2. CASE UNCHANGED <<ch, stored>>
  BY <1>1, <1>2 DEF DropStep
<1>3. CASE /\ ch' = [ch EXCEPT ![slot[p]] = NoChannel]
           /\ \E n \in 0..Len(ch[slot[p]].sent) : stored' = Taken(slot[p], n)
  BY <1>3, OneDrop, SomeChannels
<1> QED BY <1>2, <1>3 DEF GiveBack

\* The connection is closed under every channel.
LEMMA CloseConnDrops ==
    ASSUME IInv, CloseConn
    PROVE  DropStep
<1>1. ch \in [Slots -> Channel] /\ stored \in [Pushers -> Nat]
  BY DEF IInv, Types
<1>2. ch' = [s \in Slots |-> Ended(s)]
  BY DEF CloseConn
<1>3. ch' \in [Slots -> Channel] /\ \A s \in Slots : Dropped(s)
  BY <1>2, SomeChannels DEF IInv, Dropped
<1>4. PICK n \in [Slots -> 0..Cardinality(Pushers)] :
        /\ \A s \in Slots : n[s] <= Len(ch[s].sent)
        /\ stored' = [p \in Pushers |-> stored[p] +
              Cardinality({x \in Slots \X (1..Cardinality(Pushers)) :
                             x[2] <= n[x[1]] /\ ch[x[1]].sent[x[2]] = p})]
  BY DEF CloseConn
<1>5. \A s \in Slots : n[s] \in Nat
  <2>1. Cardinality(Pushers) \in Nat
    BY PublishAssumption, FS_CardinalityType
  <2> QED BY <2>1
<1>6. ASSUME NEW p \in Pushers
      PROVE  \/ stored'[p] = stored[p]
             \/ stored'[p] = stored[p] + 1 /\ \E s \in Slots : Sent(p, s)
  <2> DEFINE X == {x \in Slots \X (1..Cardinality(Pushers)) :
                       x[2] <= n[x[1]] /\ ch[x[1]].sent[x[2]] = p}
  <2>1. /\ Cardinality(X) = IF X = {} THEN 0 ELSE 1
        /\ X # {} => \E s \in Slots : Sent(p, s)
    BY <1>4, <1>5, ClosedOnce DEF IInv
  <2>2. stored'[p] = stored[p] + Cardinality(X) /\ stored[p] \in Nat
    BY <1>1, <1>4
  <2> HIDE DEF X
  <2> QED BY <2>1, <2>2
<1>7. stored' \in [Pushers -> Nat]
  <2>1. \A p \in Pushers : stored'[p] \in Nat
    BY <1>1, <1>6
  <2>2. stored' = [p \in Pushers |-> stored'[p]]
    BY <1>4
  <2> QED BY <2>1, <2>2
<1> QED BY <1>3, <1>6, <1>7 DEF DropStep

\* Every other step that touches a channel is one of these.
LEMMA ChannelSteps ==
    ASSUME IInv, [Next]_vars
    PROVE  \/ DropStep
           \/ \E p \in Pushers : Publish(p) \/ ConfirmRecv(p)
           \/ \E s \in Slots : BrokerTake(s)
           \/ \E c \in Consumers : ConsumeOk(c)
<1>1. ch \in [Slots -> Channel] /\ stored \in [Pushers -> Nat]
  BY DEF IInv, Types
<1>2. ASSUME UNCHANGED <<ch, stored>> PROVE DropStep
  BY <1>1, <1>2 DEF DropStep
<1>3. ASSUME NEW s \in Slots, ChannelDies(s) PROVE DropStep
  BY <1>3, OneDrop, SomeChannels DEF ChannelDies, IInv
<1>4. ASSUME NEW p \in Pushers, PushBegin(p) \/ PushTry(p) \/ PushBorrowFails(p) PROVE DropStep
  BY <1>2, <1>4 DEF PushBegin, PushTry, PushBorrowFails, channels
<1>5. ASSUME NEW p \in Pushers, PushBorrow(p) PROVE DropStep
  BY <1>5, BorrowedDrops, Names DEF PushBorrow
<1>6. ASSUME NEW t \in Threads, BorrowPanics(t) PROVE DropStep
  BY <1>2, <1>6 DEF BorrowPanics
<1>7. ASSUME NEW t \in Threads, NEW s \in Slots, BorrowDestroys(t, s) PROVE DropStep
  BY <1>7, OneDrop, SomeChannels DEF BorrowDestroys
<1>8. ASSUME NEW p \in Pushers, DeclareExchange(p) \/ HoldTarget(p) PROVE DropStep
  BY <1>2, <1>8 DEF DeclareExchange, HoldTarget, channels
<1>9. ASSUME NEW p \in Pushers, NEW q \in Queues, BindLock(p, q) \/ BindUnlock(p, q)
      PROVE  DropStep
  BY <1>2, <1>9 DEF BindLock, BindUnlock, channels
<1>10. ASSUME NEW p \in Pushers, PublishFails(p) \/ ConfirmEnds(p) PROVE DropStep
  BY <1>2, <1>10 DEF PublishFails, ConfirmEnds, channels
<1>11. ASSUME NEW p \in Pushers, ConfirmTimeout(p) PROVE DropStep
  <2>1. slot[p] \in Slots
    BY <1>11, Names DEF ConfirmTimeout, IInv, HeldOK, HeldPlaces, BorrowedOK, Types
  <2> QED BY <1>11, <2>1, OneDrop, SomeChannels DEF ConfirmTimeout, IInv
<1>12. ASSUME NEW p \in Pushers, Return(p) PROVE DropStep
  <2>1. slot[p] \in Slots
    BY <1>12, Names DEF Return, IInv, HeldOK, HeldPlaces, BorrowedOK, Types
  <2> QED BY <1>12, <2>1, GiveBackDrops DEF Return
<1>13. ASSUME NEW p \in Pushers, Unlock(p) \/ RetryTick(p) \/ RetryClosed(p) PROVE DropStep
  BY <1>2, <1>13 DEF Unlock, RetryTick, RetryClosed, channels
<1>14. ASSUME NEW c \in Consumers, ConsumeLock(c) \/ Reconsume(c) PROVE DropStep
  BY <1>2, <1>14 DEF ConsumeLock, Reconsume, channels
<1>15. ASSUME NEW c \in Consumers, ConsumeReady(c) \/ ConsumeEnds(c) PROVE DropStep
  BY <1>15, DiscardDrops DEF ConsumeReady, ConsumeEnds
<1>16. ASSUME NEW c \in Consumers, ConsumeBorrow(c) PROVE DropStep
  BY <1>16, BorrowedDrops, Names DEF ConsumeBorrow
<1>17. ASSUME NEW c \in Consumers, ConsumeFails(c) \/ SetupPanics(c) PROVE DropStep
  BY <1>2, <1>17, DiscardDrops DEF ConsumeFails, SetupPanics
<1>18. CASE CloseMark \/ CloseSignal \/ ClosePools
  BY <1>2, <1>18 DEF CloseMark, CloseSignal, ClosePools, channels
<1>19. CASE CloseConn BY <1>19, CloseConnDrops
<1>20. CASE UNCHANGED vars BY <1>2, <1>20 DEF vars
<1>21. ASSUME NEW p \in Pushers, PushStep(p), ~Publish(p), ~ConfirmRecv(p) PROVE DropStep
  BY <1>21, Names, <1>4, <1>5, <1>6, <1>7, <1>8, <1>9, <1>10, <1>11, <1>12, <1>13 DEF PushStep
<1>22. ASSUME NEW c \in Consumers, SetupStep(c), ~ConsumeOk(c) PROVE DropStep
  BY <1>22, Names, <1>6, <1>7, <1>15, <1>16, <1>17 DEF SetupStep
<1> QED
  BY <1>3, <1>4, <1>14, <1>15, <1>18, <1>19, <1>20, <1>21, <1>22 DEF Next, Close

----------------------------------------------------------------------------
(***************************************************************************)
(* The four steps that change what is in an open channel.                  *)
(***************************************************************************)

\* The broker takes the first message of an open channel.
LEMMA BrokerStep ==
    ASSUME IInv, NEW s \in Slots, BrokerTake(s)
    PROVE  /\ ch[s].sent # <<>> /\ ch[s].open
           /\ ch' \in [Slots -> Channel] /\ stored' \in [Pushers -> Nat]
           /\ \A t \in Slots : t # s => ch'[t] = ch[t]
           /\ ch'[s].open /\ ch'[s].sent = Tail(ch[s].sent)
           /\ \E ack \in BOOLEAN :
                /\ ch'[s].confirms \in
                     {ch[s].confirms,
                      Append(ch[s].confirms, [msg |-> Head(ch[s].sent), ack |-> ack])}
                /\ \A p \in Pushers : stored'[p] =
                     stored[p] + IF ack /\ p = Head(ch[s].sent) THEN 1 ELSE 0
<1>1. /\ ch \in [Slots -> Channel] /\ stored \in [Pushers -> Nat]
      /\ ch[s].sent # <<>> /\ ch[s].open /\ ch[s].sent \in Seq(Pushers)
      /\ ch[s].confirms \in Seq([msg : Pushers, ack : BOOLEAN])
      /\ ch[s] \in Channel
  BY DEF IInv, Types, BrokerTake, Channel
<1>2. PICK ack \in BOOLEAN :
        /\ stored' = IF ack THEN Taken(s, 1) ELSE stored
        /\ ch' = [ch EXCEPT ![s].sent = Tail(@),
                            ![s].confirms = IF ch[s].confirm
                                THEN Append(@, [msg |-> Head(ch[s].sent), ack |-> ack])
                                ELSE @]
  BY DEF BrokerTake
<1> DEFINE m == [msg |-> Head(ch[s].sent), ack |-> ack]
           confirms == IF ch[s].confirm THEN Append(ch[s].confirms, m) ELSE ch[s].confirms
<1>3. Head(ch[s].sent) \in Pushers /\ Tail(ch[s].sent) \in Seq(Pushers)
  BY <1>1
<1>4. confirms \in Seq([msg : Pushers, ack : BOOLEAN])
  <2>1. m \in [msg : Pushers, ack : BOOLEAN]
    BY <1>3
  <2> HIDE DEF m
  <2>2. Append(ch[s].confirms, m) \in Seq([msg : Pushers, ack : BOOLEAN])
    BY <1>1, <2>1
  <2> QED BY <1>1, <2>2
<1>5. ch' = [ch EXCEPT ![s] = [ch[s] EXCEPT !.sent = Tail(@), !.confirms = confirms]]
  BY <1>1, <1>2
<1>6. confirms \in {ch[s].confirms, Append(ch[s].confirms, m)}
  OBVIOUS
<1> HIDE DEF confirms
<1>7. /\ ch'[s] = [ch[s] EXCEPT !.sent = Tail(@), !.confirms = confirms]
      /\ \A t \in Slots : t # s => ch'[t] = ch[t]
  BY <1>1, <1>5
<1>8. [ch[s] EXCEPT !.sent = Tail(@), !.confirms = confirms] \in Channel
  BY <1>1, <1>3, <1>4 DEF Channel
<1>9. ch' \in [Slots -> Channel]
  BY <1>1, <1>5, <1>8
<1>10. ch'[s].open /\ ch'[s].sent = Tail(ch[s].sent) /\ ch'[s].confirms = confirms
  BY <1>1, <1>7 DEF Channel
<1>11. /\ stored' \in [Pushers -> Nat]
       /\ \A p \in Pushers : stored'[p] =
            stored[p] + IF ack /\ p = Head(ch[s].sent) THEN 1 ELSE 0
  <2>1. CASE ~ack
    BY <1>1, <1>2, <2>1
  <2>2. CASE ack
    <3>1. 1 \in 0..Len(ch[s].sent) /\ Head(ch[s].sent) = ch[s].sent[1]
      BY <1>1
    <3>2. /\ Taken(s, 1) \in [Pushers -> Nat]
          /\ \A p \in Pushers : Taken(s, 1)[p] =
               stored[p] + IF \E i \in 1..1 : ch[s].sent[i] = p THEN 1 ELSE 0
      BY <3>1, TakenOnce DEF IInv
    <3> QED BY <1>2, <2>2, <3>1, <3>2
  <2> QED BY <2>1, <2>2
<1> HIDE DEF m
<1>12. confirms \in {ch[s].confirms,
                     Append(ch[s].confirms, [msg |-> Head(ch[s].sent), ack |-> ack])}
  BY <1>6 DEF m
<1> QED BY <1>1, <1>7, <1>9, <1>10, <1>11, <1>12

\* A push sends its message through the open channel it has borrowed; neither the
\* message nor a confirmation of it is in a channel then.
LEMMA PublishStep ==
    ASSUME IInv, NEW p \in Pushers, Publish(p)
    PROVE  /\ slot[p] \in Slots /\ slot[p] \in PoolOf(p) /\ ch[slot[p]].open
           /\ ch' \in [Slots -> Channel] /\ stored' = stored
           /\ \A t \in Slots : t # slot[p] => ch'[t] = ch[t]
           /\ ch'[slot[p]].open /\ ch'[slot[p]].confirms = ch[slot[p]].confirms
           /\ ch'[slot[p]].sent = Append(ch[slot[p]].sent, p)
           /\ \A s \in Slots : ~In(p, s)
<1> DEFINE s == slot[p]
<1>1. pc[p] = "topology" /\ ch \in [Slots -> Channel]
  BY DEF Publish, IInv, Types
<1>2. s \in Slots /\ s \in PoolOf(p)
  BY <1>1, Names DEF IInv, HeldOK, HeldPlaces, BorrowedOK, Types
<1>3. /\ ch[s].open /\ stored' = stored
      /\ ch' = [ch EXCEPT ![s] = [ch[s] EXCEPT !.sent = Append(ch[s].sent, p)]]
  BY <1>1, <1>2 DEF Publish
<1> HIDE DEF s
<1>4. [ch[s] EXCEPT !.sent = Append(ch[s].sent, p)] \in Channel
  <2>1. ch[s] \in Channel
    BY <1>1, <1>2
  <2>2. ch[s].sent \in Seq(Pushers)
    BY <2>1 DEF Channel
  <2>3. Append(ch[s].sent, p) \in Seq(Pushers)
    BY <2>2
  <2> QED BY <2>1, <2>3 DEF Channel
<1>5. /\ ch' \in [Slots -> Channel]
      /\ ch'[s] = [ch[s] EXCEPT !.sent = Append(ch[s].sent, p)]
      /\ \A t \in Slots : t # s => ch'[t] = ch[t]
  BY <1>1, <1>2, <1>3, <1>4
<1>6. /\ ch'[s].open /\ ch'[s].confirms = ch[s].confirms
      /\ ch'[s].sent = Append(ch[s].sent, p)
  BY <1>1, <1>2, <1>3, <1>5 DEF Channel
<1>7. \A t \in Slots : ~In(p, t)
  BY <1>1 DEF IInv, WayOK, Way
<1> QED BY <1>2, <1>3, <1>5, <1>6, <1>7 DEF s

\* A push takes the first confirmation of its channel.
LEMMA ConfirmStep ==
    ASSUME IInv, NEW p \in Pushers, ConfirmRecv(p)
    PROVE  /\ slot[p] \in Slots /\ slot[p] \in PoolOf(p) /\ p \in Confirming
           /\ ch[slot[p]].confirms # <<>>
           /\ ch' \in [Slots -> Channel] /\ stored' = stored
           /\ \A t \in Slots : t # slot[p] => ch'[t] = ch[t]
           /\ ch'[slot[p]].open = ch[slot[p]].open /\ ch'[slot[p]].sent = ch[slot[p]].sent
           /\ ch'[slot[p]].confirms = Tail(ch[slot[p]].confirms)
<1> DEFINE s == slot[p]
<1>1. pc[p] = "confirm" /\ ch \in [Slots -> Channel]
  BY DEF ConfirmRecv, IInv, Types
<1>2. s \in Slots /\ s \in PoolOf(p) /\ p \in Confirming
  BY <1>1, Names DEF IInv, HeldOK, HeldPlaces, BorrowedOK, Types
<1>3. /\ ch[s].confirms # <<>> /\ stored' = stored
      /\ ch' = [ch EXCEPT ![s] = [ch[s] EXCEPT !.confirms = Tail(ch[s].confirms)]]
  BY <1>1, <1>2 DEF ConfirmRecv
<1> HIDE DEF s
<1>4. [ch[s] EXCEPT !.confirms = Tail(ch[s].confirms)] \in Channel
  <2>1. ch[s] \in Channel
    BY <1>1, <1>2
  <2>2. ch[s].confirms \in Seq([msg : Pushers, ack : BOOLEAN])
    BY <2>1 DEF Channel
  <2>3. Tail(ch[s].confirms) \in Seq([msg : Pushers, ack : BOOLEAN])
    BY <1>3, <2>2
  <2> QED BY <2>1, <2>3 DEF Channel
<1>5. /\ ch' \in [Slots -> Channel]
      /\ ch'[s] = [ch[s] EXCEPT !.confirms = Tail(ch[s].confirms)]
      /\ \A t \in Slots : t # s => ch'[t] = ch[t]
  BY <1>1, <1>2, <1>3, <1>4
<1>6. /\ ch'[s].open = ch[s].open /\ ch'[s].sent = ch[s].sent
      /\ ch'[s].confirms = Tail(ch[s].confirms)
  BY <1>1, <1>2, <1>5 DEF Channel
<1> QED BY <1>2, <1>3, <1>5, <1>6 DEF s

\* A consumer opens the channel it has borrowed again, if it is closed.
LEMMA ConsumeStep ==
    ASSUME IInv, NEW c \in Consumers, ConsumeOk(c)
    PROVE  /\ slot[c] \in Slots /\ where[slot[c]] = c
           /\ ch' \in [Slots -> Channel] /\ stored' = stored
           /\ \A t \in Slots : /\ t # slot[c] => ch'[t] = ch[t]
                               /\ ch'[t].sent = ch[t].sent
                               /\ ch'[t].confirms = ch[t].confirms
                               /\ ch[t].open => ch'[t].open
           /\ ch'[slot[c]].open
<1> DEFINE s == slot[c]
<1>1. pc[c] = "setup" /\ ch \in [Slots -> Channel]
  BY DEF ConsumeOk, IInv, Types
<1>2. s \in Slots /\ where[s] = c
  BY <1>1, Names DEF IInv, HeldOK, HeldPlaces, BorrowedOK, Types
<1>3. /\ stored' = stored
      /\ ch' = [ch EXCEPT ![s] = [ch[s] EXCEPT !.open = TRUE]]
  BY <1>1, <1>2 DEF ConsumeOk
<1> HIDE DEF s
<1>4. [ch[s] EXCEPT !.open = TRUE] \in Channel
  BY <1>1, <1>2 DEF Channel
<1>5. /\ ch' \in [Slots -> Channel]
      /\ ch'[s] = [ch[s] EXCEPT !.open = TRUE]
      /\ \A t \in Slots : t # s => ch'[t] = ch[t]
  BY <1>1, <1>2, <1>3, <1>4
<1>6. ch'[s].open /\ ch'[s].sent = ch[s].sent /\ ch'[s].confirms = ch[s].confirms
  BY <1>1, <1>2, <1>5 DEF Channel
<1> QED BY <1>2, <1>3, <1>5, <1>6 DEF s

----------------------------------------------------------------------------
(***************************************************************************)
(* What is in the channels: OnceOK and ChannelOK.                          *)
(***************************************************************************)

\* The sequence new is what is left of old when some of its first elements, and
\* perhaps some of its last, are gone.
Rest(new, old) ==
    \E d \in Nat : \A i \in DOMAIN new : i + d \in DOMAIN old /\ new[i] = old[i + d]

\* A sequence, nothing, and a tail are what is left of a sequence.
LEMMA Rests ==
    ASSUME NEW S, NEW q \in Seq(S)
    PROVE  Rest(q, q) /\ Rest(<<>>, q) /\ (q # <<>> => Rest(Tail(q), q))
<1>1. Rest(q, q)
  <2>1. \A i \in DOMAIN q : i + 0 \in DOMAIN q /\ q[i] = q[i + 0]
    OBVIOUS
  <2> QED BY <2>1 DEF Rest
<1>2. Rest(<<>>, q)
  BY DEF Rest
<1>3. ASSUME q # <<>> PROVE Rest(Tail(q), q)
  <2>1. \A i \in DOMAIN Tail(q) : i + 1 \in DOMAIN q /\ Tail(q)[i] = q[i + 1]
    BY <1>3
  <2> QED BY <2>1 DEF Rest
<1> QED BY <1>1, <1>2, <1>3

\* Steps that add to no channel keep every message unique.
LEMMA RestOnce ==
    ASSUME OnceOK, ch' \in [Slots -> Channel],
           \A s \in Slots : /\ Rest(ch'[s].sent, ch[s].sent)
                            /\ Rest(ch'[s].confirms, ch[s].confirms)
    PROVE  OnceOK'
<1>1. \A s \in Slots : /\ \A i \in DOMAIN ch'[s].sent : i \in Nat
                       /\ \A i \in DOMAIN ch'[s].confirms : i \in Nat
  <2>1. \A s \in Slots : /\ ch'[s].sent \in Seq(Pushers)
                         /\ ch'[s].confirms \in Seq([msg : Pushers, ack : BOOLEAN])
    BY DEF Channel
  <2> QED BY <2>1
<1>2. ASSUME NEW s \in Slots, NEW t \in Slots, NEW i \in DOMAIN ch'[s].sent,
             NEW j \in DOMAIN ch'[t].sent, ch'[s].sent[i] = ch'[t].sent[j]
      PROVE  s = t /\ i = j
  <2>1. PICK d \in Nat : \A k \in DOMAIN ch'[s].sent :
          k + d \in DOMAIN ch[s].sent /\ ch'[s].sent[k] = ch[s].sent[k + d]
    BY DEF Rest
  <2>2. PICK e \in Nat : \A k \in DOMAIN ch'[t].sent :
          k + e \in DOMAIN ch[t].sent /\ ch'[t].sent[k] = ch[t].sent[k + e]
    BY DEF Rest
  <2>3. s = t /\ i + d = j + e
    BY <1>2, <2>1, <2>2 DEF OnceOK
  <2>4. i + d \in DOMAIN ch[s].sent /\ j + d \in DOMAIN ch[s].sent
        /\ ch[s].sent[i + d] = ch[s].sent[j + d]
    BY <1>2, <2>1, <2>3
  <2>5. i + d = j + d
    BY <2>4 DEF OnceOK
  <2> QED BY <1>1, <2>3, <2>5
<1>3. ASSUME NEW s \in Slots, NEW i \in DOMAIN ch'[s].confirms,
             NEW j \in DOMAIN ch'[s].confirms,
             ch'[s].confirms[i].msg = ch'[s].confirms[j].msg
      PROVE  i = j
  <2>1. PICK d \in Nat : \A k \in DOMAIN ch'[s].confirms :
          k + d \in DOMAIN ch[s].confirms /\ ch'[s].confirms[k] = ch[s].confirms[k + d]
    BY DEF Rest
  <2>2. i + d = j + d
    BY <1>3, <2>1 DEF OnceOK
  <2> QED BY <1>1, <2>2
<1>4. ASSUME NEW s \in Slots, NEW i \in DOMAIN ch'[s].sent,
             NEW j \in DOMAIN ch'[s].confirms
      PROVE  ch'[s].sent[i] # ch'[s].confirms[j].msg
  BY DEF Rest, OnceOK
<1> QED BY <1>2, <1>3, <1>4 DEF OnceOK

\* What is in a sequence over a set is in the set.
LEMMA Element ==
    ASSUME NEW S, NEW q \in Seq(S), NEW i \in DOMAIN q
    PROVE  q[i] \in S
OBVIOUS

\* A sequence is a function of its length.
LEMMA IsFunction ==
    ASSUME NEW S, NEW q \in Seq(S)
    PROVE  Len(q) \in Nat /\ DOMAIN q = 1..Len(q) /\ q \in [1..Len(q) -> S]
OBVIOUS

\* An element of an extended sequence is one of the sequence or the new one.
LEMMA Extended ==
    ASSUME NEW S, NEW q \in Seq(S), NEW e
    PROVE  \A i \in DOMAIN Append(q, e) :
             \/ i \in DOMAIN q /\ Append(q, e)[i] = q[i]
             \/ i = Len(q) + 1 /\ Append(q, e)[i] = e
OBVIOUS

\* What the broker takes moves from the messages to the confirmations.
LEMMA OnceBroker ==
    ASSUME IInv, NEW s \in Slots, BrokerTake(s)
    PROVE  OnceOK'
<1> DEFINE p == Head(ch[s].sent)
<1>1. /\ ch[s].sent \in Seq(Pushers) /\ ch[s].sent # <<>>
      /\ ch[s].confirms \in Seq([msg : Pushers, ack : BOOLEAN])
      /\ \A t \in Slots : t # s => ch'[t] = ch[t]
      /\ ch'[s].sent = Tail(ch[s].sent)
  BY BrokerStep DEF IInv, Types, Channel
<1>2. 1 \in DOMAIN ch[s].sent /\ ch[s].sent[1] = p
  BY <1>1
<1>3. \A i \in DOMAIN ch'[s].sent :
        /\ i \in Nat /\ i + 1 \in DOMAIN ch[s].sent /\ i + 1 # 1
        /\ ch'[s].sent[i] = ch[s].sent[i + 1]
  BY <1>1
<1>4. PICK ack \in BOOLEAN :
        ch'[s].confirms \in {ch[s].confirms, Append(ch[s].confirms, [msg |-> p, ack |-> ack])}
  BY BrokerStep
<1>5. \A i \in DOMAIN ch'[s].confirms :
        \/ i \in DOMAIN ch[s].confirms /\ ch'[s].confirms[i] = ch[s].confirms[i]
        \/ i = Len(ch[s].confirms) + 1 /\ ch'[s].confirms[i].msg = p
  <2>1. CASE ch'[s].confirms = ch[s].confirms
    BY <2>1
  <2>2. CASE ch'[s].confirms = Append(ch[s].confirms, [msg |-> p, ack |-> ack])
    <3>1. [msg |-> p, ack |-> ack].msg = p
      OBVIOUS
    <3> QED BY <1>1, <2>2, <3>1, Extended
  <2> QED BY <1>4, <2>1, <2>2
<1> HIDE DEF p
<1>6. OnceOK
  BY DEF IInv
<1>7. ASSUME NEW t \in Slots, NEW u \in Slots, NEW i \in DOMAIN ch'[t].sent,
             NEW j \in DOMAIN ch'[u].sent, ch'[t].sent[i] = ch'[u].sent[j]
      PROVE  t = u /\ i = j
  <2>1. CASE t = s /\ u = s
    <3>1. i + 1 = j + 1
      BY <1>3, <1>6, <1>7, <2>1 DEF OnceOK
    <3> QED BY <1>3, <2>1, <3>1
  <2>2. CASE t # s /\ u # s BY <1>1, <1>6, <1>7, <2>2 DEF OnceOK
  <2>3. CASE t = s /\ u # s
    <3>1. /\ i + 1 \in DOMAIN ch[s].sent /\ j \in DOMAIN ch[u].sent
          /\ ch[s].sent[i + 1] = ch[u].sent[j]
      BY <1>1, <1>3, <1>7, <2>3
    <3> QED BY <1>6, <2>3, <3>1 DEF OnceOK
  <2>4. CASE t # s /\ u = s
    <3>1. /\ i \in DOMAIN ch[t].sent /\ j + 1 \in DOMAIN ch[s].sent
          /\ ch[t].sent[i] = ch[s].sent[j + 1]
      BY <1>1, <1>3, <1>7, <2>4
    <3> QED BY <1>6, <2>4, <3>1 DEF OnceOK
  <2> QED BY <2>1, <2>2, <2>3, <2>4
<1>8. \A j \in DOMAIN ch[s].confirms : ch[s].confirms[j].msg # p
  BY <1>2, <1>6 DEF OnceOK
<1>9. ASSUME NEW t \in Slots, NEW i \in DOMAIN ch'[t].confirms,
             NEW j \in DOMAIN ch'[t].confirms,
             ch'[t].confirms[i].msg = ch'[t].confirms[j].msg
      PROVE  i = j
  <2>1. CASE t = s BY <1>5, <1>6, <1>8, <1>9, <2>1 DEF OnceOK
  <2>2. CASE t # s BY <1>1, <1>6, <1>9, <2>2 DEF OnceOK
  <2> QED BY <2>1, <2>2
<1>10. ASSUME NEW t \in Slots, NEW i \in DOMAIN ch'[t].sent, NEW j \in DOMAIN ch'[t].confirms
       PROVE  ch'[t].sent[i] # ch'[t].confirms[j].msg
  <2>1. CASE t = s
    <3>1. ch'[s].sent[i] = ch[s].sent[i + 1] /\ i + 1 \in DOMAIN ch[s].sent /\ i + 1 # 1
      BY <1>3, <2>1
    <3>2. ch[s].sent[i + 1] # p
      BY <1>2, <1>6, <3>1 DEF OnceOK
    <3> QED BY <1>5, <1>6, <2>1, <3>1, <3>2 DEF OnceOK
  <2>2. CASE t # s BY <1>1, <1>6, <2>2 DEF OnceOK
  <2> QED BY <2>1, <2>2
<1> QED BY <1>7, <1>9, <1>10 DEF OnceOK

\* What is published was nowhere before.
LEMMA OncePublish ==
    ASSUME IInv, NEW p \in Pushers, Publish(p)
    PROVE  OnceOK'
<1>1. PICK s \in Slots : s = slot[p]
  BY PublishStep
<1>2. /\ \A t \in Slots : t # s => ch'[t] = ch[t]
      /\ ch'[s].confirms = ch[s].confirms /\ ch'[s].sent = Append(ch[s].sent, p)
      /\ ch[s].sent \in Seq(Pushers)
  BY <1>1, PublishStep DEF IInv, Types, Channel
<1>3. \A t \in Slots : /\ \A i \in DOMAIN ch[t].sent : ch[t].sent[i] # p
                       /\ \A i \in DOMAIN ch[t].confirms : ch[t].confirms[i].msg # p
  BY PublishStep DEF In, Sent, Confirmed
<1>4. \A i \in DOMAIN ch'[s].sent :
        \/ i \in DOMAIN ch[s].sent /\ ch'[s].sent[i] = ch[s].sent[i]
        \/ i = Len(ch[s].sent) + 1 /\ ch'[s].sent[i] = p
  BY <1>2, Extended
<1>5. OnceOK
  BY DEF IInv
<1>6. \A t \in Slots : ch'[t].confirms = ch[t].confirms
  BY <1>2
<1>7. \A t \in Slots : \A i \in DOMAIN ch'[t].sent :
        \/ i \in DOMAIN ch[t].sent /\ ch'[t].sent[i] = ch[t].sent[i]
        \/ t = s /\ i = Len(ch[s].sent) + 1 /\ ch'[t].sent[i] = p
  BY <1>2, <1>4
<1>8. \A t, u \in Slots : \A i \in DOMAIN ch'[t].sent, j \in DOMAIN ch'[u].sent :
        ch'[t].sent[i] = ch'[u].sent[j] => t = u /\ i = j
  BY <1>3, <1>5, <1>7 DEF OnceOK
<1>9. \A t \in Slots : \A i \in DOMAIN ch'[t].sent, j \in DOMAIN ch'[t].confirms :
        ch'[t].sent[i] # ch'[t].confirms[j].msg
  BY <1>3, <1>5, <1>6, <1>7 DEF OnceOK
<1> QED BY <1>5, <1>6, <1>8, <1>9 DEF OnceOK

\* Every step keeps OnceOK.
LEMMA OnceStep ==
    ASSUME IInv, [Next]_vars
    PROVE  OnceOK'
<1>1. OnceOK /\ \A s \in Slots : /\ ch[s].sent \in Seq(Pushers)
                                 /\ ch[s].confirms \in Seq([msg : Pushers, ack : BOOLEAN])
  BY DEF IInv, Types, Channel
<1>2. CASE DropStep
  <2>1. ch' \in [Slots -> Channel]
    BY <1>2 DEF DropStep
  <2>2. \A s \in Slots : /\ ch'[s].sent \in {<<>>, ch[s].sent}
                         /\ ch'[s].confirms \in {<<>>, ch[s].confirms}
    BY <1>2 DEF DropStep, Dropped
  <2>3. \A s \in Slots : /\ Rest(ch'[s].sent, ch[s].sent)
                         /\ Rest(ch'[s].confirms, ch[s].confirms)
    BY <1>1, <2>2, Rests
  <2> QED BY <1>1, <2>1, <2>3, RestOnce
<1>3. ASSUME NEW p \in Pushers, ConfirmRecv(p) PROVE OnceOK'
  <2>1. /\ ch' \in [Slots -> Channel] /\ slot[p] \in Slots /\ ch[slot[p]].confirms # <<>>
        /\ \A t \in Slots : t # slot[p] => ch'[t] = ch[t]
        /\ ch'[slot[p]].sent = ch[slot[p]].sent
        /\ ch'[slot[p]].confirms = Tail(ch[slot[p]].confirms)
    BY <1>3, ConfirmStep
  <2>2. \A s \in Slots : /\ Rest(ch'[s].sent, ch[s].sent)
                         /\ Rest(ch'[s].confirms, ch[s].confirms)
    BY <1>1, <2>1, Rests
  <2> QED BY <1>1, <2>1, <2>2, RestOnce
<1>4. ASSUME NEW c \in Consumers, ConsumeOk(c) PROVE OnceOK'
  <2>1. ch' \in [Slots -> Channel]
    BY <1>4, ConsumeStep
  <2>2. \A s \in Slots : ch'[s].sent = ch[s].sent /\ ch'[s].confirms = ch[s].confirms
    BY <1>4, ConsumeStep
  <2>3. \A s \in Slots : /\ Rest(ch'[s].sent, ch[s].sent)
                         /\ Rest(ch'[s].confirms, ch[s].confirms)
    BY <1>1, <2>2, Rests
  <2> QED BY <1>1, <2>1, <2>3, RestOnce
<1> QED BY <1>2, <1>3, <1>4, OnceBroker, OncePublish, ChannelSteps

\* The broker never takes a message back.
LEMMA StoredGrows ==
    ASSUME IInv, [Next]_vars
    PROVE  /\ ch' \in [Slots -> Channel] /\ stored' \in [Pushers -> Nat]
           /\ \A p \in Pushers : stored'[p] >= stored[p]
<1>1. stored \in [Pushers -> Nat]
  BY DEF IInv, Types
<1>2. CASE DropStep
  BY <1>1, <1>2 DEF DropStep
<1>3. ASSUME NEW p \in Pushers, Publish(p) \/ ConfirmRecv(p)
      PROVE  ch' \in [Slots -> Channel] /\ stored' = stored
  BY <1>3, PublishStep, ConfirmStep
<1>4. ASSUME NEW c \in Consumers, ConsumeOk(c)
      PROVE  ch' \in [Slots -> Channel] /\ stored' = stored
  BY <1>4, ConsumeStep
<1>5. ASSUME NEW s \in Slots, BrokerTake(s)
      PROVE  /\ ch' \in [Slots -> Channel] /\ stored' \in [Pushers -> Nat]
             /\ \A p \in Pushers : stored'[p] >= stored[p]
  <2>1. PICK ack \in BOOLEAN : \A p \in Pushers : stored'[p] =
          stored[p] + IF ack /\ p = Head(ch[s].sent) THEN 1 ELSE 0
    BY <1>5, BrokerStep
  <2>2. \A p \in Pushers : stored[p] \in Nat
    BY <1>1
  <2> QED BY <1>5, <2>1, <2>2, BrokerStep
<1>6. stored' = stored => /\ stored' \in [Pushers -> Nat]
                          /\ \A p \in Pushers : stored'[p] >= stored[p]
  BY <1>1
<1> QED BY <1>2, <1>3, <1>4, <1>5, <1>6, ChannelSteps

\* Every step keeps ChannelOK.
LEMMA ChannelStep ==
    ASSUME IInv, [Next]_vars
    PROVE  ChannelOK'
<1>1. /\ stored \in [Pushers -> Nat] /\ stored' \in [Pushers -> Nat]
      /\ \A p \in Pushers : stored'[p] >= stored[p]
  BY StoredGrows DEF IInv, Types
<1>2. \A s \in Slots : /\ ch[s].sent \in Seq(Pushers)
                       /\ ch[s].confirms \in Seq([msg : Pushers, ack : BOOLEAN])
  BY DEF IInv, Types, Channel
<1>3. ChannelOK
  BY DEF IInv
<1>4. ASSUME NEW s \in Slots, NEW i \in DOMAIN ch[s].confirms, ch[s].confirms[i].ack
       PROVE  stored'[ch[s].confirms[i].msg] > 0
  <2>1. stored[ch[s].confirms[i].msg] > 0
    BY <1>3, <1>4 DEF ChannelOK
  <2>2. ch[s].confirms[i] \in [msg : Pushers, ack : BOOLEAN]
    BY <1>2, Element
  <2> DEFINE m == ch[s].confirms[i].msg
  <2>3. m \in Pushers /\ stored[m] > 0
    BY <2>1, <2>2
  <2> HIDE DEF m
  <2>4. stored'[m] > 0
    BY <1>1, <2>3
  <2> QED BY <2>4 DEF m
<1>5. ASSUME NEW s \in Slots, ~ch[s].open => ch[s].sent = <<>>,
             ~ch'[s].open => ch'[s].sent = <<>> \/ (~ch[s].open /\ ch'[s].sent = ch[s].sent),
             Rest(ch'[s].confirms, ch[s].confirms)
      PROVE  /\ ~ch'[s].open => ch'[s].sent = <<>>
             /\ \A i \in DOMAIN ch'[s].confirms :
                  ch'[s].confirms[i].ack => stored'[ch'[s].confirms[i].msg] > 0
  <2>1. PICK d \in Nat : \A i \in DOMAIN ch'[s].confirms :
          i + d \in DOMAIN ch[s].confirms /\ ch'[s].confirms[i] = ch[s].confirms[i + d]
    BY <1>5 DEF Rest
  <2>2. \A i \in DOMAIN ch'[s].confirms :
          ch'[s].confirms[i].ack => stored'[ch'[s].confirms[i].msg] > 0
    BY <1>4, <2>1
  <2> QED BY <1>5, <2>2
<1>6. \A s \in Slots : ~ch[s].open => ch[s].sent = <<>>
  BY <1>3 DEF ChannelOK
<1>7. CASE DropStep
  <2>1. \A s \in Slots :
          /\ ~ch'[s].open => ch'[s].sent = <<>> \/ (~ch[s].open /\ ch'[s].sent = ch[s].sent)
          /\ ch'[s].confirms \in {<<>>, ch[s].confirms}
    BY <1>7 DEF DropStep, Dropped
  <2>2. \A s \in Slots : Rest(ch'[s].confirms, ch[s].confirms)
    BY <1>2, <2>1, Rests
  <2> QED BY <1>5, <1>6, <2>1, <2>2 DEF ChannelOK
<1>8. ASSUME NEW p \in Pushers, Publish(p) PROVE ChannelOK'
  <2>1. \A s \in Slots :
          /\ ~ch'[s].open => ch'[s].sent = <<>> \/ (~ch[s].open /\ ch'[s].sent = ch[s].sent)
          /\ ch'[s].confirms = ch[s].confirms
    BY <1>8, PublishStep
  <2>2. \A s \in Slots : Rest(ch'[s].confirms, ch[s].confirms)
    BY <1>2, <2>1, Rests
  <2> QED BY <1>5, <1>6, <2>1, <2>2 DEF ChannelOK
<1>9. ASSUME NEW p \in Pushers, ConfirmRecv(p) PROVE ChannelOK'
  <2>1. \A s \in Slots :
          /\ ~ch'[s].open => ch'[s].sent = <<>> \/ (~ch[s].open /\ ch'[s].sent = ch[s].sent)
          /\ \/ ch'[s].confirms = ch[s].confirms
             \/ ch[s].confirms # <<>> /\ ch'[s].confirms = Tail(ch[s].confirms)
    BY <1>9, ConfirmStep
  <2>2. \A s \in Slots : Rest(ch'[s].confirms, ch[s].confirms)
    BY <1>2, <2>1, Rests
  <2> QED BY <1>5, <1>6, <2>1, <2>2 DEF ChannelOK
<1>10. ASSUME NEW c \in Consumers, ConsumeOk(c) PROVE ChannelOK'
  <2>1. \A s \in Slots :
          /\ ~ch'[s].open => ch'[s].sent = <<>> \/ (~ch[s].open /\ ch'[s].sent = ch[s].sent)
          /\ ch'[s].confirms = ch[s].confirms
    BY <1>10, ConsumeStep
  <2>2. \A s \in Slots : Rest(ch'[s].confirms, ch[s].confirms)
    BY <1>2, <2>1, Rests
  <2> QED BY <1>5, <1>6, <2>1, <2>2 DEF ChannelOK
<1>11. ASSUME NEW s \in Slots, BrokerTake(s) PROVE ChannelOK'
  <2> DEFINE p == Head(ch[s].sent)
  <2>1. /\ ch'[s].open /\ ch[s].sent # <<>>
        /\ \A t \in Slots : t # s => ch'[t] = ch[t]
    BY <1>11, BrokerStep
  <2>2. ASSUME NEW t \in Slots, t # s
        PROVE  /\ ~ch'[t].open => ch'[t].sent = <<>>
               /\ \A i \in DOMAIN ch'[t].confirms :
                    ch'[t].confirms[i].ack => stored'[ch'[t].confirms[i].msg] > 0
    <3>1. ch'[t] = ch[t] /\ Rest(ch'[t].confirms, ch[t].confirms)
      BY <1>2, <2>1, <2>2, Rests
    <3> QED BY <1>5, <1>6, <3>1
  <2>3. PICK ack \in BOOLEAN :
          /\ ch'[s].confirms \in
               {ch[s].confirms, Append(ch[s].confirms, [msg |-> p, ack |-> ack])}
          /\ \A r \in Pushers : stored'[r] = stored[r] + IF ack /\ r = p THEN 1 ELSE 0
    BY <1>11, BrokerStep
  <2>4. p \in Pushers
    BY <1>2, <2>1
  <2> HIDE DEF p
  <2>5. ack => stored'[p] > 0
    <3>1. stored[p] \in Nat /\ (ack => stored'[p] = stored[p] + 1)
      BY <1>1, <2>3, <2>4
    <3> QED BY <3>1
  <2>6. \A i \in DOMAIN ch[s].confirms :
          ch[s].confirms[i].ack => stored'[ch[s].confirms[i].msg] > 0
    BY <1>4
  <2>7. \A i \in DOMAIN ch'[s].confirms :
          ch'[s].confirms[i].ack => stored'[ch'[s].confirms[i].msg] > 0
    <3>1. [msg |-> p, ack |-> ack].msg = p /\ [msg |-> p, ack |-> ack].ack = ack
      OBVIOUS
    <3>2. CASE ch'[s].confirms = ch[s].confirms
      BY <2>6, <3>2
    <3>3. CASE ch'[s].confirms = Append(ch[s].confirms, [msg |-> p, ack |-> ack])
      BY <1>2, <2>5, <2>6, <3>1, <3>3, Extended
    <3> QED BY <2>3, <3>2, <3>3
  <2> QED BY <2>1, <2>2, <2>7 DEF ChannelOK
<1> QED BY <1>7, <1>8, <1>9, <1>10, <1>11, ChannelSteps

----------------------------------------------------------------------------
(***************************************************************************)
(* Who has what: Types, HeldOK and LockOK.                                 *)
(***************************************************************************)

\* A thread takes a slot of its pool that nobody uses.
LEMMA Borrowing ==
    ASSUME NEW t \in Threads, NEW s \in Slots, Borrowed(t, s)
    PROVE  /\ where' = [where EXCEPT ![s] = t] /\ slot' = [slot EXCEPT ![t] = s]
           /\ s \in PoolOf(t) /\ where[s] \in {"idle", "free"}
BY DEF Borrowed, BorrowIdle, BorrowRebuilt, BorrowCreated, Take, Idle

\* A thread that returns its slot leaves it idle or free.
LEMMA GivingBack ==
    ASSUME NEW t \in Threads, GiveBack(t)
    PROVE  /\ slot' = [slot EXCEPT ![t] = Nobody]
           /\ \E w \in {"idle", "free"} : where' = [where EXCEPT ![slot[t]] = w]
BY DEF GiveBack

\* A thread goes on to a place of its kind.
LEMMA Going ==
    ASSUME Places, NEW t \in Threads, NEW l, Goto(t, l),
           \/ t \in Pushers /\ l \in PushPlaces
           \/ t \in Consumers /\ l \in ConsumePlaces
    PROVE  Places'
<1>1. pc' = [pc EXCEPT ![t] = l] /\ l \in PushPlaces \cup ConsumePlaces
  BY DEF Goto
<1>2. pc' \in [Threads -> PushPlaces \cup ConsumePlaces]
  BY <1>1 DEF Places
<1>3. /\ \A p \in Pushers : pc'[p] \in PushPlaces
      /\ \A c \in Consumers : pc'[c] \in ConsumePlaces
  BY <1>1, Names DEF Places
<1> QED BY <1>2, <1>3 DEF Places

\* Where the steps lead.
LEMMA PlacesStep ==
    ASSUME IInv, [Next]_vars
    PROVE  Places'
<1>1. Places
  BY DEF IInv, Types
<1>2. ASSUME UNCHANGED pc PROVE Places'
  BY <1>1, <1>2 DEF Places
<1>3. ASSUME NEW p \in Pushers, \E l \in PushPlaces : Goto(p, l) PROVE Places'
  BY <1>1, <1>3, Going, Names
<1>4. ASSUME NEW c \in Consumers, \E l \in ConsumePlaces : Goto(c, l) PROVE Places'
  BY <1>1, <1>4, Going, Names
<1>5. ASSUME NEW t \in Threads, BorrowPanics(t) PROVE Places'
  <2>1. CASE t \in Pushers
    BY <1>3, <1>5, <2>1 DEF BorrowPanics, PushPlaces
  <2>2. CASE t \notin Pushers
    BY <1>4, <1>5, <2>2, Names DEF BorrowPanics, ConsumePlaces
  <2> QED BY <2>1, <2>2
<1>6. ASSUME NEW t \in Threads, NEW s \in Slots, BorrowDestroys(t, s) PROVE Places'
  BY <1>2, <1>6 DEF BorrowDestroys
<1>7. ASSUME NEW p \in Pushers, PushBegin(p) \/ PushStep(p) PROVE Places'
  <2>1. CASE PushBegin(p) \/ PushTry(p) \/ PushBorrow(p) \/ PushBorrowFails(p)
    BY <1>3, <2>1 DEF PushBegin, PushTry, PushBorrow, PushBorrowFails, PushPlaces
  <2>2. CASE \/ DeclareExchange(p) \/ HoldTarget(p)
             \/ \E q \in Queues : BindLock(p, q) \/ BindUnlock(p, q)
    BY <1>3, <2>2 DEF DeclareExchange, HoldTarget, BindLock, BindUnlock, PushPlaces
  <2>3. CASE Publish(p) \/ PublishFails(p) \/ ConfirmRecv(p) \/ ConfirmEnds(p) \/ ConfirmTimeout(p)
    BY <1>3, <2>3 DEF Publish, PublishFails, ConfirmRecv, ConfirmEnds, ConfirmTimeout, PushPlaces
  <2>4. CASE Unlock(p) \/ Return(p) \/ RetryTick(p) \/ RetryClosed(p)
    BY <1>3, <2>4 DEF Unlock, Return, RetryTick, RetryClosed, PushPlaces
  <2> QED BY <1>5, <1>6, <1>7, <2>1, <2>2, <2>3, <2>4, Names DEF PushStep
<1>8. ASSUME NEW c \in Consumers, ConsumeLock(c) \/ SetupStep(c) \/ Reconsume(c) \/ ConsumeEnds(c)
      PROVE  Places'
  <2>1. CASE ConsumeLock(c) \/ Reconsume(c) \/ ConsumeEnds(c)
    BY <1>4, <2>1 DEF ConsumeLock, Reconsume, ConsumeEnds, ConsumePlaces
  <2>2. CASE \/ ConsumeReady(c) \/ ConsumeBorrow(c) \/ ConsumeOk(c)
             \/ ConsumeFails(c) \/ SetupPanics(c)
    BY <1>4, <2>2
       DEF ConsumeReady, ConsumeBorrow, ConsumeOk, ConsumeFails, SetupPanics, ConsumePlaces
  <2> QED BY <1>5, <1>6, <1>8, <2>1, <2>2, Names DEF SetupStep
<1>9. ASSUME NEW s \in Slots, BrokerTake(s) \/ ChannelDies(s) PROVE Places'
  BY <1>2, <1>9 DEF BrokerTake, ChannelDies
<1>10. CASE Close \/ UNCHANGED vars
  BY <1>2, <1>10 DEF Close, CloseMark, CloseSignal, CloseConn, ClosePools, vars
<1> QED BY <1>7, <1>8, <1>9, <1>10 DEF Next

\* Every step keeps the types.
LEMMA TypesStep ==
    ASSUME IInv, [Next]_vars
    PROVE  Types'
<1>1. Types
  BY DEF IInv
<1>2. ch' \in [Slots -> Channel] /\ stored' \in [Pushers -> Nat] /\ Places'
  BY StoredGrows, PlacesStep
<1>3. ASSUME NEW p \in Pushers, PushBegin(p) PROVE Types'
  BY <1>1, <1>2, <1>3, Names DEF PushBegin, channels, shutdown, Types
<1>4. ASSUME NEW p \in Pushers, PushTry(p) PROVE Types'
  BY <1>1, <1>2, <1>4, Names DEF PushTry, channels, shutdown, Types
<1>5. ASSUME NEW p \in Pushers, PushBorrow(p) PROVE Types'
  <2>1. PICK s \in Slots : Borrowed(p, s)
    BY <1>5 DEF PushBorrow
  <2>2. /\ where' = [where EXCEPT ![s] = p] /\ slot' = [slot EXCEPT ![p] = s]
    BY <2>1, Borrowing, Names
  <2>3. Bound[p] \in SUBSET Queues
    BY PublishAssumption
  <2> QED BY <1>1, <1>2, <1>5, <2>2, <2>3, Names DEF PushBorrow, shutdown, Types
<1>6. ASSUME NEW p \in Pushers, PushBorrowFails(p) PROVE Types'
  BY <1>1, <1>2, <1>6, Names DEF PushBorrowFails, channels, shutdown, Types
<1>7. ASSUME NEW t \in Threads, BorrowPanics(t) PROVE Types'
  BY <1>1, <1>2, <1>7, Names DEF BorrowPanics, Take, shutdown, Released, Types
<1>8. ASSUME NEW t \in Threads, NEW s \in Slots, BorrowDestroys(t, s) PROVE Types'
  BY <1>1, <1>2, <1>8, Names DEF BorrowDestroys, channels, shutdown, Idle, Types
<1>9. ASSUME NEW p \in Pushers, DeclareExchange(p) PROVE Types'
  BY <1>1, <1>2, <1>9, Names DEF DeclareExchange, channels, shutdown, Types
<1>10. ASSUME NEW p \in Pushers, HoldTarget(p) PROVE Types'
  BY <1>1, <1>2, <1>10, Names DEF HoldTarget, channels, shutdown, Types
<1>11. ASSUME NEW p \in Pushers, NEW q \in Queues, BindLock(p, q) PROVE Types'
  BY <1>1, <1>2, <1>11, Names DEF BindLock, channels, shutdown, Types
<1>12. ASSUME NEW p \in Pushers, NEW q \in Queues, BindUnlock(p, q) PROVE Types'
  BY <1>1, <1>2, <1>12, Names DEF BindUnlock, channels, shutdown, Types
<1>13. ASSUME NEW p \in Pushers, Publish(p) PROVE Types'
  <2>1. result' \in [Pushers -> {"none", "ok", "error", "closed"}]
    BY <1>1, <1>13 DEF Publish, Types
  <2> QED BY <1>1, <1>2, <1>13, <2>1 DEF Publish, shutdown, Types
<1>14. ASSUME NEW p \in Pushers, PublishFails(p) PROVE Types'
  BY <1>1, <1>2, <1>14, Names DEF PublishFails, channels, shutdown, Types
<1>15. ASSUME NEW p \in Pushers, ConfirmRecv(p) PROVE Types'
  <2>1. result' \in [Pushers -> {"none", "ok", "error", "closed"}]
    BY <1>1, <1>15 DEF ConfirmRecv, Types
  <2> QED BY <1>1, <1>2, <1>15, <2>1 DEF ConfirmRecv, shutdown, Types
<1>16. ASSUME NEW p \in Pushers, ConfirmEnds(p) PROVE Types'
  BY <1>1, <1>2, <1>16, Names DEF ConfirmEnds, channels, shutdown, Types
<1>17. ASSUME NEW p \in Pushers, ConfirmTimeout(p) PROVE Types'
  BY <1>1, <1>2, <1>17, Names DEF ConfirmTimeout, channels, shutdown, Types
<1>18. ASSUME NEW p \in Pushers, Unlock(p) PROVE Types'
  BY <1>1, <1>2, <1>18, Names DEF Unlock, channels, shutdown, Released, Types
<1>19. ASSUME NEW p \in Pushers, Return(p) PROVE Types'
  BY <1>1, <1>2, <1>19, Names, GivingBack DEF Return, channels, shutdown, Types
<1>20. ASSUME NEW p \in Pushers, RetryTick(p) PROVE Types'
  <2>1. result' \in [Pushers -> {"none", "ok", "error", "closed"}]
    BY <1>1, <1>20 DEF RetryTick, Types
  <2>2. attempt' = [attempt EXCEPT ![p] = attempt[p] + 1] /\ attempt[p] < AttemptTimes
    BY <1>1, <1>20 DEF RetryTick, AttemptOK, IInv
  <2>3. attempt' \in [Pushers -> 0..AttemptTimes]
    BY <1>1, <2>2, Names DEF Types
  <2> QED BY <1>1, <1>2, <1>20, <2>1, <2>3 DEF RetryTick, channels, shutdown, Types
<1>21. ASSUME NEW p \in Pushers, RetryClosed(p) PROVE Types'
  BY <1>1, <1>2, <1>21, Names DEF RetryClosed, channels, shutdown, Types
<1>22. ASSUME NEW c \in Consumers, ConsumeLock(c) PROVE Types'
  BY <1>1, <1>2, <1>22, Names DEF ConsumeLock, channels, shutdown, Types
<1>23. ASSUME NEW c \in Consumers, ConsumeReady(c) PROVE Types'
  BY <1>1, <1>2, <1>23, Names DEF ConsumeReady, channels, shutdown, Discard, Types
<1>24. ASSUME NEW c \in Consumers, ConsumeBorrow(c) PROVE Types'
  BY <1>1, <1>2, <1>24, Names, Borrowing DEF ConsumeBorrow, channels, shutdown, Types
<1>25. ASSUME NEW c \in Consumers, ConsumeOk(c) PROVE Types'
  BY <1>1, <1>2, <1>25, Names DEF ConsumeOk, channels, shutdown, Released, Types
<1>26. ASSUME NEW c \in Consumers, ConsumeFails(c) \/ SetupPanics(c) PROVE Types'
  BY <1>1, <1>2, <1>26, Names
     DEF ConsumeFails, SetupPanics, channels, shutdown, Released, Discard, Types
<1>27. ASSUME NEW c \in Consumers, Reconsume(c) PROVE Types'
  BY <1>1, <1>2, <1>27, Names DEF Reconsume, channels, shutdown, Types
<1>28. ASSUME NEW c \in Consumers, ConsumeEnds(c) PROVE Types'
  BY <1>1, <1>2, <1>28, Names DEF ConsumeEnds, channels, shutdown, Discard, Types
<1>29. ASSUME NEW s \in Slots, BrokerTake(s) PROVE Types'
  BY <1>1, <1>2, <1>29, Names DEF BrokerTake, channels, shutdown, Types
<1>30. ASSUME NEW s \in Slots, ChannelDies(s) PROVE Types'
  BY <1>1, <1>2, <1>30, Names DEF ChannelDies, channels, shutdown, Types
<1>31. ASSUME CloseMark PROVE Types'
  BY <1>1, <1>2, <1>31, Names DEF CloseMark, channels, shutdown, Types
<1>32. ASSUME CloseSignal PROVE Types'
  BY <1>1, <1>2, <1>32, Names DEF CloseSignal, channels, shutdown, Types
<1>33. ASSUME CloseConn PROVE Types'
  BY <1>1, <1>2, <1>33, Names DEF CloseConn, channels, shutdown, Types
<1>34. ASSUME ClosePools PROVE Types'
  BY <1>1, <1>2, <1>34, Names DEF ClosePools, channels, shutdown, Types
<1>35. CASE UNCHANGED vars
  BY <1>1, <1>2, <1>35 DEF vars, Types
<1> QED
  BY Names, <1>3, <1>4, <1>5, <1>6, <1>7, <1>8, <1>9, <1>10, <1>11, <1>12, <1>13,
     <1>14, <1>15, <1>16, <1>17, <1>18, <1>19, <1>20, <1>21, <1>22, <1>23, <1>24, <1>25,
     <1>26, <1>27, <1>28, <1>29, <1>30, <1>31, <1>32, <1>33, <1>34, <1>35
     DEF Next, PushStep, SetupStep, Close

\* A step that takes a slot, gives one back, or moves slots that nobody has.
LEMMA TakesSlot ==
    ASSUME Types, BorrowedOK, NEW t \in Threads, NEW s \in PoolOf(t),
           where[s] \in {"idle", "free"}, slot[t] = Nobody,
           where' = [where EXCEPT ![s] = t], slot' = [slot EXCEPT ![t] = s]
    PROVE  BorrowedOK'
<1>1. s \in Slots /\ where[s] \notin Threads
  BY Names
<1>2. /\ where'[s] = t /\ \A r \in Slots : r # s => where'[r] = where[r]
      /\ slot'[t] = s /\ \A u \in Threads : u # t => slot'[u] = slot[u]
  BY <1>1 DEF Types
<1>3. \A u \in Threads : slot[u] \in Slots \cup {Nobody}
  BY DEF Types
<1>4. ASSUME NEW u \in Threads, slot'[u] # Nobody
      PROVE  where'[slot'[u]] = u /\ slot'[u] \in PoolOf(u)
  <2>1. CASE u = t BY <1>2, <2>1
  <2>2. CASE u # t
    <3>1. slot'[u] = slot[u] /\ where[slot[u]] = u /\ slot[u] \in PoolOf(u)
      BY <1>2, <1>4, <2>2 DEF BorrowedOK
    <3>2. slot[u] # s /\ slot[u] \in Slots
      BY <1>1, <1>3, <1>4, <3>1
    <3> QED BY <1>2, <3>1, <3>2
  <2> QED BY <2>1, <2>2
<1>5. ASSUME NEW r \in Slots, where'[r] \in Threads
      PROVE  slot'[where'[r]] = r
  <2>1. CASE r = s BY <1>2, <2>1
  <2>2. CASE r # s
    <3>1. where'[r] = where[r] /\ slot[where[r]] = r
      BY <1>2, <1>5, <2>2 DEF BorrowedOK
    <3>2. where[r] # t
      BY <3>1, Names
    <3> QED BY <1>2, <1>5, <3>1, <3>2
  <2> QED BY <2>1, <2>2
<1> QED BY <1>4, <1>5 DEF BorrowedOK, PoolOf

\* A thread gives its slot, if it has one, back.
LEMMA GivesSlot ==
    ASSUME Types, BorrowedOK, NEW t \in Threads,
           slot' = [slot EXCEPT ![t] = Nobody],
           slot[t] # Nobody => where'[slot[t]] \in {"idle", "free"},
           \A s \in Slots : s # slot[t] => where'[s] = where[s]
    PROVE  BorrowedOK'
<1>1. /\ slot'[t] = Nobody /\ \A u \in Threads : u # t => slot'[u] = slot[u]
      /\ \A u \in Threads : slot[u] \in Slots \cup {Nobody}
  BY DEF Types
<1>2. ASSUME NEW u \in Threads, slot'[u] # Nobody
      PROVE  where'[slot'[u]] = u /\ slot'[u] \in PoolOf(u)
  <2>1. u # t /\ slot'[u] = slot[u] /\ slot[u] \in Slots
    BY <1>1, <1>2
  <2>2. where[slot[u]] = u /\ slot[u] \in PoolOf(u)
    BY <1>2, <2>1 DEF BorrowedOK
  <2>3. slot[u] # slot[t]
    BY <1>1, <2>1, <2>2, Names DEF BorrowedOK
  <2> QED BY <2>1, <2>2, <2>3
<1>3. ASSUME NEW r \in Slots, where'[r] \in Threads
      PROVE  slot'[where'[r]] = r
  <2>1. (r # slot[t]) \/ (slot[t] = Nobody)
    BY <1>3, Names
  <2>2. r # slot[t]
    BY <2>1, Names
  <2>3. where'[r] = where[r] /\ slot[where[r]] = r
    BY <1>3, <2>2 DEF BorrowedOK
  <2>4. where[r] # t
    BY <2>2, <2>3
  <2> QED BY <1>1, <1>3, <2>3, <2>4
<1> QED BY <1>2, <1>3 DEF BorrowedOK, PoolOf

\* Slots that no thread has are moved.
LEMMA KeepsSlots ==
    ASSUME Types, BorrowedOK, slot' = slot,
           \A s \in Slots : \/ where'[s] = where[s]
                            \/ where[s] = "idle" /\ where'[s] \notin Threads
    PROVE  BorrowedOK'
<1>1. ASSUME NEW u \in Threads, slot[u] # Nobody
      PROVE  where'[slot[u]] = u /\ slot[u] \in PoolOf(u)
  <2>1. slot[u] \in Slots /\ where[slot[u]] = u /\ slot[u] \in PoolOf(u)
    BY <1>1 DEF Types, BorrowedOK
  <2> QED BY <2>1, Names
<1>2. \A r \in Slots : where'[r] \in Threads => slot[where'[r]] = r
  BY DEF BorrowedOK
<1> QED BY <1>1, <1>2 DEF BorrowedOK, PoolOf

\* A push that goes on without taking or returning a slot.
LEMMA HeldMove ==
    ASSUME Types, HeldOK, NEW p \in Pushers, NEW l, Goto(p, l), UNCHANGED <<where, slot>>,
           l \in HeldPlaces <=> pc[p] \in HeldPlaces, l = "confirm" => p \in Confirming
    PROVE  HeldOK'
<1>1. /\ pc'[p] = l /\ \A t \in Threads : t # p => pc'[t] = pc[t]
      /\ BorrowedOK'
  BY KeepsSlots, Names DEF Goto, Types, Places, HeldOK
<1> QED BY <1>1, Names DEF HeldOK

\* Every step keeps HeldOK: slots change hands in borrowing, returning and discarding.
LEMMA HeldStep ==
    ASSUME IInv, [Next]_vars
    PROVE  HeldOK'
<1>1. Types /\ HeldOK
  BY DEF IInv
<1>2. ASSUME UNCHANGED <<pc, slot>>,
             \A s \in Slots : \/ where'[s] = where[s]
                              \/ where[s] = "idle" /\ where'[s] \notin Threads
      PROVE  HeldOK'
  <2>1. BorrowedOK'
    BY <1>1, <1>2, KeepsSlots DEF HeldOK
  <2> QED BY <1>1, <1>2, <2>1 DEF HeldOK
<1>3. ASSUME NEW t \in Threads, BorrowPanics(t) PROVE HeldOK'
  <2>1. pc[t] = "borrow" /\ slot[t] = Nobody
    BY <1>1, <1>3, Names DEF BorrowPanics, HeldOK, HeldPlaces
  <2>2. PICK s \in PoolOf(t) : where[s] \in {"idle", "free"} /\ Take(t, s)
    BY <1>3 DEF BorrowPanics
  <2>3. BorrowedOK' /\ slot' = [slot EXCEPT ![t] = s] /\ s # Nobody
    BY <1>1, <2>1, <2>2, TakesSlot, Names DEF HeldOK, Take
  <2>4. pc' = [pc EXCEPT ![t] = "panicked"]
    BY <1>3 DEF BorrowPanics, Goto
  <2> QED BY <1>1, <2>1, <2>3, <2>4, Names DEF HeldOK, HeldPlaces, Types, Places
<1>4. ASSUME NEW t \in Threads, NEW s \in Slots, BorrowDestroys(t, s) PROVE HeldOK'
  <2>1. UNCHANGED <<pc, slot>> /\ where[s] = "idle" /\ where' = [where EXCEPT ![s] = "free"]
    BY <1>4 DEF BorrowDestroys, Idle
  <2> QED BY <1>1, <1>2, <2>1, Names DEF Types
<1>5. ASSUME NEW p \in Pushers, PushBegin(p) \/ PushStep(p) PROVE HeldOK'
  <2>1. CASE \/ PushBegin(p) \/ PushTry(p) \/ PushBorrowFails(p)
             \/ RetryTick(p) \/ RetryClosed(p)
    <3>1. /\ UNCHANGED <<where, slot>> /\ pc[p] \in {"idle", "try", "borrow", "wait"}
          /\ \E l \in {"try", "borrow", "wait", "done"} : Goto(p, l)
      BY <2>1 DEF PushBegin, PushTry, PushBorrowFails, RetryTick, RetryClosed, channels
    <3> QED BY <1>1, <3>1, HeldMove DEF HeldPlaces
  <2>2. CASE \/ DeclareExchange(p) \/ HoldTarget(p) \/ PublishFails(p)
             \/ ConfirmRecv(p) \/ ConfirmEnds(p) \/ ConfirmTimeout(p) \/ Unlock(p)
    <3>1. /\ UNCHANGED <<where, slot>> /\ pc[p] \in {"exchange", "topology", "confirm", "unlock"}
          /\ \E l \in {"topology", "unlock", "return"} : Goto(p, l)
      BY <2>2 DEF DeclareExchange, HoldTarget, PublishFails, ConfirmRecv, ConfirmEnds,
                  ConfirmTimeout, Unlock, channels
    <3> QED BY <1>1, <3>1, HeldMove DEF HeldPlaces
  <2>3. ASSUME NEW q \in Queues, BindLock(p, q) \/ BindUnlock(p, q) PROVE HeldOK'
    <3>1. /\ UNCHANGED <<where, slot>> /\ pc[p] \in {"topology", "bind"}
          /\ \E l \in {"topology", "bind", "unlock"} : Goto(p, l)
      BY <2>3 DEF BindLock, BindUnlock, channels
    <3> QED BY <1>1, <3>1, HeldMove DEF HeldPlaces
  <2>4. CASE Publish(p)
    <3>1. /\ UNCHANGED <<where, slot>> /\ pc[p] = "topology"
          /\ \E l \in {"confirm", "unlock"} : Goto(p, l) /\ (l = "confirm" => p \in Confirming)
      BY <2>4 DEF Publish
    <3> QED BY <1>1, <3>1, HeldMove DEF HeldPlaces
  <2>5. CASE PushBorrow(p)
    <3>1. PICK s \in Slots : Borrowed(p, s)
      BY <2>5 DEF PushBorrow
    <3>2. PICK l \in {"exchange", "topology"} : Goto(p, l)
      BY <2>5 DEF PushBorrow
    <3>3. pc[p] = "borrow" /\ slot[p] = Nobody
      BY <1>1, <2>5 DEF PushBorrow, HeldOK, HeldPlaces
    <3>4. /\ BorrowedOK' /\ slot' = [slot EXCEPT ![p] = s] /\ s # Nobody
          /\ pc' = [pc EXCEPT ![p] = l]
      BY <1>1, <3>1, <3>2, <3>3, Borrowing, TakesSlot, Names DEF HeldOK, Goto
    <3> QED BY <1>1, <3>4, Names DEF HeldOK, HeldPlaces, Types, Places
  <2>6. CASE Return(p)
    <3>1. pc[p] = "return" /\ slot[p] \in Slots /\ p \in Threads /\ BorrowedOK
      BY <1>1, <2>6, Names DEF Return, HeldOK, HeldPlaces, Types
    <3>2. /\ slot' = [slot EXCEPT ![p] = Nobody]
          /\ \E w \in {"idle", "free"} : where' = [where EXCEPT ![slot[p]] = w]
      BY <2>6, <3>1, GivingBack DEF Return
    <3>3. BorrowedOK'
      <4>1. /\ where'[slot[p]] \in {"idle", "free"}
            /\ \A s \in Slots : s # slot[p] => where'[s] = where[s]
        BY <1>1, <3>1, <3>2 DEF Types
      <4> QED BY <1>1, <3>1, <3>2, <4>1, GivesSlot
    <3>4. PICK l \in {"done", "wait"} : pc' = [pc EXCEPT ![p] = l]
      BY <2>6 DEF Return, Goto
    <3> QED BY <1>1, <3>2, <3>3, <3>4, Names DEF HeldOK, HeldPlaces, Types, Places
  <2> QED BY <1>3, <1>4, <1>5, <2>1, <2>2, <2>3, <2>4, <2>5, <2>6, Names DEF PushStep
<1>6. ASSUME NEW c \in Consumers, ConsumeLock(c) \/ SetupStep(c) \/ Reconsume(c) \/ ConsumeEnds(c)
      PROVE  HeldOK'
  <2>1. ASSUME Discard(c) PROVE BorrowedOK' /\ slot' = [slot EXCEPT ![c] = Nobody]
    BY <1>1, <2>1, GivesSlot, Names DEF Discard, HeldOK, Types
  <2>2. ASSUME Discard(c), NEW l \in {"borrow", "idle"}, Goto(c, l) PROVE HeldOK'
    BY <1>1, <2>1, <2>2, Names DEF HeldOK, HeldPlaces, Types, Places, Goto
  <2>3. ASSUME UNCHANGED <<where, slot>>, NEW l, Goto(c, l),
               l \in {"ready", "retry"} \/ (l \in {"consuming", "panicked"} /\ pc[c] = "setup")
        PROVE  HeldOK'
    <3>1. BorrowedOK'
      BY <1>1, <2>3, KeepsSlots DEF HeldOK
    <3> QED BY <1>1, <2>3, <3>1, Names DEF HeldOK, HeldPlaces, Types, Places, Goto
  <2>4. CASE ConsumeLock(c) \/ Reconsume(c) \/ ConsumeOk(c)
    BY <2>3, <2>4 DEF ConsumeLock, Reconsume, ConsumeOk, channels
  <2>5. CASE ConsumeReady(c) \/ ConsumeEnds(c)
    BY <2>2, <2>5 DEF ConsumeReady, ConsumeEnds
  <2>6. CASE ConsumeFails(c) \/ SetupPanics(c)
    BY <2>2, <2>3, <2>6 DEF ConsumeFails, SetupPanics
  <2>7. CASE ConsumeBorrow(c)
    <3>1. PICK s \in Slots : Borrowed(c, s)
      BY <2>7 DEF ConsumeBorrow
    <3>2. pc[c] = "borrow" /\ slot[c] = Nobody /\ pc' = [pc EXCEPT ![c] = "setup"]
      BY <1>1, <2>7 DEF ConsumeBorrow, HeldOK, Goto
    <3>3. BorrowedOK' /\ slot' = [slot EXCEPT ![c] = s] /\ s # Nobody
      BY <1>1, <3>1, <3>2, Borrowing, TakesSlot, Names DEF HeldOK
    <3> QED BY <1>1, <3>2, <3>3, Names DEF HeldOK, HeldPlaces, Types, Places
  <2> QED BY <1>3, <1>4, <1>6, <2>4, <2>5, <2>6, <2>7, Names DEF SetupStep
<1>7. ASSUME NEW s \in Slots, BrokerTake(s) \/ ChannelDies(s) PROVE HeldOK'
  BY <1>2, <1>7 DEF BrokerTake, ChannelDies
<1>8. CASE ClosePools
  <2>1. UNCHANGED <<pc, slot>> /\ \A s \in Slots : where'[s] = where[s]
                                    \/ (where[s] = "idle" /\ where'[s] = "free")
    BY <1>8 DEF ClosePools
  <2> QED BY <1>2, <2>1, Names
<1>9. CASE CloseMark \/ CloseSignal \/ CloseConn \/ UNCHANGED vars
  BY <1>2, <1>9 DEF CloseMark, CloseSignal, CloseConn, vars, channels
<1> QED BY <1>5, <1>6, <1>7, <1>8, <1>9 DEF Next, Close

\* A thread that goes on with the locks it has, or one more; and one that unlocks.
LEMMA LockMove ==
    ASSUME Types, LockOK, NEW t \in Threads, NEW l, Goto(t, l),
           pc[t] \in LockPlaces(t) => l \in LockPlaces(t),
           \A q \in Queues : \/ lock'[q] \in {lock[q], Nobody}
                             \/ lock'[q] = t /\ l \in LockPlaces(t)
    PROVE  LockOK'
<1>1. pc'[t] = l /\ \A u \in Threads : u # t => pc'[u] = pc[u]
  BY DEF Goto, Types, Places
<1>2. ASSUME NEW q \in Queues, lock'[q] \in Threads
      PROVE  pc'[lock'[q]] \in LockPlaces(lock'[q])
  BY <1>1, <1>2, Names DEF LockOK
<1> QED BY <1>2 DEF LockOK, LockPlaces

\* A thread releases all its locks.
LEMMA Unlocks ==
    ASSUME Types, LockOK, NEW t \in Threads, NEW l, Goto(t, l), lock' = Released(t)
    PROVE  LockOK'
<1>1. \A u \in Threads : u # t => pc'[u] = pc[u]
  BY DEF Goto, Types, Places
<1>2. ASSUME NEW q \in Queues, lock'[q] \in Threads
      PROVE  pc'[lock'[q]] \in LockPlaces(lock'[q])
  <2>1. lock'[q] = lock[q] /\ lock[q] # t
    BY <1>2, Names DEF Released
  <2> QED BY <1>1, <1>2, <2>1 DEF LockOK
<1> QED BY <1>2 DEF LockOK, LockPlaces

\* Every step keeps LockOK.
LEMMA LockStep ==
    ASSUME IInv, [Next]_vars
    PROVE  LockOK'
<1>1. Types /\ LockOK
  BY DEF IInv
<1>2. ASSUME UNCHANGED <<lock, pc>> PROVE LockOK'
  BY <1>1, <1>2 DEF LockOK
<1>3. ASSUME NEW t \in Threads, NEW l, Goto(t, l), lock' = lock, pc[t] \notin LockPlaces(t)
      PROVE  LockOK'
  BY <1>1, <1>3, LockMove
<1>4. ASSUME NEW t \in Threads, NEW l, Goto(t, l), lock' = lock, l \in LockPlaces(t)
      PROVE  LockOK'
  BY <1>1, <1>4, LockMove
<1>5. ASSUME NEW t \in Threads, BorrowPanics(t) PROVE LockOK'
  BY <1>1, <1>5, Unlocks DEF BorrowPanics
<1>6. ASSUME NEW t \in Threads, NEW s \in Slots, BorrowDestroys(t, s) PROVE LockOK'
  BY <1>2, <1>6 DEF BorrowDestroys
<1>7. ASSUME NEW p \in Pushers, PushBegin(p) \/ PushStep(p) PROVE LockOK'
  <2>1. CASE PushBegin(p) \/ PushTry(p) \/ PushBorrow(p) \/ PushBorrowFails(p) \/ DeclareExchange(p)
    <3>1. pc[p] \in {"idle", "try", "borrow", "exchange"} /\ lock' = lock /\ \E l : Goto(p, l)
      BY <2>1 DEF PushBegin, PushTry, PushBorrow, PushBorrowFails, DeclareExchange
    <3> QED BY <1>3, <3>1, Names DEF LockPlaces
  <2>2. CASE Return(p) \/ RetryTick(p) \/ RetryClosed(p)
    <3>1. pc[p] \in {"return", "wait"} /\ lock' = lock /\ \E l : Goto(p, l)
      BY <2>2 DEF Return, RetryTick, RetryClosed
    <3> QED BY <1>3, <3>1, Names DEF LockPlaces
  <2>3. CASE Publish(p) \/ PublishFails(p) \/ ConfirmRecv(p) \/ ConfirmEnds(p) \/ ConfirmTimeout(p)
    <3>1. lock' = lock /\ \E l \in {"confirm", "unlock"} : Goto(p, l)
      BY <2>3 DEF Publish, PublishFails, ConfirmRecv, ConfirmEnds, ConfirmTimeout
    <3> QED BY <1>4, <3>1, Names DEF LockPlaces
  <2>4. CASE HoldTarget(p)
    <3>1. lock' = [lock EXCEPT ![Target[p]] = p]
      BY <2>4 DEF HoldTarget
    <3>2. PICK l \in {"topology", "unlock"} : Goto(p, l)
      BY <2>4 DEF HoldTarget
    <3> QED BY <1>1, <3>1, <3>2, LockMove, Names DEF LockPlaces, Types
  <2>5. ASSUME NEW q \in Queues, BindLock(p, q) PROVE LockOK'
    BY <1>1, <2>5, LockMove, Names DEF BindLock, LockPlaces, Types
  <2>6. ASSUME NEW q \in Queues, BindUnlock(p, q) PROVE LockOK'
    <3>1. lock' = [lock EXCEPT ![q] = Nobody]
      BY <2>6 DEF BindUnlock
    <3>2. PICK l \in {"topology", "unlock"} : Goto(p, l)
      BY <2>6 DEF BindUnlock
    <3> QED BY <1>1, <3>1, <3>2, LockMove, Names DEF LockPlaces, Types
  <2>7. CASE Unlock(p)
    BY <1>1, <2>7, Unlocks, Names DEF Unlock
  <2> QED
    BY <1>5, <1>6, <1>7, <2>1, <2>2, <2>3, <2>4, <2>5, <2>6, <2>7, Names DEF PushStep
<1>8. ASSUME NEW c \in Consumers, ConsumeLock(c) \/ SetupStep(c) \/ Reconsume(c) \/ ConsumeEnds(c)
      PROVE  LockOK'
  <2>1. CASE ConsumeLock(c)
    BY <1>1, <2>1, LockMove, Names DEF ConsumeLock, LockPlaces, Types
  <2>2. CASE ConsumeReady(c) \/ ConsumeBorrow(c) \/ Reconsume(c)
    <3>1. lock' = lock /\ \E l \in {"borrow", "setup", "ready"} : Goto(c, l)
      BY <2>2 DEF ConsumeReady, ConsumeBorrow, Reconsume
    <3> QED BY <1>4, <3>1, Names DEF LockPlaces
  <2>3. CASE ConsumeEnds(c)
    BY <1>3, <2>3, Names DEF ConsumeEnds, LockPlaces
  <2>4. CASE ConsumeOk(c) \/ ConsumeFails(c) \/ SetupPanics(c)
    BY <1>1, <2>4, Unlocks, Names DEF ConsumeOk, ConsumeFails, SetupPanics
  <2> QED BY <1>5, <1>6, <1>8, <2>1, <2>2, <2>3, <2>4, Names DEF SetupStep
<1>9. ASSUME NEW s \in Slots, BrokerTake(s) \/ ChannelDies(s) PROVE LockOK'
  BY <1>2, <1>9 DEF BrokerTake, ChannelDies
<1>10. CASE Close \/ UNCHANGED vars
  BY <1>2, <1>10 DEF Close, CloseMark, CloseSignal, CloseConn, ClosePools, vars
<1> QED BY <1>7, <1>8, <1>9, <1>10 DEF Next

----------------------------------------------------------------------------
(***************************************************************************)
(* Whose messages are in the channels: WayOK.                              *)
(***************************************************************************)

\* What a push has reached changes by its own steps only; Close is for good.
Unchanged(p) ==
    /\ pc'[p] = pc[p] /\ slot'[p] = slot[p]
    /\ result'[p] = result[p] /\ attempt'[p] = attempt[p]

\* A push is where it was unless it makes a step itself.
LEMMA Others ==
    ASSUME IInv, [Next]_vars, NEW p \in Pushers, ~PushBegin(p), ~PushStep(p)
    PROVE  Unchanged(p)
<1>1. Types /\ p \in Threads
  BY Names DEF IInv
<1>2. ASSUME UNCHANGED <<pc, slot, result, attempt>> PROVE Unchanged(p)
  BY <1>2 DEF Unchanged
<1>3. ASSUME NEW t \in Threads, t # p, NEW l, Goto(t, l),
             slot' = slot \/ \E s : slot' = [slot EXCEPT ![t] = s],
             result' = result \/ \E r : result' = [result EXCEPT ![t] = r],
             attempt' = attempt \/ \E n : attempt' = [attempt EXCEPT ![t] = n]
      PROVE  Unchanged(p)
  BY <1>1, <1>3 DEF Goto, Unchanged, Types, Places
<1>4. ASSUME NEW t \in Threads, t # p, BorrowPanics(t) PROVE Unchanged(p)
  BY <1>1, <1>4 DEF BorrowPanics, Take, Goto, Unchanged, Types, Places
<1>5. ASSUME NEW t \in Threads, NEW s \in Slots, BorrowDestroys(t, s) PROVE Unchanged(p)
  BY <1>2, <1>5 DEF BorrowDestroys
<1>6. ASSUME NEW t \in Pushers, PushBegin(t) \/ PushStep(t) PROVE Unchanged(p)
  <2>1. t # p /\ t \in Threads
    BY <1>6, Names
  <2>2. CASE PushBegin(t) \/ PushTry(t) \/ PushBorrowFails(t) \/ DeclareExchange(t) \/ HoldTarget(t)
    BY <1>3, <2>1, <2>2
       DEF PushBegin, PushTry, PushBorrowFails, DeclareExchange, HoldTarget, channels
  <2>3. CASE PushBorrow(t)
    BY <1>3, <2>1, <2>3, Borrowing DEF PushBorrow
  <2>4. ASSUME NEW q \in Queues, BindLock(t, q) \/ BindUnlock(t, q) PROVE Unchanged(p)
    BY <1>3, <2>1, <2>4 DEF BindLock, BindUnlock
  <2>5. CASE Publish(t) \/ PublishFails(t) \/ ConfirmRecv(t) \/ ConfirmEnds(t) \/ ConfirmTimeout(t)
    BY <1>3, <2>1, <2>5 DEF Publish, PublishFails, ConfirmRecv, ConfirmEnds, ConfirmTimeout
  <2>6. CASE Unlock(t) \/ RetryTick(t) \/ RetryClosed(t)
    BY <1>3, <2>1, <2>6 DEF Unlock, RetryTick, RetryClosed
  <2>7. CASE Return(t)
    BY <1>3, <2>1, <2>7, GivingBack DEF Return
  <2> QED
    BY <1>4, <1>5, <1>6, <2>1, <2>2, <2>3, <2>4, <2>5, <2>6, <2>7 DEF PushStep
<1>7. ASSUME NEW c \in Consumers, ConsumeLock(c) \/ SetupStep(c) \/ Reconsume(c) \/ ConsumeEnds(c)
      PROVE  Unchanged(p)
  <2>1. c # p /\ c \in Threads
    BY Names
  <2>2. CASE ConsumeLock(c) \/ Reconsume(c) \/ ConsumeOk(c)
    BY <1>3, <2>1, <2>2 DEF ConsumeLock, Reconsume, ConsumeOk
  <2>3. CASE ConsumeReady(c) \/ ConsumeEnds(c) \/ ConsumeFails(c) \/ SetupPanics(c)
    BY <1>3, <2>1, <2>3 DEF ConsumeReady, ConsumeEnds, ConsumeFails, SetupPanics, Discard
  <2>4. CASE ConsumeBorrow(c)
    BY <1>3, <2>1, <2>4, Borrowing DEF ConsumeBorrow
  <2> QED BY <1>4, <1>5, <1>7, <2>1, <2>2, <2>3, <2>4 DEF SetupStep
<1>8. ASSUME NEW s \in Slots, BrokerTake(s) \/ ChannelDies(s) PROVE Unchanged(p)
  BY <1>2, <1>8 DEF BrokerTake, ChannelDies
<1>9. CASE Close \/ UNCHANGED vars
  BY <1>2, <1>9 DEF Close, CloseMark, CloseSignal, CloseConn, ClosePools, vars
<1> QED BY <1>6, <1>7, <1>8, <1>9 DEF Next

\* Close is never undone.
LEMMA ClosedForGood ==
    ASSUME [Next]_vars
    PROVE  (closeCh => closeCh') /\ (closed => closed')
<1>1. ASSUME NEW p \in Pushers, PushBegin(p) \/ PushStep(p) PROVE UNCHANGED shutdown
  BY <1>1
     DEF PushStep, PushBegin, PushTry, PushBorrow, PushBorrowFails, BorrowPanics,
         BorrowDestroys, DeclareExchange, HoldTarget, BindLock, BindUnlock, Publish,
         PublishFails, ConfirmRecv, ConfirmEnds, ConfirmTimeout, Unlock, Return,
         RetryTick, RetryClosed
<1>2. ASSUME NEW c \in Consumers, ConsumeLock(c) \/ SetupStep(c) \/ Reconsume(c) \/ ConsumeEnds(c)
      PROVE  UNCHANGED shutdown
  BY <1>2
     DEF ConsumeLock, SetupStep, Reconsume, ConsumeEnds, ConsumeReady, ConsumeBorrow,
         ConsumeOk, ConsumeFails, SetupPanics, BorrowPanics, BorrowDestroys
<1>3. ASSUME NEW s \in Slots, BrokerTake(s) \/ ChannelDies(s) PROVE UNCHANGED shutdown
  BY <1>3 DEF BrokerTake, ChannelDies
<1>4. CASE Close
  BY <1>4 DEF Close, CloseMark, CloseSignal, CloseConn, ClosePools
<1>5. CASE UNCHANGED vars
  BY <1>5 DEF vars
<1> QED BY <1>1, <1>2, <1>3, <1>4, <1>5 DEF Next, shutdown

\* What is in a channel was there before, or is being published; and a channel with
\* something in it is opened again by a consumer only, not by the pool.
LEMMA WhatIsIn ==
    ASSUME IInv, [Next]_vars, NEW p \in Pushers, NEW s \in Slots, In(p, s)'
    PROVE  /\ In(p, s) \/ (Publish(p) /\ s = slot[p])
           /\ \/ ch[s].open \/ ~ch'[s].open
              \/ \E c \in Consumers : ConsumeOk(c) /\ s = slot[c]
<1>1. /\ ch[s].sent \in Seq(Pushers)
      /\ ch[s].confirms \in Seq([msg : Pushers, ack : BOOLEAN])
  BY DEF IInv, Types, Channel
<1> DEFINE Result == /\ In(p, s) \/ (Publish(p) /\ s = slot[p])
                     /\ \/ ch[s].open \/ ~ch'[s].open
                        \/ \E c \in Consumers : ConsumeOk(c) /\ s = slot[c]
<1>2. ASSUME ch'[s] = ch[s] PROVE Result
  BY <1>2 DEF In, Sent, Confirmed
<1>3. ASSUME DropStep PROVE Result
  <2>1. CASE Dropped(s)
    <3>1. ch'[s].sent = <<>> /\ ch'[s].confirms \in {<<>>, ch[s].confirms}
          /\ (ch'[s].confirms # <<>> => ~ch'[s].open)
      BY <2>1 DEF Dropped
    <3>2. ch'[s].confirms # <<>>
      BY <3>1 DEF In, Sent, Confirmed
    <3> QED BY <3>1, <3>2 DEF In, Sent, Confirmed
  <2> QED BY <1>2, <1>3, <2>1 DEF DropStep
<1>4. ASSUME NEW r \in Pushers, Publish(r) PROVE Result
  <2>1. CASE s # slot[r] BY <1>2, <1>4, <2>1, PublishStep
  <2>2. CASE s = slot[r]
    <3>1. /\ ch'[s].open /\ ch[s].open /\ ch'[s].confirms = ch[s].confirms
          /\ ch'[s].sent = Append(ch[s].sent, r)
      BY <1>4, <2>2, PublishStep
    <3>2. Sent(p, s)' => Sent(p, s) \/ p = r
      BY <1>1, <3>1, Extended DEF Sent
    <3>3. Confirmed(p, s)' => Confirmed(p, s)
      BY <3>1 DEF Confirmed
    <3> QED BY <1>4, <2>2, <3>1, <3>2, <3>3 DEF In
  <2> QED BY <2>1, <2>2
<1>5. ASSUME NEW r \in Pushers, ConfirmRecv(r) PROVE Result
  <2>1. CASE s # slot[r] BY <1>2, <1>5, <2>1, ConfirmStep
  <2>2. CASE s = slot[r]
    <3>1. /\ ch'[s].open = ch[s].open /\ ch'[s].sent = ch[s].sent
          /\ ch[s].confirms # <<>> /\ ch'[s].confirms = Tail(ch[s].confirms)
      BY <1>5, <2>2, ConfirmStep
    <3>2. Rest(ch'[s].confirms, ch[s].confirms)
      BY <1>1, <3>1, Rests
    <3>3. Confirmed(p, s)' => Confirmed(p, s)
      BY <3>2 DEF Rest, Confirmed
    <3> QED BY <3>1, <3>3 DEF In, Sent
  <2> QED BY <2>1, <2>2
<1>6. ASSUME NEW t \in Slots, BrokerTake(t) PROVE Result
  <2>1. CASE s # t BY <1>2, <1>6, <2>1, BrokerStep
  <2>2. CASE s = t
    <3>1. /\ ch'[s].open /\ ch[s].open
          /\ ch[s].sent # <<>> /\ ch'[s].sent = Tail(ch[s].sent)
      BY <1>6, <2>2, BrokerStep
    <3>2. PICK ack \in BOOLEAN :
            ch'[s].confirms \in {ch[s].confirms,
                Append(ch[s].confirms, [msg |-> Head(ch[s].sent), ack |-> ack])}
      BY <1>6, <2>2, BrokerStep
    <3>3. Rest(ch'[s].sent, ch[s].sent)
      BY <1>1, <3>1, Rests
    <3>4. Sent(p, s)' => Sent(p, s)
      BY <3>3 DEF Rest, Sent
    <3>5. Confirmed(p, s)' => Confirmed(p, s) \/ p = Head(ch[s].sent)
      <4>1. CASE ch'[s].confirms = ch[s].confirms
        BY <4>1 DEF Confirmed
      <4>2. CASE ch'[s].confirms =
                   Append(ch[s].confirms, [msg |-> Head(ch[s].sent), ack |-> ack])
        <5>1. [msg |-> Head(ch[s].sent), ack |-> ack].msg = Head(ch[s].sent)
          OBVIOUS
        <5> QED BY <1>1, <4>2, <5>1, Extended DEF Confirmed
      <4> QED BY <3>2, <4>1, <4>2
    <3>6. p = Head(ch[s].sent) => Sent(p, s)
      BY <1>1, <3>1 DEF Sent
    <3> QED BY <3>1, <3>4, <3>5, <3>6 DEF In
  <2> QED BY <2>1, <2>2
<1>7. ASSUME NEW c \in Consumers, ConsumeOk(c) PROVE Result
  <2>1. CASE s # slot[c] BY <1>2, <1>7, <2>1, ConsumeStep
  <2>2. CASE s = slot[c]
    <3>1. ch'[s].sent = ch[s].sent /\ ch'[s].confirms = ch[s].confirms
      BY <1>7, ConsumeStep
    <3> QED BY <1>7, <2>2, <3>1 DEF In, Sent, Confirmed
  <2> QED BY <2>1, <2>2
<1> HIDE DEF Result
<1>8. \/ DropStep
      \/ \E r \in Pushers : Publish(r) \/ ConfirmRecv(r)
      \/ \E t \in Slots : BrokerTake(t)
      \/ \E c \in Consumers : ConsumeOk(c)
  BY ChannelSteps
<1>9. Result
  BY <1>3, <1>4, <1>5, <1>6, <1>7, <1>8
<1> QED BY <1>9 DEF Result

\* What Way says of one slot.
LEMMA WayIn ==
    ASSUME IInv, NEW p \in Pushers, NEW s \in Slots, In(p, s)
    PROVE  /\ s \in PoolOf(p) /\ p \in Threads
           /\ \/ pc[p] = "confirm" /\ slot[p] = s
              \/ pc[p] \in {"unlock", "return"} /\ slot[p] = s /\ ~ch[s].open
              \/ pc[p] \in {"unlock", "return", "done"} /\ result[p] = "ok" /\ p \notin Confirming
              \/ pc[p] \in {"unlock", "return", "wait", "try", "done"} /\ closeCh
BY Names DEF IInv, WayOK, Way

\* While the operator is open, the first confirmation in the channel of a push that
\* waits is the one of its message.
LEMMA HeadIsMine ==
    ASSUME IInv, NEW p \in Pushers, ConfirmRecv(p), ~closeCh
    PROVE  Head(ch[slot[p]].confirms).msg = p
<1> DEFINE s == slot[p]
           h == ch[s].confirms[1].msg
<1>1. /\ s \in Slots /\ s \in PoolOf(p) /\ p \in Confirming /\ ch[s].confirms # <<>>
      /\ ch[s].confirms \in Seq([msg : Pushers, ack : BOOLEAN])
  BY ConfirmStep DEF IInv, Types, Channel
<1>2. pc[p] = "confirm" /\ p \in Threads /\ s # Nobody
  BY <1>1, Names DEF ConfirmRecv
<1>3. 1 \in DOMAIN ch[s].confirms /\ Head(ch[s].confirms) = ch[s].confirms[1]
  BY <1>1
<1>4. h \in Pushers
  <2>1. ch[s].confirms[1] \in [msg : Pushers, ack : BOOLEAN]
    BY <1>1, <1>3, Element
  <2> QED BY <2>1
<1>5. In(h, s)
  BY <1>3 DEF In, Confirmed
<1> HIDE DEF s, h
<1>6. /\ s \in PoolOf(h) /\ h \in Threads
      /\ \/ slot[h] = s
         \/ h \notin Confirming
  BY <1>1, <1>4, <1>5, WayIn
<1>7. h \in Confirming
  BY <1>1, <1>4, <1>6, Names
<1>8. slot[h] = s /\ slot[p] = s
  BY <1>6, <1>7 DEF s
<1>9. h = p
  BY <1>2, <1>6, <1>8 DEF IInv, HeldOK, BorrowedOK
<1> QED BY <1>3, <1>9 DEF s, h

\* After it has taken a confirmation, nothing of the push is in its channel.
LEMMA HeadIsTaken ==
    ASSUME IInv, NEW p \in Pushers, ConfirmRecv(p), ~closeCh
    PROVE  ~In(p, slot[p])'
<1>1. PICK s \in Slots : s = slot[p]
  BY ConfirmStep
<1>2. /\ slot'[p] = slot[p]
      /\ ch'[s].sent = ch[s].sent /\ ch'[s].confirms = Tail(ch[s].confirms)
      /\ ch[s].confirms # <<>>
      /\ ch[s].confirms \in Seq([msg : Pushers, ack : BOOLEAN])
  BY <1>1, ConfirmStep DEF IInv, Types, Channel, ConfirmRecv
<1>3. 1 \in DOMAIN ch[s].confirms /\ ch[s].confirms[1].msg = p
  BY <1>1, <1>2, HeadIsMine
<1>4. ~Sent(p, s)
  BY <1>3 DEF IInv, OnceOK, Sent
<1>5. \A i \in DOMAIN ch'[s].confirms :
        i + 1 \in DOMAIN ch[s].confirms /\ i + 1 # 1 /\ ch'[s].confirms[i] = ch[s].confirms[i + 1]
  BY <1>2
<1>6. \A i \in DOMAIN ch'[s].confirms : ch'[s].confirms[i].msg # p
  BY <1>3, <1>5 DEF IInv, OnceOK
<1> QED BY <1>1, <1>2, <1>4, <1>6 DEF In, Sent, Confirmed

\* Every step keeps WayOK.
LEMMA WayStep ==
    ASSUME IInv, [Next]_vars
    PROVE  WayOK'
<1> SUFFICES ASSUME NEW p \in Pushers, NEW s \in Slots, In(p, s)'
             PROVE  /\ s \in PoolOf(p)
                    /\ \/ pc'[p] = "confirm" /\ slot'[p] = s
                       \/ /\ pc'[p] \in {"unlock", "return"} /\ slot'[p] = s
                          /\ ~ch'[s].open
                       \/ /\ pc'[p] \in {"unlock", "return", "done"}
                          /\ result'[p] = "ok" /\ p \notin Confirming
                       \/ pc'[p] \in {"unlock", "return", "wait", "try", "done"} /\ closeCh'
  BY DEF WayOK, Way, PoolOf
<1> DEFINE Goal ==
      \/ pc'[p] = "confirm" /\ slot'[p] = s
      \/ pc'[p] \in {"unlock", "return"} /\ slot'[p] = s /\ ~ch'[s].open
      \/ pc'[p] \in {"unlock", "return", "done"} /\ result'[p] = "ok" /\ p \notin Confirming
      \/ pc'[p] \in {"unlock", "return", "wait", "try", "done"} /\ closeCh'
<1>1. /\ Types /\ HeldOK /\ p \in Threads
      /\ pc \in [Threads -> PushPlaces \cup ConsumePlaces]
      /\ slot \in [Threads -> Slots \cup {Nobody}]
      /\ result \in [Pushers -> {"none", "ok", "error", "closed"}]
      /\ ch \in [Slots -> Channel]
      /\ closeCh => closed
  BY Names DEF IInv, Types, Places
<1>2. closeCh => closeCh'
  BY ClosedForGood
<1>3. CASE Publish(p) /\ s = slot[p]
  <2>1. s \in PoolOf(p) /\ slot'[p] = s
    BY <1>3, PublishStep DEF Publish
  <2>2. CASE p \in Confirming
    BY <1>1, <1>3, <2>1, <2>2 DEF Publish, Goto
  <2>3. CASE p \notin Confirming
    BY <1>1, <1>3, <2>1, <2>3 DEF Publish, Goto
  <2> QED BY <2>2, <2>3
<1>4. ASSUME In(p, s) PROVE s \in PoolOf(p) /\ Goal
  <2>1. /\ s \in PoolOf(p)
        /\ \/ pc[p] = "confirm" /\ slot[p] = s
           \/ pc[p] \in {"unlock", "return"} /\ slot[p] = s /\ ~ch[s].open
           \/ pc[p] \in {"unlock", "return", "done"} /\ result[p] = "ok" /\ p \notin Confirming
           \/ pc[p] \in {"unlock", "return", "wait", "try", "done"} /\ closeCh
    BY <1>4, WayIn
  <2>2. CASE ~PushBegin(p) /\ ~PushStep(p)
    <3>1. Unchanged(p)
      BY <2>2, Others
    <3>2. slot[p] = s /\ ~ch[s].open => ~ch'[s].open
      <4>1. ASSUME NEW c \in Consumers, ConsumeOk(c), s = slot[c], s = slot[p] PROVE FALSE
        <5>1. where[s] = c
          BY <4>1, ConsumeStep
        <5>2. where[s] = p
          BY <1>1, <4>1, Names DEF HeldOK, BorrowedOK
        <5> QED BY <5>1, <5>2, Names
      <4> QED BY <4>1, WhatIsIn
    <3> QED BY <1>2, <2>1, <3>1, <3>2 DEF Unchanged
  <2>3. CASE ConfirmRecv(p)
    <3>1. CASE closeCh
      BY <1>1, <1>2, <2>1, <2>3, <3>1 DEF ConfirmRecv, Goto
    <3>2. CASE ~closeCh
      <4>1. pc[p] = "confirm" /\ slot[p] = s
        BY <2>1, <2>3, <3>2 DEF ConfirmRecv
      <4>2. ~In(p, s)'
        BY <2>3, <3>2, <4>1, HeadIsTaken DEF ConfirmRecv, In, Sent, Confirmed
      <4> QED BY <4>2
    <3> QED BY <3>1, <3>2
  <2>4. CASE ConfirmEnds(p)
    <3>1. pc[p] = "confirm" /\ slot[p] = s /\ pc'[p] = "unlock"
      BY <1>1, <2>1, <2>4 DEF ConfirmEnds, Goto
    <3>2. CASE closeCh BY <1>2, <2>1, <3>1, <3>2
    <3>3. CASE ~closeCh
      <4>1. ch[s].confirms = <<>> /\ ~ch[s].open
        BY <2>4, <3>1, <3>3 DEF ConfirmEnds
      <4>2. ch[s].sent = <<>>
        BY <4>1 DEF IInv, ChannelOK
      <4> QED BY <1>4, <4>1, <4>2 DEF In, Sent, Confirmed
    <3> QED BY <3>2, <3>3
  <2>5. CASE ConfirmTimeout(p)
    <3>1. pc[p] = "confirm" /\ slot[p] = s /\ pc'[p] = "unlock" /\ slot' = slot
      BY <1>1, <2>1, <2>5 DEF ConfirmTimeout, Goto
    <3>2. ~ch'[s].open
      BY <1>1, <2>5, <3>1, SomeChannels DEF ConfirmTimeout
    <3> QED BY <2>1, <3>1, <3>2
  <2>6. CASE Unlock(p)
    BY <1>1, <1>2, <2>1, <2>6 DEF Unlock, Goto, channels
  <2>7. CASE Return(p)
    <3>1. /\ pc[p] = "return" /\ pc'[p] = IF result[p] = "ok" THEN "done" ELSE "wait"
          /\ result' = result
      BY <1>1, <2>7 DEF Return, Goto
    <3>2. CASE slot[p] = s /\ ~ch[s].open
      <4>1. ch'[s] = NoChannel
        BY <1>1, <2>7, <3>2 DEF Return, GiveBack
      <4>2. ~In(p, s)'
        BY <4>1, SomeChannels DEF In, Sent, Confirmed
      <4> QED BY <4>2
    <3>3. CASE result[p] = "ok" /\ p \notin Confirming
      BY <2>1, <3>1, <3>3
    <3>4. CASE closeCh
      BY <1>2, <2>1, <3>1, <3>4
    <3> QED BY <2>1, <3>1, <3>2, <3>3, <3>4
  <2>8. CASE RetryTick(p)
    <3>1. pc[p] = "wait" /\ pc'[p] \in {"try", "done"}
      BY <1>1, <2>8 DEF RetryTick, Goto
    <3> QED BY <1>2, <2>1, <3>1
  <2>9. CASE RetryClosed(p)
    BY <1>1, <1>2, <2>1, <2>9 DEF RetryClosed, Goto
  <2>10. CASE PushTry(p)
    BY <1>1, <1>2, <2>1, <2>10 DEF PushTry, Goto
  <2>11. pc[p] \notin {"idle", "borrow", "exchange", "topology", "bind"}
    BY <2>1
  <2>12. CASE \/ PushBegin(p) \/ PushBorrow(p) \/ PushBorrowFails(p) \/ BorrowPanics(p)
              \/ \E t \in Slots : BorrowDestroys(p, t)
              \/ DeclareExchange(p) \/ HoldTarget(p)
              \/ \E q \in Queues : BindLock(p, q) \/ BindUnlock(p, q)
              \/ Publish(p) \/ PublishFails(p)
    BY <2>11, <2>12
       DEF PushBegin, PushBorrow, PushBorrowFails, BorrowPanics, BorrowDestroys, DeclareExchange,
           HoldTarget, BindLock, BindUnlock, Publish, PublishFails
  <2> HIDE DEF Goal
  <2> QED
    BY <2>2, <2>3, <2>4, <2>5, <2>6, <2>7, <2>8, <2>9, <2>10, <2>12 DEF PushStep
<1> QED BY <1>3, <1>4, WhatIsIn

----------------------------------------------------------------------------
(***************************************************************************)
(* How many copies of a message there are: AttemptOK.                      *)
(***************************************************************************)

\* The number of copies is a number.
LEMMA CopiesType ==
    ASSUME Types, NEW p \in Pushers
    PROVE  Copies(p) \in Nat /\ stored[p] \in Nat
BY DEF Types, Copies

\* Only sending a message makes another copy of it.
LEMMA CopiesStep ==
    ASSUME IInv, [Next]_vars, NEW p \in Pushers
    PROVE  \/ Copies(p)' <= Copies(p)
           \/ Publish(p) /\ Copies(p)' = Copies(p) + 1
<1> DEFINE S == \E s \in Slots : Sent(p, s)
           T == \E s \in Slots : Sent(p, s)'
<1>1. /\ Copies(p) = stored[p] + IF S THEN 1 ELSE 0
      /\ Copies(p)' = stored'[p] + IF T THEN 1 ELSE 0
      /\ stored[p] \in Nat
  BY CopiesType DEF Copies, IInv
<1>2. OnceOK /\ \A s \in Slots : ch[s].sent \in Seq(Pushers)
  BY DEF IInv, Types, Channel
<1>3. ASSUME stored' = stored, \A s \in Slots : ch'[s].sent = ch[s].sent
      PROVE  T <=> S
  BY <1>3 DEF Sent
<1>4. ASSUME DropStep
      PROVE  \/ stored'[p] = stored[p] /\ (T => S)
             \/ stored'[p] = stored[p] + 1 /\ S /\ ~T
  <2>1. \A s \in Slots : ch'[s].sent \in {<<>>, ch[s].sent}
    BY <1>4 DEF DropStep, Dropped
  <2>2. \A s \in Slots : Sent(p, s)' => Sent(p, s)
    BY <2>1 DEF Sent
  <2>3. ASSUME NEW s \in Slots, Sent(p, s), Dropped(s) PROVE S /\ ~T
    <3>1. \A t \in Slots : Sent(p, t) => t = s
      BY <1>2, <2>3 DEF OnceOK, Sent
    <3>2. ~Sent(p, s)'
      BY <2>3 DEF Dropped, Sent
    <3> QED BY <2>2, <2>3, <3>1, <3>2
  <2>4. CASE stored'[p] = stored[p]
    BY <2>2, <2>4
  <2>5. CASE stored'[p] = stored[p] + 1 /\ \E s \in Slots : Sent(p, s) /\ Dropped(s)
    BY <2>3, <2>5
  <2> HIDE DEF S, T
  <2> QED BY <1>4, <2>4, <2>5 DEF DropStep
<1>5. ASSUME NEW s \in Slots, BrokerTake(s)
      PROVE  \/ stored'[p] = stored[p] /\ (T => S)
             \/ stored'[p] = stored[p] + 1 /\ S /\ ~T
  <2>1. /\ ch[s].sent # <<>> /\ ch'[s].sent = Tail(ch[s].sent)
        /\ \A t \in Slots : t # s => ch'[t] = ch[t]
        /\ \E ack \in BOOLEAN :
             stored'[p] = stored[p] + IF ack /\ p = Head(ch[s].sent) THEN 1 ELSE 0
    BY <1>5, BrokerStep
  <2>2. \A i \in DOMAIN ch'[s].sent :
          i + 1 \in DOMAIN ch[s].sent /\ i + 1 # 1 /\ ch'[s].sent[i] = ch[s].sent[i + 1]
    BY <1>2, <2>1
  <2>3. ASSUME NEW t \in Slots, Sent(p, t)' PROVE Sent(p, t)
    <3>1. CASE t # s
      BY <2>1, <2>3, <3>1 DEF Sent
    <3>2. CASE t = s
      BY <2>2, <2>3, <3>2 DEF Sent
    <3> QED BY <3>1, <3>2
  <2>4. CASE p = Head(ch[s].sent)
    <3>1. 1 \in DOMAIN ch[s].sent /\ ch[s].sent[1] = p
      BY <1>2, <2>1, <2>4
    <3>2. Sent(p, s) /\ \A t \in Slots : Sent(p, t) => t = s
      BY <1>2, <3>1 DEF OnceOK, Sent
    <3>3. ~Sent(p, s)'
      BY <1>2, <2>2, <3>1 DEF OnceOK, Sent
    <3>4. S /\ ~T
      BY <2>3, <3>2, <3>3
    <3> HIDE DEF S, T
    <3> QED BY <1>1, <2>1, <3>4
  <2>5. CASE p # Head(ch[s].sent)
    <3>1. T => S
      BY <2>3
    <3> HIDE DEF S, T
    <3> QED BY <1>1, <2>1, <2>5, <3>1
  <2> QED BY <2>4, <2>5
<1>6. ASSUME NEW r \in Pushers, ConfirmRecv(r) PROVE stored' = stored /\ (T <=> S)
  <2>1. stored' = stored /\ \A s \in Slots : ch'[s].sent = ch[s].sent
    BY <1>6, ConfirmStep
  <2> QED BY <1>3, <2>1
<1>7. ASSUME NEW c \in Consumers, ConsumeOk(c) PROVE stored' = stored /\ (T <=> S)
  <2>1. stored' = stored /\ \A s \in Slots : ch'[s].sent = ch[s].sent
    BY <1>7, ConsumeStep
  <2> QED BY <1>3, <2>1
<1>8. ASSUME NEW r \in Pushers, Publish(r), r # p PROVE stored' = stored /\ (T => S)
  <2>1. /\ stored' = stored /\ slot[r] \in Slots
        /\ \A t \in Slots : t # slot[r] => ch'[t] = ch[t]
        /\ ch'[slot[r]].sent = Append(ch[slot[r]].sent, r)
    BY <1>8, PublishStep
  <2>2. ASSUME NEW t \in Slots, Sent(p, t)' PROVE Sent(p, t)
    <3>1. CASE t # slot[r] BY <2>1, <2>2, <3>1 DEF Sent
    <3>2. CASE t = slot[r]
      <4>1. PICK i \in DOMAIN Append(ch[t].sent, r) : Append(ch[t].sent, r)[i] = p
        BY <2>1, <2>2, <3>2 DEF Sent
      <4>2. i \in DOMAIN ch[t].sent /\ ch[t].sent[i] = p
        BY <1>2, <1>8, <4>1, Extended
      <4> QED BY <4>2 DEF Sent
    <3> QED BY <3>1, <3>2
  <2> QED BY <2>1, <2>2
<1>9. ASSUME Publish(p) PROVE stored' = stored /\ ~S
  <2>1. stored' = stored /\ \A t \in Slots : ~In(p, t)
    BY <1>9, PublishStep
  <2> QED BY <2>1 DEF In
<1>10. \/ DropStep
       \/ \E r \in Pushers : Publish(r) \/ ConfirmRecv(r)
       \/ \E s \in Slots : BrokerTake(s)
       \/ \E c \in Consumers : ConsumeOk(c)
  BY ChannelSteps
<1> HIDE DEF S, T
<1>11. \/ stored'[p] = stored[p] /\ (T => S)
       \/ stored'[p] = stored[p] + 1 /\ S /\ ~T
       \/ Publish(p) /\ stored'[p] = stored[p] /\ ~S
  BY <1>4, <1>5, <1>6, <1>7, <1>8, <1>9, <1>10
<1> QED BY <1>1, <1>11

\* An attempt begins with the counter where the failures left it.
LEMMA AttemptStep ==
    ASSUME IInv, [Next]_vars
    PROVE  AttemptOK'
<1> SUFFICES ASSUME NEW p \in Pushers
             PROVE  /\ Copies(p)' <= AttemptTimes
                    /\ pc'[p] # "done" =>
                         /\ attempt'[p] < AttemptTimes
                         /\ Copies(p)' <= attempt'[p] +
                              IF pc'[p] \in {"confirm", "unlock", "return", "wait"} THEN 1 ELSE 0
  BY DEF AttemptOK, Copies
<1>1. /\ Copies(p) \in Nat /\ Copies(p)' \in Nat /\ attempt[p] \in Nat /\ AttemptTimes \in Nat
      /\ Copies(p) <= AttemptTimes
      /\ pc[p] # "done" =>
           /\ attempt[p] < AttemptTimes
           /\ Copies(p) <= attempt[p] +
                IF pc[p] \in {"confirm", "unlock", "return", "wait"} THEN 1 ELSE 0
  <2>1. Copies(p)' \in Nat
    BY TypesStep, CopiesType DEF Types, Copies
  <2>2. AttemptOK /\ Types
    BY DEF IInv
  <2> QED BY <2>1, <2>2, CopiesType, Names DEF AttemptOK, Types
<1>2. \/ Copies(p)' <= Copies(p)
      \/ Publish(p) /\ Copies(p)' = Copies(p) + 1
  BY CopiesStep
<1>3. /\ pc \in [Threads -> PushPlaces \cup ConsumePlaces] /\ p \in Threads
      /\ attempt \in [Pushers -> 0..AttemptTimes]
  BY Names DEF IInv, Types, Places
<1>4. CASE ~PushBegin(p) /\ ~PushStep(p)
  <2>1. pc'[p] = pc[p] /\ attempt'[p] = attempt[p] /\ ~Publish(p)
    BY <1>4, Others DEF Unchanged, PushStep
  <2> QED BY <1>1, <1>2, <2>1
<1>5. CASE Publish(p)
  <2>1. pc[p] = "topology" /\ pc'[p] \in {"confirm", "unlock"} /\ attempt'[p] = attempt[p]
    BY <1>3, <1>5 DEF Publish, Goto
  <2> QED BY <1>1, <1>2, <2>1
<1>6. CASE RetryTick(p)
  <2>1. /\ pc[p] = "wait" /\ attempt'[p] = attempt[p] + 1
        /\ pc'[p] = IF attempt[p] + 1 < AttemptTimes THEN "try" ELSE "done"
        /\ Copies(p)' <= Copies(p)
    BY <1>2, <1>3, <1>6 DEF RetryTick, Goto, Publish
  <2> QED BY <1>1, <2>1
\* All others keep the counter, and go from before the sending to before it, or
\* from behind it to behind it.
<1>7. ASSUME attempt'[p] = attempt[p], pc[p] # "done", ~Publish(p),
             pc[p] \in {"confirm", "unlock", "return", "wait"} =>
               pc'[p] \in {"confirm", "unlock", "return", "wait", "done"}
      PROVE  /\ Copies(p)' <= AttemptTimes
             /\ pc'[p] # "done" =>
                  /\ attempt'[p] < AttemptTimes
                  /\ Copies(p)' <= attempt'[p] +
                       IF pc'[p] \in {"confirm", "unlock", "return", "wait"} THEN 1 ELSE 0
  BY <1>1, <1>2, <1>7
<1>8. CASE PushBegin(p) \/ PushTry(p) \/ PushBorrow(p) \/ PushBorrowFails(p) \/ BorrowPanics(p)
  <2>1. pc[p] \in {"idle", "try", "borrow"} /\ attempt' = attempt
    BY <1>8 DEF PushBegin, PushTry, PushBorrow, PushBorrowFails, BorrowPanics
  <2>2. ~Publish(p) BY <2>1 DEF Publish
  <2> QED BY <1>7, <2>1, <2>2
<1>9. ASSUME NEW s \in Slots, BorrowDestroys(p, s)
      PROVE  pc[p] = "borrow" /\ attempt' = attempt
  BY <1>9 DEF BorrowDestroys
<1>10. CASE \/ DeclareExchange(p) \/ HoldTarget(p)
             \/ \E q \in Queues : BindLock(p, q) \/ BindUnlock(p, q)
  <2>1. pc[p] \in {"exchange", "topology", "bind"} /\ attempt' = attempt
    BY <1>10 DEF DeclareExchange, HoldTarget, BindLock, BindUnlock
  <2> QED BY <1>5, <1>7, <2>1
<1>11. CASE PublishFails(p)
  <2>1. pc[p] = "topology" /\ attempt' = attempt
    BY <1>11 DEF PublishFails
  <2> QED BY <1>5, <1>7, <2>1
<1>12. CASE ConfirmRecv(p) \/ ConfirmEnds(p) \/ ConfirmTimeout(p) \/ Unlock(p)
  <2>1. pc[p] \in {"confirm", "unlock"} /\ attempt' = attempt /\ pc'[p] \in {"unlock", "return"}
    BY <1>3, <1>12 DEF ConfirmRecv, ConfirmEnds, ConfirmTimeout, Unlock, Goto
  <2>2. ~Publish(p) BY <2>1 DEF Publish
  <2> QED BY <1>7, <2>1, <2>2
<1>13. CASE Return(p) \/ RetryClosed(p)
  <2>1. pc[p] \in {"return", "wait"} /\ attempt' = attempt /\ pc'[p] \in {"wait", "done"}
    BY <1>3, <1>13 DEF Return, RetryClosed, Goto
  <2>2. ~Publish(p) BY <2>1 DEF Publish
  <2> QED BY <1>7, <2>1, <2>2
<1>14. CASE \E s \in Slots : BorrowDestroys(p, s)
  <2>1. pc[p] = "borrow" /\ attempt' = attempt BY <1>9, <1>14
  <2>2. ~Publish(p) BY <2>1 DEF Publish
  <2> QED BY <1>7, <2>1, <2>2
<1> QED
  BY <1>4, <1>5, <1>6, <1>8, <1>10, <1>11, <1>12, <1>13, <1>14 DEF PushStep

----------------------------------------------------------------------------
(***************************************************************************)
(* The invariant holds.                                                    *)
(***************************************************************************)

\* The initial state has the invariant.
LEMMA Starts == Init => IInv
<1> SUFFICES ASSUME Init PROVE IInv
  OBVIOUS
<1>1. /\ ch = [s \in Slots |-> NoChannel] /\ where = [s \in Slots |-> "free"]
      /\ stored = [p \in Pushers |-> 0] /\ lock = [q \in Queues |-> Nobody]
      /\ pc = [t \in Threads |-> "idle"] /\ slot = [t \in Threads |-> Nobody]
      /\ todo = [p \in Pushers |-> {}] /\ attempt = [p \in Pushers |-> 0]
      /\ result = [p \in Pushers |-> "none"]
      /\ ~closed /\ ~closeCh /\ ~connDown /\ ~poolDown
      /\ {closed, closeCh, connDown, poolDown} \subseteq BOOLEAN
  BY DEF Init
<1>2. \A s \in Slots : ch[s].sent = <<>> /\ ch[s].confirms = <<>>
  BY <1>1, SomeChannels
<1>3. Places
  BY <1>1, Names DEF Places, PushPlaces, ConsumePlaces
<1>4. Types
  <2>1. ch \in [Slots -> Channel]
    BY <1>1, SomeChannels
  <2>2. attempt \in [Pushers -> 0..AttemptTimes]
    BY <1>1, Names
  <2> QED BY <1>1, <1>3, <2>1, <2>2 DEF Types
<1>5. HeldOK
  BY <1>1, Names DEF HeldOK, BorrowedOK, HeldPlaces
<1>6. LockOK
  BY <1>1, Names DEF LockOK
<1>7. \A p \in Pushers, s \in Slots : ~Sent(p, s) /\ ~In(p, s)
  BY <1>2 DEF In, Sent, Confirmed
<1>8. WayOK
  BY <1>7 DEF WayOK, Way
<1>9. OnceOK /\ ChannelOK
  BY <1>2 DEF OnceOK, ChannelOK
<1>10. AttemptOK
  <2>1. \A p \in Pushers : Copies(p) = 0
    BY <1>1, <1>7 DEF Copies
  <2>2. \A p \in Pushers : attempt[p] = 0 /\ pc[p] = "idle"
    BY <1>1, Names
  <2> QED BY <2>1, <2>2, Names DEF AttemptOK
<1> QED BY <1>4, <1>5, <1>6, <1>8, <1>9, <1>10 DEF IInv

\* Every step keeps the invariant.
LEMMA Keeps == IInv /\ [Next]_vars => IInv'
BY TypesStep, HeldStep, LockStep, WayStep, OnceStep, ChannelStep, AttemptStep DEF IInv

\* The inductive invariant: every reachable state has it.
THEOREM PublishInvariant == Spec => []IInv
BY Starts, Keeps, PTL DEF Spec

----------------------------------------------------------------------------
(***************************************************************************)
(* NothingHeld and ConfirmedIsStored.                                      *)
(***************************************************************************)

\* A sequence of different messages is not longer than there are pushes.
LEMMA NoLonger ==
    ASSUME NEW q \in Seq(Pushers), \A i, j \in DOMAIN q : q[i] = q[j] => i = j
    PROVE  Len(q) \in 0..Cardinality(Pushers)
<1>1. IsFiniteSet(Pushers) /\ Cardinality(Pushers) \in Nat
  BY PublishAssumption, FS_CardinalityType
<1>2. Len(q) \in Nat /\ DOMAIN q = 1..Len(q)
  OBVIOUS
<1>3. q \in Injection(1..Len(q), Pushers)
  BY <1>2, IsFunction DEF Injection, IsInjective
<1>4. Cardinality(1..Len(q)) <= Cardinality(Pushers)
  BY <1>1, <1>3, FS_Injection
<1>5. Cardinality(1..Len(q)) = Len(q)
  BY SMTT(30), <1>2, FS_Interval
<1> QED BY <1>1, <1>2, <1>4, <1>5

\* The types and the lengths that NothingHeld speaks of.
LEMMA TypesAreRight ==
    ASSUME IInv
    PROVE  TypeOK
<1>1. Types /\ OnceOK /\ AttemptOK
  BY DEF IInv
<1>2. \A s \in Slots : /\ ch[s] \in Channel /\ ch[s].open \in BOOLEAN /\ ch[s].confirm \in BOOLEAN
                       /\ ch[s].sent \in Seq(Pushers)
                       /\ ch[s].confirms \in Seq([msg : Pushers, ack : BOOLEAN])
  BY <1>1 DEF Types, Channel
<1>3. ASSUME NEW s \in Slots PROVE ch[s].sent \in Messages
  <2>1. Len(ch[s].sent) \in 0..Cardinality(Pushers)
    BY <1>1, <1>2, NoLonger DEF OnceOK
  <2>2. ch[s].sent \in [1..Len(ch[s].sent) -> Pushers]
    BY <1>2
  <2> QED BY <2>1, <2>2 DEF Messages
<1>4. ASSUME NEW s \in Slots PROVE ch[s].confirms \in Confirms
  <2> DEFINE c == ch[s].confirms
             m == [i \in 1..Len(c) |-> c[i].msg]
  <2>1. Len(c) \in Nat /\ DOMAIN c = 1..Len(c)
    BY <1>2, IsFunction
  <2>2. c \in [1..Len(c) -> [msg : Pushers, ack : BOOLEAN]]
    BY <1>2, IsFunction
  <2>3. \A i, j \in DOMAIN c : c[i].msg = c[j].msg => i = j
    BY <1>1 DEF OnceOK
  <2> HIDE DEF c
  <2>4. m \in [1..Len(c) -> Pushers]
    BY <2>2
  <2>5. m \in Seq(Pushers) /\ Len(m) = Len(c)
    BY <2>1, <2>4
  <2>6. \A i, j \in DOMAIN m : m[i] = m[j] => i = j
    BY <2>1, <2>3
  <2> HIDE DEF m
  <2>7. Len(c) \in 0..Cardinality(Pushers)
    BY <2>5, <2>6, NoLonger
  <2>8. c \in Confirms
    BY <2>2, <2>7 DEF Confirms
  <2> QED BY <2>8 DEF c
<1>5. stored \in [Pushers -> 0..AttemptTimes]
  <2>1. \A p \in Pushers : stored[p] \in 0..AttemptTimes
    BY <1>1, CopiesType, Names DEF AttemptOK, Copies
  <2> QED BY <1>1, <2>1 DEF Types
<1> QED BY <1>1, <1>2, <1>3, <1>4, <1>5 DEF Types, TypeOK

\* A push or a consumer that has ended, in whatever error, holds no channel and no
\* queue lock, save that a panic over the nil connection keeps one slot for good;
\* and a message was stored, or may still be stored, no more often than it was
\* tried.
THEOREM NothingStaysHeld == Spec => []NothingHeld
<1>1. IInv => NothingHeld
  <2> SUFFICES ASSUME IInv PROVE NothingHeld
    OBVIOUS
  <2>1. Types /\ HeldOK /\ LockOK /\ OnceOK /\ AttemptOK
    BY DEF IInv
  <2>2. ASSUME NEW p \in Pushers
        PROVE  stored[p] + Cardinality({x \in Slots \X (1..Cardinality(Pushers)) :
                   x[2] <= Len(ch[x[1]].sent) /\ ch[x[1]].sent[x[2]] = p}) <= AttemptTimes
    <3> DEFINE n == [s \in Slots |-> Len(ch[s].sent)]
               X == {x \in Slots \X (1..Cardinality(Pushers)) :
                       x[2] <= n[x[1]] /\ ch[x[1]].sent[x[2]] = p}
               Y == {x \in Slots \X (1..Cardinality(Pushers)) :
                       x[2] <= Len(ch[x[1]].sent) /\ ch[x[1]].sent[x[2]] = p}
    <3>1. \A s \in Slots : n[s] \in Nat /\ n[s] <= Len(ch[s].sent)
      BY <2>1 DEF Types, Channel
    <3>2. X = Y
      OBVIOUS
    <3>3. /\ Cardinality(X) = IF X = {} THEN 0 ELSE 1
          /\ X # {} => \E s \in Slots : Sent(p, s)
      <4> HIDE DEF n
      <4> QED BY <2>1, <3>1, ClosedOnce
    <3> HIDE DEF X, Y
    <3>4. stored[p] + Cardinality(X) <= Copies(p)
      BY <2>1, <3>3, CopiesType DEF Copies
    <3>5. Copies(p) \in Nat /\ Copies(p) <= AttemptTimes /\ stored[p] \in Nat
      BY <2>1, CopiesType DEF AttemptOK
    <3>6. Cardinality(X) \in Nat
      BY <3>3
    <3>7. stored[p] + Cardinality(Y) <= AttemptTimes
      BY <3>2, <3>4, <3>5, <3>6, Names
    <3> QED BY <3>7 DEF Y
  <2>3. ASSUME NEW t \in Threads, pc[t] \in {"idle", "done", "wait", "panicked"}
        PROVE  /\ \A q \in Queues : lock[q] # t
               /\ \A s \in Slots : where[s] = t => pc[t] = "panicked" /\ s = slot[t]
    <3>1. pc[t] # "panicked" => slot[t] = Nobody
      <4>1. CASE t \in Pushers
        BY <2>1, <2>3, <4>1 DEF HeldOK, HeldPlaces
      <4>2. CASE t \in Consumers
        BY <2>1, <2>3, <4>2 DEF HeldOK, Types, Places, ConsumePlaces
      <4> QED BY <4>1, <4>2, Names
    <3>2. \A s \in Slots : where[s] = t => slot[t] = s /\ s # Nobody
      BY <2>1, Names DEF HeldOK, BorrowedOK
    <3>3. \A q \in Queues : lock[q] # t
      BY <2>1, <2>3 DEF LockOK, LockPlaces
    <3> QED BY <3>1, <3>2, <3>3
  <2> QED BY <2>2, <2>3, TypesAreRight DEF NothingHeld
<1> QED BY <1>1, PublishInvariant, PTL

\* A push in confirm mode reports success, while the operator is open, only for a
\* message that the broker has stored: the confirmation it takes is its own.
THEOREM ConfirmationIsOwn == Spec => ConfirmedIsStored
<1>1. ASSUME IInv, [Next]_vars, NEW p \in Confirming,
             result[p] # "ok", result'[p] = "ok", ~closed
      PROVE  stored[p] > 0
  <2>1. p \in Pushers /\ result \in [Pushers -> {"none", "ok", "error", "closed"}] /\ ~closeCh
    BY <1>1, Names DEF IInv, Types
  <2>2. PushBegin(p) \/ PushStep(p)
    BY <1>1, <2>1, Others DEF Unchanged
  <2>3. ConfirmRecv(p) /\ Head(ch[slot[p]].confirms).ack
    <3>1. ASSUME UNCHANGED result PROVE FALSE
      BY <1>1, <3>1
    <3>2. CASE PushBegin(p) \/ PushTry(p) \/ PushBorrow(p) \/ PushBorrowFails(p) \/ BorrowPanics(p)
      BY <1>1, <2>1, <3>2 DEF PushBegin, PushTry, PushBorrow, PushBorrowFails, BorrowPanics
    <3>3. CASE \/ \E s \in Slots : BorrowDestroys(p, s)
               \/ DeclareExchange(p) \/ HoldTarget(p)
               \/ \E q \in Queues : BindLock(p, q) \/ BindUnlock(p, q)
               \/ PublishFails(p) \/ ConfirmEnds(p) \/ ConfirmTimeout(p)
               \/ Unlock(p) \/ Return(p)
      BY <3>1, <3>3
         DEF BorrowDestroys, DeclareExchange, HoldTarget, BindLock, BindUnlock, PublishFails,
             ConfirmEnds, ConfirmTimeout, Unlock, Return
    <3>4. CASE Publish(p)
      BY <1>1, <3>1, <3>4 DEF Publish
    <3>5. CASE RetryTick(p) \/ RetryClosed(p)
      BY <1>1, <2>1, <3>5 DEF RetryTick, RetryClosed
    <3>6. CASE ConfirmRecv(p)
      BY <3>1, <3>6 DEF ConfirmRecv
    <3> QED BY <2>2, <3>2, <3>3, <3>4, <3>5, <3>6 DEF PushStep
  <2>4. PICK s \in Slots : s = slot[p]
    BY <1>1, <2>1, <2>3, ConfirmStep
  <2>5. /\ ch[s].confirms # <<>>
        /\ ch[s].confirms \in Seq([msg : Pushers, ack : BOOLEAN])
    BY <1>1, <2>1, <2>3, <2>4, ConfirmStep DEF IInv, Types, Channel
  <2>6. 1 \in DOMAIN ch[s].confirms /\ ch[s].confirms[1] = Head(ch[s].confirms)
    BY <2>5
  <2>7. ch[s].confirms[1].ack /\ ch[s].confirms[1].msg = p
    BY <1>1, <2>1, <2>3, <2>4, <2>6, HeadIsMine
  <2> QED BY <1>1, <2>6, <2>7 DEF IInv, ChannelOK
<1>2. IInv /\ [Next]_vars =>
        [\A p \in Confirming :
            result[p] # "ok" /\ result'[p] = "ok" /\ ~closed => stored[p] > 0]_vars
  BY <1>1
<1> QED BY <1>2, PublishInvariant, PTL DEF Spec, ConfirmedIsStored

----------------------------------------------------------------------------
(***************************************************************************)
(* In which order slots and queue locks are taken: NobodyWaits.            *)
(***************************************************************************)

\* Before it declares anything a push holds the lock of its own queue at most, and
\* one that is not delayed takes that lock last.
AtTopology(p) ==
    pc[p] = "topology" => \A q \in Queues :
        lock[q] = p => q = Target[p] /\ (p \in Delayed \/ todo[p] = {})

\* While it binds a queue it holds the lock of that queue, and a delayed push that
\* of its own.
AtBind(p) ==
    pc[p] = "bind" => \E q \in todo[p] :
        /\ lock[q] = p /\ (p \in Delayed => q # Target[p])
        /\ \A r \in Queues : lock[r] = p => r = q \/ (p \in Delayed /\ r = Target[p])

PushKeeps(p) == todo[p] \subseteq Bound[p] /\ AtTopology(p) /\ AtBind(p)

\* A consumer locks the queue it reads.
ConsumerKeeps(c) == \A q \in Queues : lock[q] = c => q = Target[c]

\* Who holds which lock; with IInv it is inductive.
KeptOK ==
    /\ \A p \in Pushers : PushKeeps(p)
    /\ \A c \in Consumers : ConsumerKeeps(c)

\* The step of a thread leaves the others the locks and the queues they had.
LEMMA KeptMove ==
    ASSUME Types, KeptOK, NEW t \in Threads, NEW l, Goto(t, l),
           todo' = todo \/ \E T : todo' = [todo EXCEPT ![t] = T],
           \A q \in Queues : \/ lock'[q] = lock[q]
                             \/ lock[q] \in {t, Nobody} /\ lock'[q] \in {t, Nobody},
           t \in Pushers => PushKeeps(t)',
           t \in Consumers => ConsumerKeeps(t)'
    PROVE  KeptOK'
<1>1. \A u \in Threads : u # t => pc'[u] = pc[u] /\ \A q \in Queues : lock'[q] = u <=> lock[q] = u
  BY Names DEF Goto, Types, Places
<1>2. ASSUME NEW p \in Pushers, p # t PROVE PushKeeps(p)'
  <2>1. todo'[p] = todo[p] /\ pc'[p] = pc[p] /\ \A q \in Queues : lock'[q] = p <=> lock[q] = p
    BY <1>1, <1>2, Names DEF Types
  <2>2. PushKeeps(p) /\ todo[p] \subseteq Queues
    BY <1>2 DEF KeptOK, Types
  <2>3. AtTopology(p)'
    BY <2>1, <2>2 DEF PushKeeps, AtTopology
  <2>4. AtBind(p)'
    BY <2>1, <2>2 DEF PushKeeps, AtBind
  <2> QED BY <2>1, <2>2, <2>3, <2>4 DEF PushKeeps
<1>3. ASSUME NEW c \in Consumers, c # t PROVE ConsumerKeeps(c)'
  BY <1>1, <1>3, Names DEF KeptOK, ConsumerKeeps
<1> QED BY <1>2, <1>3 DEF KeptOK

\* A push that goes where it needs no lock, with what it bound or nothing left.
LEMMA KeptPush ==
    ASSUME Types, KeptOK, NEW p \in Pushers, NEW l, Goto(p, l), l \notin {"topology", "bind"},
           todo' = todo \/ \E T \in SUBSET Bound[p] : todo' = [todo EXCEPT ![p] = T],
           \A q \in Queues : \/ lock'[q] = lock[q]
                             \/ lock[q] \in {p, Nobody} /\ lock'[q] \in {p, Nobody}
    PROVE  KeptOK'
<1>1. pc'[p] = l /\ p \in Threads /\ p \notin Consumers
  BY Names DEF Goto, Types, Places
<1>2. todo'[p] \subseteq Bound[p]
  BY DEF Types, KeptOK, PushKeeps
<1>3. PushKeeps(p)'
  BY <1>1, <1>2 DEF PushKeeps, AtTopology, AtBind
<1>4. todo' = todo \/ \E T : todo' = [todo EXCEPT ![p] = T]
  OBVIOUS
<1> QED BY <1>1, <1>3, <1>4, KeptMove

\* A consumer that takes no lock.
LEMMA KeptConsumer ==
    ASSUME Types, KeptOK, NEW c \in Consumers, NEW l, Goto(c, l), todo' = todo,
           \A q \in Queues : lock'[q] = lock[q] \/ (lock[q] = c /\ lock'[q] = Nobody)
    PROVE  KeptOK'
<1>1. c \in Threads /\ c \notin Pushers /\ c # Nobody
  BY Names
<1>2. ConsumerKeeps(c)'
  BY <1>1 DEF KeptOK, ConsumerKeeps
<1> QED BY <1>1, <1>2, KeptMove

\* What Released leaves of the locks.
LEMMA ReleasedLocks ==
    ASSUME NEW t \in Threads, lock' = Released(t)
    PROVE  \A q \in Queues : lock'[q] = lock[q] \/ (lock[q] = t /\ lock'[q] = Nobody)
BY DEF Released

\* A push that locks the queue it names.
LEMMA KeptHoldTarget ==
    ASSUME Types, KeptOK, NEW p \in Pushers, HoldTarget(p)
    PROVE  KeptOK'
<1>1. /\ p \in Threads /\ p \notin Consumers /\ pc[p] = "topology" /\ todo' = todo
      /\ p \in Delayed \/ todo[p] = {}
      /\ lock[Target[p]] = Nobody /\ lock' = [lock EXCEPT ![Target[p]] = p]
  BY Names DEF HoldTarget
<1>2. PICK l \in {"topology", "unlock"} : Goto(p, l)
  BY DEF HoldTarget
<1>3. pc'[p] = l
  BY <1>1, <1>2 DEF Goto, Types, Places
<1>4. \A q \in Queues : IF q = Target[p] THEN lock[q] = Nobody /\ lock'[q] = p
                                       ELSE lock'[q] = lock[q]
  BY <1>1 DEF Types
<1>5. PushKeeps(p)'
  BY <1>1, <1>2, <1>3, <1>4 DEF KeptOK, PushKeeps, AtTopology, AtBind
<1> QED BY <1>1, <1>2, <1>4, <1>5, KeptMove

\* A push that locks a queue it binds.
LEMMA KeptBindLock ==
    ASSUME Types, KeptOK, NEW p \in Pushers, NEW q \in Queues, BindLock(p, q)
    PROVE  KeptOK'
<1>1. /\ p \in Threads /\ p \notin Consumers /\ p # Nobody
      /\ pc[p] = "topology" /\ todo' = todo /\ Goto(p, "bind")
      /\ q \in todo[p] /\ lock[q] = Nobody /\ lock' = [lock EXCEPT ![q] = p]
      /\ p \in Delayed => Holds(p)
  BY Names DEF BindLock
<1>2. pc'[p] = "bind"
  BY <1>1 DEF Goto, Types, Places
<1>3. \A r \in Queues : lock'[r] = IF r = q THEN p ELSE lock[r]
  BY <1>1 DEF Types
<1>4. \A r \in Queues : lock[r] = p => p \in Delayed /\ r = Target[p]
  BY <1>1 DEF KeptOK, PushKeeps, AtTopology
<1>5. p \in Delayed => q # Target[p]
  BY <1>1 DEF Holds
<1>6. \A r \in Queues : lock'[r] = p => r = q \/ (p \in Delayed /\ r = Target[p])
  BY <1>3, <1>4
<1>7. AtBind(p)'
  BY <1>1, <1>3, <1>5, <1>6 DEF AtBind
<1>8. PushKeeps(p)'
  BY <1>1, <1>2, <1>7 DEF KeptOK, PushKeeps, AtTopology
<1>9. \A r \in Queues : \/ lock'[r] = lock[r]
                        \/ lock[r] \in {p, Nobody} /\ lock'[r] \in {p, Nobody}
  BY <1>1, <1>3
<1> QED BY <1>1, <1>8, <1>9, KeptMove

\* A push that unlocks a queue it has bound, or could not bind.
LEMMA KeptBindUnlock ==
    ASSUME Types, KeptOK, NEW p \in Pushers, NEW q \in Queues, BindUnlock(p, q)
    PROVE  KeptOK'
<1>1. /\ p \in Threads /\ p \notin Consumers /\ p # Nobody /\ pc[p] = "bind"
      /\ lock[q] = p /\ (p \in Delayed => q # Target[p])
      /\ lock' = [lock EXCEPT ![q] = Nobody]
  BY Names DEF BindUnlock
<1>2. \A r \in Queues : lock'[r] = IF r = q THEN Nobody ELSE lock[r]
  BY <1>1 DEF Types
<1>3. \A r \in Queues : \/ lock'[r] = lock[r]
                        \/ lock[r] \in {p, Nobody} /\ lock'[r] \in {p, Nobody}
  BY <1>1, <1>2
<1>4. CASE UNCHANGED todo /\ Goto(p, "unlock")
  BY <1>3, <1>4, KeptPush
<1>5. CASE todo' = [todo EXCEPT ![p] = @ \ {q}] /\ Goto(p, "topology")
  <2>1. pc'[p] = "topology" /\ todo'[p] \subseteq Bound[p]
    BY <1>1, <1>5 DEF Goto, Types, Places, KeptOK, PushKeeps
  <2>2. \A r \in Queues : lock[r] = p => r = q \/ (p \in Delayed /\ r = Target[p])
    BY <1>1 DEF KeptOK, PushKeeps, AtBind
  <2>3. \A r \in Queues : lock'[r] = p => r = Target[p] /\ p \in Delayed
    BY <1>1, <1>2, <2>2
  <2>4. PushKeeps(p)'
    BY <2>1, <2>3 DEF PushKeeps, AtTopology, AtBind
  <2>5. \E T : todo' = [todo EXCEPT ![p] = T]
    BY <1>5
  <2> QED BY <1>1, <1>3, <1>5, <2>4, <2>5, KeptMove
<1> QED BY <1>4, <1>5 DEF BindUnlock

\* Every step keeps KeptOK.
LEMMA KeptStep ==
    ASSUME IInv, KeptOK, [Next]_vars
    PROVE  KeptOK'
<1>1. Types /\ LockOK
  BY DEF IInv
<1>2. ASSUME UNCHANGED <<lock, pc, todo>> PROVE KeptOK'
  BY <1>2 DEF KeptOK, PushKeeps, ConsumerKeeps, AtTopology, AtBind
<1>3. ASSUME NEW t \in Threads, NEW s \in Slots, BorrowDestroys(t, s) PROVE KeptOK'
  BY <1>2, <1>3 DEF BorrowDestroys
<1>4. ASSUME NEW p \in Pushers, PushBegin(p) \/ PushStep(p) PROVE KeptOK'
  <2>1. p \in Threads /\ p # Nobody
    BY Names
  <2>2. CASE PushBegin(p) \/ PushTry(p) \/ PushBorrowFails(p) \/ RetryTick(p) \/ RetryClosed(p)
    <3>1. lock' = lock /\ todo' = todo /\ \E l \in {"try", "done", "borrow", "wait"} : Goto(p, l)
      BY <2>2 DEF PushBegin, PushTry, PushBorrowFails, RetryTick, RetryClosed
    <3> QED BY <1>1, <3>1, KeptPush
  <2>3. CASE BorrowPanics(p)
    BY <1>1, <2>1, <2>3, KeptPush, ReleasedLocks DEF BorrowPanics
  <2>4. CASE PushBorrow(p) \/ DeclareExchange(p)
    <3>1. /\ pc[p] \in {"borrow", "exchange"} /\ lock' = lock
          /\ todo' = todo \/ todo' = [todo EXCEPT ![p] = Bound[p]]
          /\ \E l \in {"exchange", "topology", "unlock"} : Goto(p, l)
      BY <2>4 DEF PushBorrow, DeclareExchange
    <3>2. \A q \in Queues : lock[q] # p
      BY <1>1, <2>1, <3>1 DEF LockOK, LockPlaces
    <3>3. pc'[p] \in {"exchange", "topology", "unlock"} /\ todo'[p] \subseteq Bound[p]
      BY <1>1, <2>1, <3>1 DEF Goto, Types, Places, KeptOK, PushKeeps
    <3>4. PushKeeps(p)'
      BY <3>1, <3>2, <3>3 DEF PushKeeps, AtTopology, AtBind
    <3>5. todo' = todo \/ \E T : todo' = [todo EXCEPT ![p] = T]
      BY <3>1
    <3> QED BY <1>1, <2>1, <3>1, <3>4, <3>5, KeptMove, Names
  <2>5. CASE Publish(p) \/ PublishFails(p) \/ ConfirmRecv(p) \/ ConfirmEnds(p) \/ ConfirmTimeout(p)
    <3>1. lock' = lock /\ todo' = todo /\ \E l \in {"confirm", "unlock"} : Goto(p, l)
      BY <2>5 DEF Publish, PublishFails, ConfirmRecv, ConfirmEnds, ConfirmTimeout
    <3> QED BY <1>1, <3>1, KeptPush
  <2>6. CASE Unlock(p)
    BY <1>1, <2>1, <2>6, KeptPush, ReleasedLocks DEF Unlock
  <2>7. CASE Return(p)
    <3>1. lock' = lock /\ todo' = [todo EXCEPT ![p] = {}] /\ \E l \in {"done", "wait"} : Goto(p, l)
      BY <2>7 DEF Return
    <3> QED BY <1>1, <3>1, KeptPush
  <2> QED
    BY <1>1, <1>3, <1>4, <2>1, <2>2, <2>3, <2>4, <2>5, <2>6, <2>7,
       KeptHoldTarget, KeptBindLock, KeptBindUnlock DEF PushStep
<1>5. ASSUME NEW c \in Consumers, ConsumeLock(c) \/ SetupStep(c) \/ Reconsume(c) \/ ConsumeEnds(c)
      PROVE  KeptOK'
  <2>1. c \in Threads /\ c \notin Pushers /\ c # Nobody
    BY Names
  <2>2. CASE ConsumeLock(c)
    <3>1. /\ lock[Target[c]] = Nobody /\ lock' = [lock EXCEPT ![Target[c]] = c]
          /\ todo' = todo /\ Goto(c, "ready")
      BY <2>2 DEF ConsumeLock
    <3>2. \A q \in Queues : IF q = Target[c] THEN lock[q] = Nobody /\ lock'[q] = c
                                           ELSE lock'[q] = lock[q]
      BY <1>1, <3>1 DEF Types
    <3>3. ConsumerKeeps(c)'
      BY <3>2 DEF KeptOK, ConsumerKeeps
    <3> QED BY <1>1, <2>1, <3>1, <3>2, <3>3, KeptMove
  <2>3. CASE ConsumeReady(c) \/ ConsumeBorrow(c) \/ Reconsume(c) \/ ConsumeEnds(c)
    <3>1. lock' = lock /\ todo' = todo /\ \E l : Goto(c, l)
      BY <2>3 DEF ConsumeReady, ConsumeBorrow, Reconsume, ConsumeEnds
    <3> QED BY <1>1, <3>1, KeptConsumer
  <2>4. CASE ConsumeOk(c) \/ ConsumeFails(c) \/ SetupPanics(c) \/ BorrowPanics(c)
    <3>1. lock' = Released(c) /\ todo' = todo /\ \E l : Goto(c, l)
      BY <2>1, <2>4 DEF ConsumeOk, ConsumeFails, SetupPanics, BorrowPanics
    <3> QED BY <1>1, <2>1, <3>1, KeptConsumer, ReleasedLocks
  <2> QED BY <1>3, <1>5, <2>1, <2>2, <2>3, <2>4 DEF SetupStep
<1>6. ASSUME NEW s \in Slots, BrokerTake(s) \/ ChannelDies(s) PROVE KeptOK'
  BY <1>2, <1>6 DEF BrokerTake, ChannelDies
<1>7. CASE Close \/ UNCHANGED vars
  BY <1>2, <1>7 DEF Close, CloseMark, CloseSignal, CloseConn, ClosePools, vars
<1> QED BY <1>4, <1>5, <1>6, <1>7 DEF Next

\* Somebody waits for nobody.
SomebodyGoes ==
    \/ \E p \in Pushers : CanGoOn(p)
    \/ \E c \in Consumers : lock[Target[c]] = c /\ CanSetUp(c)

\* A slot that nobody can have is in the hands of a thread of its pool.
LEMMA SlotOfAThread ==
    ASSUME IInv, NEW t \in Threads, ~CanBorrow(t), NEW s \in PoolOf(t)
    PROVE  where[s] \in Threads /\ slot[where[s]] = s /\ s \in PoolOf(where[s])
<1>1. Types /\ BorrowedOK /\ s \in Slots /\ s # Nobody
  BY Names DEF IInv, HeldOK
<1>2. where[s] \in Threads
  BY <1>1 DEF CanBorrow, Types
<1> QED BY <1>1, <1>2 DEF BorrowedOK

\* Who shares the plain pool finds a slot: all others together cannot hold them all.
LEMMA PlainSlotLeft ==
    ASSUME IInv, PoolsSuffice,
           NEW t \in Threads, t \notin Confirming, slot[t] = Nobody
    PROVE  CanBorrow(t)
<1> DEFINE S == PlainSlots
           N == Consumers \cup (Pushers \ Confirming)
           f == [s \in S |-> where[s]]
<1> SUFFICES ASSUME ~CanBorrow(t) PROVE FALSE
  OBVIOUS
<1>1. PoolOf(t) = S /\ t \in N
  BY Names DEF PoolOf
<1>2. \A s \in S : where[s] \in Threads /\ slot[where[s]] = s /\ s \in PoolOf(where[s])
  BY <1>1, SlotOfAThread
<1>3. \A s \in S : where[s] \in N \ {t}
  <2> TAKE s \in S
  <2>1. where[s] \notin Confirming
    BY <1>2, Names
  <2>2. s # Nobody
    BY Names
  <2> QED BY <1>2, <2>1, <2>2, Names
<1>4. f \in Injection(S, N \ {t})
  BY <1>2, <1>3 DEF Injection, IsInjective
<1>5. IsFiniteSet(N)
  <2>1. IsFiniteSet(Consumers) /\ IsFiniteSet(Pushers)
    BY PublishAssumption DEF PoolsSuffice
  <2>2. IsFiniteSet(Pushers \ Confirming)
    BY <2>1, FS_Difference
  <2> QED BY <2>1, <2>2, FS_Union
<1>6. Cardinality(N) \in Nat /\ Cardinality(S) >= Cardinality(N)
  BY <1>5, FS_CardinalityType DEF PoolsSuffice
<1>7. IsFiniteSet(N \ {t}) /\ Cardinality(N \ {t}) = Cardinality(N) - 1
  BY <1>1, <1>5, FS_RemoveElement
<1>8. Cardinality(S) <= Cardinality(N \ {t}) /\ Cardinality(S) \in Nat
  <2>1. IsFiniteSet(S)
    BY DEF PoolsSuffice
  <2> HIDE DEF N, f
  <2> QED BY <1>4, <1>7, <2>1, FS_Injection, FS_CardinalityType
<1> QED BY <1>6, <1>7, <1>8

\* Who holds a queue lock goes on, unless it is a delayed push about to bind: a
\* consumer finds a slot, a push binds at most one queue and then unlocks it.
LEMMA HolderGoes ==
    ASSUME IInv, KeptOK, PoolsSuffice,
           NEW q \in Queues, lock[q] \in Threads,
           ~(lock[q] \in Delayed /\ pc[lock[q]] = "topology")
    PROVE  SomebodyGoes
<1> DEFINE t == lock[q]
<1>1. pc[t] \in LockPlaces(t)
  BY DEF IInv, LockOK
<1>2. CASE t \in Consumers
  <2>1. t \notin Pushers /\ t \notin Confirming /\ t \in Threads
    BY <1>2, Names
  <2>2. Target[t] = q
    BY <1>2 DEF KeptOK, ConsumerKeeps
  <2>3. pc[t] \in {"ready", "borrow", "setup"}
    BY <1>1, <2>1 DEF LockPlaces
  <2>4. pc[t] = "borrow" => CanBorrow(t)
    BY <1>2, <2>1, PlainSlotLeft DEF IInv, HeldOK
  <2> QED BY <1>2, <2>2, <2>3, <2>4 DEF SomebodyGoes, CanSetUp
<1>3. CASE t \in Pushers
  <2>1. pc[t] \in {"topology", "bind", "confirm", "unlock"}
    BY <1>1, <1>3 DEF LockPlaces
  <2>2. CASE pc[t] = "topology"
    <3>1. t \notin Delayed
      BY <2>2
    <3>2. q = Target[t] /\ todo[t] = {}
      BY <1>3, <2>2, <3>1 DEF KeptOK, PushKeeps, AtTopology
    <3>3. Holds(t)
      BY <3>2 DEF Holds
    <3> QED BY <1>3, <2>2, <3>2, <3>3 DEF SomebodyGoes, CanGoOn
  <2>3. CASE pc[t] \in {"bind", "confirm", "unlock"}
    BY <1>3, <2>3 DEF SomebodyGoes, CanGoOn
  <2> QED BY <2>1, <2>2, <2>3
<1> QED BY <1>2, <1>3, Names

\* A delayed push that holds the lock of its delay queue waits only for the lock of
\* a queue it binds, which no other delayed push holds while it waits.
LEMMA DelayedGoes ==
    ASSUME IInv, KeptOK, PoolsSuffice, DelayQueuesApart,
           NEW p \in Delayed, pc[p] = "topology", Holds(p)
    PROVE  SomebodyGoes
<1>1. p \in Pushers /\ todo[p] \subseteq Bound[p] /\ todo[p] \subseteq Queues
  BY PublishAssumption DEF IInv, Types, KeptOK, PushKeeps
<1>2. CASE todo[p] = {}
  BY <1>1, <1>2 DEF SomebodyGoes, CanGoOn
<1>3. ASSUME NEW q \in todo[p] PROVE SomebodyGoes
  <2>1. CASE lock[q] = Nobody
    BY <1>1, <2>1 DEF SomebodyGoes, CanGoOn
  <2>2. CASE lock[q] \in Threads
    <3>1. ASSUME lock[q] \in Delayed, pc[lock[q]] = "topology" PROVE FALSE
      <4>1. lock[q] \in Pushers
        BY <3>1, PublishAssumption
      <4>2. q = Target[lock[q]]
        BY <1>1, <3>1, <4>1 DEF KeptOK, PushKeeps, AtTopology
      <4> QED BY <1>1, <3>1, <4>2 DEF DelayQueuesApart
    <3> QED BY <1>1, <2>2, <3>1, HolderGoes
  <2> QED BY <1>1, <2>1, <2>2 DEF IInv, Types
<1> QED BY <1>2, <1>3

\* So who waits for a queue lock waits for somebody who goes on, or for one that does.
LEMMA LockedGoes ==
    ASSUME IInv, KeptOK, PoolsSuffice, DelayQueuesApart,
           NEW q \in Queues, lock[q] # Nobody
    PROVE  SomebodyGoes
<1> DEFINE t == lock[q]
<1>1. t \in Threads
  BY DEF IInv, Types
<1>2. CASE t \in Delayed /\ pc[t] = "topology"
  <2>1. t \in Pushers
    BY <1>2, PublishAssumption
  <2>2. Holds(t)
    BY <1>2, <2>1 DEF KeptOK, PushKeeps, AtTopology, Holds
  <2> QED BY <1>2, <2>2, DelayedGoes
<1> QED BY <1>1, <1>2, HolderGoes

\* A push that has a slot goes on, or waits for a queue lock.
LEMMA BorrowerGoes ==
    ASSUME IInv, KeptOK, PoolsSuffice, DelayQueuesApart,
           NEW p \in Pushers, pc[p] \in HeldPlaces \ {"panicked"}
    PROVE  SomebodyGoes
<1>1. CASE pc[p] # "topology"
  BY <1>1 DEF HeldPlaces, SomebodyGoes, CanGoOn
<1>2. CASE pc[p] = "topology" /\ p \in Delayed
  <2>1. Target[p] \in Queues
    BY <1>2 DEF DelayQueuesApart
  <2>2. CASE lock[Target[p]] = Nobody
    BY <1>2, <2>1, <2>2 DEF SomebodyGoes, CanGoOn
  <2> QED BY <2>1, <2>2, LockedGoes
<1>3. CASE pc[p] = "topology" /\ p \notin Delayed /\ todo[p] = {}
  <2>1. CASE Target[p] \in Queues /\ lock[Target[p]] # Nobody
    BY <2>1, LockedGoes
  <2>2. CASE ~(Target[p] \in Queues /\ lock[Target[p]] # Nobody)
    BY <1>3, <2>2 DEF SomebodyGoes, CanGoOn
  <2> QED BY <2>1, <2>2
<1>4. CASE pc[p] = "topology" /\ p \notin Delayed /\ todo[p] # {}
  <2>1. PICK q \in todo[p] : q \in Queues
    BY <1>4 DEF IInv, Types
  <2>2. CASE lock[q] = Nobody
    BY <1>4, <2>1, <2>2 DEF SomebodyGoes, CanGoOn
  <2> QED BY <2>1, <2>2, LockedGoes
<1> QED BY <1>1, <1>2, <1>3, <1>4

\* The invariant about locks holds.
THEOREM LocksAreOrdered == Spec => []KeptOK
<1>1. Init => KeptOK
  <2> SUFFICES ASSUME Init PROVE KeptOK
    OBVIOUS
  <2>1. /\ \A p \in Pushers : pc[p] = "idle" /\ todo[p] = {}
        /\ \A q \in Queues : lock[q] = Nobody
    BY Names DEF Init
  <2> QED BY <2>1, Names DEF KeptOK, PushKeeps, ConsumerKeeps, AtTopology, AtBind
<1>2. IInv /\ KeptOK /\ [Next]_vars => KeptOK'
  BY KeptStep
<1> QED BY <1>1, <1>2, PublishInvariant, PTL DEF Spec

\* Pools and queue locks are never waited for in a circle: BorrowObject and the
\* locks of QueueLockManager keep no push from going on for ever, provided the
\* plain pool has enough slots, panics leave the confirm pool one, and delay queues
\* are no targets of bindings.
THEOREM NobodyEverWaits ==
    ASSUME PoolsSuffice, DelayQueuesApart
    PROVE  Spec => []NobodyWaits
<1>1. IInv /\ KeptOK => NobodyWaits
  <2> SUFFICES ASSUME IInv, KeptOK, NEW p \in Pushers,
                      pc[p] \notin {"idle", "done", "panicked"},
                      Confirming # {} => ConfirmSlots \ Kept # {}
               PROVE  SomebodyGoes
    BY DEF NobodyWaits, SomebodyGoes
  <2>1. pc[p] \in PushPlaces /\ p \in Threads
    BY Names DEF IInv, Types, Places
  <2>2. CASE pc[p] \in {"try", "wait"} \/ (pc[p] = "borrow" /\ CanBorrow(p))
    BY <2>2 DEF SomebodyGoes, CanGoOn
  <2>3. CASE pc[p] \in HeldPlaces
    BY <2>3, BorrowerGoes
  <2>4. CASE pc[p] = "borrow" /\ ~CanBorrow(p)
    <3>1. slot[p] = Nobody
      BY <2>4 DEF IInv, HeldOK, HeldPlaces
    <3>2. p \in Confirming
      BY <2>1, <2>4, <3>1, PlainSlotLeft
    <3>3. PICK s \in ConfirmSlots \ Kept : s \in PoolOf(p) /\ s \in Slots /\ s # Nobody
      BY <3>2, Names
    <3>4. where[s] \in Threads /\ slot[where[s]] = s /\ s \in PoolOf(where[s])
      BY <2>1, <2>4, <3>3, SlotOfAThread
    <3>5. where[s] \in Pushers
      BY <3>3, <3>4, Names
    <3>6. pc[where[s]] \in HeldPlaces \ {"panicked"}
      BY <3>3, <3>4, <3>5 DEF IInv, HeldOK, Kept
    <3> QED BY <3>5, <3>6, BorrowerGoes
  <2> QED BY <2>1, <2>2, <2>3, <2>4 DEF PushPlaces, HeldPlaces
<1> QED BY <1>1, PublishInvariant, LocksAreOrdered, PTL
=============================================================================
