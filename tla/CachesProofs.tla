----------------------------- MODULE CachesProofs -----------------------------
(***************************************************************************)
(* What goroutines make on demand is made once and stays in reach, for any *)
(* number of goroutines and names: the proofs about the parts of OnDemand. *)
(***************************************************************************)
EXTENDS OnDemand, FiniteSetTheorems, TLAPS

----------------------------------------------------------------------------
(***************************************************************************)
(* Declarations: declareMu, the second look under it, and the cache.       *)
(***************************************************************************)

\* declareMu is held by the caller that is inside, which is what keeps the
\* second look good until the key is stored.
DeclareMuOK ==
    \A c \in Callers : declarePc[c] \in {"recheck", "call", "store"} => declareMu = c

\* A caller that has declared an exchange or a queue may store its key: the
\* object exists, or a deletion that is not through yet has removed it, or one
\* that is through has seen the race or left no trace but its error.
StoreOK ==
    \A c \in Callers :
        LET e == op[c] IN
        declarePc[c] = "store" /\ e.kind \in {"exchange", "queue"} =>
            \/ e \in broker
            \/ e \in gone
            \/ \E d \in Callers : declarePc[d] = "forget" /\ op[d] = e

\* Whoever is past the idle state works on an entity.
WorkOK == \A c \in Callers : declarePc[c] # "idle" => op[c] \in Declaring!Entities

\* The inductive invariant of the declarations.
DeclareInv ==
    /\ Declaring!CachedExists /\ Declaring!NoRepeatedDeclare
    /\ DeclareMuOK /\ StoreOK /\ WorkOK

\* An entity is an exchange, a queue or a binding, and the keys of exchanges
\* and queues are these themselves.
LEMMA EntityKinds ==
    ASSUME NEW e \in Declaring!Entities
    PROVE  /\ e.kind \in {"exchange", "queue", "bind"}
           /\ e.kind # "bind" => Declaring!OpKey(e) = e
           /\ e.kind = "bind" => Declaring!OpKey(e).kind = "bind"
BY DEF Declaring!Entities, Declaring!ExchangeEntity, Declaring!QueueEntity,
       Declaring!Binding, Declaring!OpKey

LEMMA DeclareInit == Declaring!Init => DeclareInv
BY DEF Declaring!Init, DeclareInv, Declaring!CachedExists, Declaring!TypeOK,
       Declaring!NoRepeatedDeclare, DeclareMuOK, StoreOK, WorkOK

\* Every step of a declaration or deletion keeps the invariant.
LEMMA DeclareStep ==
    ASSUME DeclareInv, [Declaring!Next]_(Declaring!vars)
    PROVE  DeclareInv'
<1> USE DEF DeclareInv, Declaring!CachedExists, Declaring!TypeOK,
            Declaring!NoRepeatedDeclare, DeclareMuOK, StoreOK, WorkOK, Declaring!Goto
<1>1. Nobody \notin Callers
  BY OnDemandParameters DEF Declaring!DeclareParameters
<1>2. ASSUME NEW c \in Callers, NEW e \in Declaring!Entities, NEW f \in BOOLEAN,
             Declaring!Declare(c, e, f)
      PROVE  DeclareInv'
  BY <1>2 DEF Declaring!Declare
<1>3. ASSUME NEW c \in Callers, Declaring!DeclareLock(c) PROVE DeclareInv'
  BY <1>1, <1>3 DEF Declaring!DeclareLock
<1>4. ASSUME NEW c \in Callers, Declaring!DeclareRecheck(c) PROVE DeclareInv'
  BY <1>1, <1>4 DEF Declaring!DeclareRecheck
<1>5. ASSUME NEW c \in Callers, Declaring!DeclareCall(c) PROVE DeclareInv'
  BY <1>1, <1>5 DEF Declaring!DeclareCall
<1>6. ASSUME NEW c \in Callers, Declaring!DeclareFails(c) PROVE DeclareInv'
  BY <1>1, <1>6 DEF Declaring!DeclareFails
<1>7. ASSUME NEW c \in Callers, Declaring!DeclareStore(c) PROVE DeclareInv'
  <2>1. op[c] \in Declaring!Entities BY <1>7 DEF Declaring!DeclareStore
  <2> QED BY <1>1, <1>7, <2>1, EntityKinds DEF Declaring!DeclareStore
<1>8. ASSUME NEW c \in Callers, NEW e \in Declaring!Entities, Declaring!DeleteCall(c, e)
      PROVE  DeclareInv'
  BY <1>8, EntityKinds DEF Declaring!DeleteCall, Declaring!Without
<1>9. ASSUME NEW c \in Callers, NEW e \in Declaring!Entities, Declaring!DeleteFails(c, e)
      PROVE  DeclareInv'
  BY <1>9, EntityKinds DEF Declaring!DeleteFails, Declaring!Without
<1>10. ASSUME NEW c \in Callers, Declaring!DeleteForget(c) PROVE DeclareInv'
  <2>1. op[c] \in Declaring!Entities BY <1>10 DEF Declaring!DeleteForget
  <2> QED BY <1>10, <2>1, EntityKinds DEF Declaring!DeleteForget, Declaring!Race
<1>11. CASE UNCHANGED Declaring!vars BY <1>11 DEF Declaring!vars
<1> QED BY <1>2, <1>3, <1>4, <1>5, <1>6, <1>7, <1>8, <1>9, <1>10, <1>11 DEF Declaring!Next

----------------------------------------------------------------------------
(***************************************************************************)
(* Kafka writers: one for each topic, and none that writes after Close.    *)
(***************************************************************************)

\* The writer that push w made is, or was, in r.writers.
WasStored(w) == pushPc[w] \notin {"idle", "load", "lock", "again", "store"}

\* writersMu is held by the push that is inside.
WritersMuOK == \A p \in Pushes : pushPc[p] \in {"again", "store"} => writersMu = p

\* The map holds writers of the right topic that were stored.
WritersOK ==
    \A t \in Topics : writers[t] # Nobody => TopicOf[writers[t]] = t /\ WasStored(writers[t])

\* A push uses its own writer or one that was stored, once it has looked.
WriterOK ==
    \A p \in Pushes :
        /\ writer[p] # Nobody =>
             /\ TopicOf[writer[p]] = TopicOf[p]
             /\ writer[p] = p \/ WasStored(writer[p])
        /\ pushPc[p] \in {"idle", "load", "lock", "again"} => writer[p] = Nobody
        /\ pushPc[p] = "store" => writer[p] = p
        /\ pushPc[p] \in {"check", "loop", "write", "writing", "wait"} => writer[p] # Nobody

\* Nobody stores a writer over another one.
StoreFree == \A p \in Pushes : pushPc[p] = "store" => writers[TopicOf[p]] = Nobody

\* What is open was made.
OpenMade == \A w \in openWriters : pushPc[w] = "store" \/ WasStored(w)

\* Close still has to come to the writer that push p holds, if that is open.
AheadOfClose(p) ==
    writer[p] \in openWriters => writers[TopicOf[p]] = writer[p] /\ TopicOf[p] \in left

\* A push that has passed the test of r.closed has an open writer only if Close
\* has not come to it.
WriteOK == \A p \in Pushes : pushPc[p] \in {"write", "writing"} => AheadOfClose(p)

\* Close waits for what the writers were handed.
InflightOK ==
    \A b \in inflight :
        /\ b[1] \in Pushes /\ b[2] \in 1..MaxAttempts /\ b = <<b[1], b[2]>>
        /\ writer[b[1]] \in openWriters /\ AheadOfClose(b[1])
        /\ b[2] <= attempt[b[1]]
        /\ pushPc[b[1]] = "write" => b[2] < attempt[b[1]]

\* Close visits every topic.
LeftOK ==
    /\ closing \in {"no", "mark"} => left = Topics
    /\ closing = "end" => left = {}

\* The batches of push p that a writer has taken and is not through with.
Outstanding(p) == {b \in inflight : b[1] = p}

\* What was stored, and what may still be, was handed over in an attempt.
StoredOK ==
    \A p \in Pushes :
        /\ IsFiniteSet(Outstanding(p))
        /\ stored[p] + Cardinality(Outstanding(p)) <= attempt[p]
        /\ pushPc[p] = "write" => stored[p] + Cardinality(Outstanding(p)) < attempt[p]

\* The inductive invariant of the pushes.
PushInv ==
    /\ Pushing!NoLostWriter
    /\ WritersMuOK /\ WritersOK /\ WriterOK /\ StoreFree /\ OpenMade
    /\ WriteOK /\ InflightOK /\ LeftOK /\ StoredOK

LEMMA PushInit == Pushing!Init => PushInv
<1> SUFFICES ASSUME Pushing!Init PROVE PushInv
  OBVIOUS
<1>1. \A p \in Pushes : Outstanding(p) = {}
  BY DEF Pushing!Init, Outstanding
<1>2. StoredOK
  BY <1>1, FS_EmptySet DEF Pushing!Init, StoredOK
<1> QED
  BY <1>2, OnDemandParameters
  DEF Pushing!Init, PushInv, Pushing!NoLostWriter, Pushing!TypeOK, Pushing!Where,
      Pushing!PushParameters, WritersMuOK, WritersOK, WriterOK, StoreFree, OpenMade,
      WriteOK, InflightOK, LeftOK

\* No message is stored more often than it was handed over: StoredOK is kept by
\* every step.
LEMMA PushStepStored ==
    ASSUME PushInv, [Pushing!Next]_(Pushing!vars)
    PROVE  StoredOK'
<1> USE DEF PushInv, Pushing!NoLostWriter, Pushing!TypeOK, StoredOK, Pushing!Goto
<1>1. \A p \in Pushes : Cardinality(Outstanding(p)) \in Nat
  BY FS_CardinalityType
<1>2. ASSUME inflight' = inflight, stored' = stored, attempt' = attempt,
             \A p \in Pushes : pushPc'[p] = "write" => pushPc[p] = "write"
      PROVE  StoredOK'
  <2>1. \A p \in Pushes : Outstanding(p)' = Outstanding(p) BY <1>2 DEF Outstanding
  <2> QED BY <1>2, <2>1
<1>3. ASSUME NEW p \in Pushes,
             \/ Pushing!PushBatch(p) \/ Pushing!Load(p) \/ Pushing!Lock(p)
             \/ Pushing!Again(p) \/ Pushing!Store(p) \/ Pushing!Check(p)
      PROVE  StoredOK'
  BY <1>2, <1>3 DEF Pushing!PushBatch, Pushing!Load, Pushing!Lock, Pushing!Again,
     Pushing!Store, Pushing!Check, Pushing!Return, Pushing!net, Pushing!Use
<1>4. ASSUME NEW p \in Pushes,
             \/ Pushing!Written(p) \/ Pushing!WriteCanceled(p) \/ Pushing!WaitEnds(p)
             \/ Pushing!Retry(p) \/ Pushing!Cancel(p)
      PROVE  StoredOK'
  BY <1>2, <1>4 DEF Pushing!Written, Pushing!WriteCanceled, Pushing!WaitEnds,
     Pushing!Retry, Pushing!Cancel, Pushing!Return, Pushing!net
<1>5. ASSUME NEW p \in Pushes, Pushing!Loop(p) PROVE StoredOK'
  <2>1. \A q \in Pushes : Outstanding(q)' = Outstanding(q)
    BY <1>5 DEF Pushing!Loop, Pushing!net, Outstanding
  <2> QED BY <1>1, <1>5, <2>1 DEF Pushing!Loop, Pushing!net, Pushing!Return
<1>6. ASSUME NEW p \in Pushes, Pushing!Write(p) PROVE StoredOK'
  <2>1. CASE inflight' = inflight
    BY <1>2, <1>6, <2>1 DEF Pushing!Write
  <2>2. CASE /\ inflight' = inflight \cup {<<p, attempt[p]>>}
             /\ pushPc' = [pushPc EXCEPT ![p] = "writing"]
    <3>1. \A q \in Pushes \ {p} : Outstanding(q)' = Outstanding(q)
      BY <2>2 DEF Outstanding
    <3>2. Outstanding(p)' = Outstanding(p) \cup {<<p, attempt[p]>>}
      BY <2>2 DEF Outstanding
    <3>3. /\ IsFiniteSet(Outstanding(p)')
          /\ Cardinality(Outstanding(p)') <= Cardinality(Outstanding(p)) + 1
      <4> DEFINE S == Outstanding(p)  x == <<p, attempt[p]>>
      <4>1. IsFiniteSet(S) /\ Cardinality(S) \in Nat BY <1>1
      <4> HIDE DEF S, x
      <4>2. /\ IsFiniteSet(S \cup {x})
            /\ Cardinality(S \cup {x}) = IF x \in S THEN Cardinality(S) ELSE Cardinality(S) + 1
        BY <4>1, FS_AddElement
      <4>3. Outstanding(p)' = S \cup {x} BY <3>2 DEF S, x
      <4> QED BY <4>1, <4>2, <4>3 DEF S
    <3>4. Cardinality(Outstanding(p)') \in Nat BY <3>3, FS_CardinalityType
    <3>5. pushPc[p] = "write" /\ stored' = stored /\ attempt' = attempt
      BY <1>6 DEF Pushing!Write
    <3>6. stored[p] + Cardinality(Outstanding(p)') <= attempt[p]
      BY <1>1, <3>3, <3>4, <3>5
    <3> QED BY <2>2, <3>1, <3>3, <3>5, <3>6
  <2> QED BY <1>6, <2>1, <2>2 DEF Pushing!Write, Pushing!Batch
<1>7. ASSUME NEW b \in inflight, Pushing!Settle(b) PROVE StoredOK'
  <2> DEFINE p == b[1]
  <2>1. p \in Pushes /\ b \in Outstanding(p) BY DEF InflightOK, Outstanding
  <2>2. \A q \in Pushes \ {p} : Outstanding(q)' = Outstanding(q)
    BY <1>7 DEF Pushing!Settle, Outstanding
  <2>3. Outstanding(p)' = Outstanding(p) \ {b}
    BY <1>7 DEF Pushing!Settle, Outstanding
  <2>4. /\ IsFiniteSet(Outstanding(p)')
        /\ Cardinality(Outstanding(p)') = Cardinality(Outstanding(p)) - 1
    BY <2>1, <2>3, FS_RemoveElement
  <2>5. /\ stored' = stored \/ stored' = [stored EXCEPT ![p] = @ + 1]
        /\ attempt' = attempt /\ pushPc' = pushPc
    BY <1>7 DEF Pushing!Settle
  <2>6. \A q \in Pushes \ {p} : stored'[q] = stored[q]
    BY <2>5
  <2>7. stored'[p] + Cardinality(Outstanding(p)') <= stored[p] + Cardinality(Outstanding(p))
    BY <1>1, <2>1, <2>4, <2>5
  <2>8. stored'[p] \in Nat /\ Cardinality(Outstanding(p)') \in Nat
    BY <2>1, <2>4, <2>5, FS_CardinalityType
  <2> QED BY <1>1, <2>1, <2>2, <2>4, <2>5, <2>6, <2>7, <2>8
<1>8. ASSUME NEW t \in Topics, Pushing!CloseWriter(t) PROVE StoredOK'
  BY <1>2, <1>8 DEF Pushing!CloseWriter, Pushing!net
<1>9. CASE Pushing!CloseMark \/ Pushing!CloseSignal \/ Pushing!CloseEnd
  BY <1>2, <1>9 DEF Pushing!CloseMark, Pushing!CloseSignal, Pushing!CloseEnd, Pushing!net
<1>10. CASE UNCHANGED Pushing!vars
  BY <1>2, <1>10 DEF Pushing!vars, Pushing!net
<1> QED
  BY <1>3, <1>4, <1>5, <1>6, <1>7, <1>8, <1>9, <1>10
  DEF Pushing!Next, Pushing!Push, Pushing!Close

\* Every step keeps the types; that of stored is what StoredOK says.
LEMMA PushStepTypes ==
    ASSUME PushInv, [Pushing!Next]_(Pushing!vars)
    PROVE  Pushing!TypeOK'
<1> USE OnDemandParameters
    DEF PushInv, Pushing!NoLostWriter, Pushing!TypeOK, Pushing!PushParameters,
        InflightOK, WritersOK, Pushing!Goto, Pushing!Return, Pushing!Use,
        Pushing!Cached, Pushing!Batch, Pushing!Where, Pushing!net, Pushing!closer
<1>1. ASSUME NEW p \in Pushes,
             \/ Pushing!PushBatch(p) \/ Pushing!Load(p) \/ Pushing!Lock(p)
             \/ Pushing!Again(p) \/ Pushing!Store(p) \/ Pushing!Check(p)
      PROVE  Pushing!TypeOK'
  BY <1>1 DEF Pushing!PushBatch, Pushing!Load, Pushing!Lock, Pushing!Again,
     Pushing!Store, Pushing!Check
<1>2. ASSUME NEW p \in Pushes,
             \/ Pushing!Written(p) \/ Pushing!WriteCanceled(p) \/ Pushing!WaitEnds(p)
             \/ Pushing!Retry(p) \/ Pushing!Cancel(p) \/ Pushing!Loop(p)
      PROVE  Pushing!TypeOK'
  BY SMTT(30), <1>2 DEF Pushing!Written, Pushing!WriteCanceled, Pushing!WaitEnds,
     Pushing!Retry, Pushing!Cancel, Pushing!Loop
<1>3. ASSUME NEW p \in Pushes, Pushing!Write(p) PROVE Pushing!TypeOK'
  <2>1. attempt[p] \in 1..MaxAttempts
    <3>1. stored[p] + Cardinality(Outstanding(p)) < attempt[p] /\ IsFiniteSet(Outstanding(p))
      BY <1>3 DEF Pushing!Write, StoredOK
    <3> QED BY <3>1, FS_CardinalityType
  <2> QED BY <1>3, <2>1 DEF Pushing!Write
<1>4. ASSUME NEW b \in inflight, Pushing!Settle(b) PROVE Pushing!TypeOK'
  <2>1. stored' = [stored EXCEPT ![b[1]] = @ + 1] \/ stored' = stored
    BY <1>4 DEF Pushing!Settle
  <2>2. ASSUME NEW p \in Pushes PROVE stored'[p] \in 0..MaxAttempts
    <3>1. IsFiniteSet(Outstanding(p)') /\ stored'[p] + Cardinality(Outstanding(p)') <= attempt'[p]
      BY PushStepStored DEF StoredOK
    <3>2. Cardinality(Outstanding(p)') \in Nat BY <3>1, FS_CardinalityType
    <3>3. stored'[p] \in Nat BY <2>1
    <3>4. attempt'[p] \in 0..MaxAttempts BY <1>4 DEF Pushing!Settle
    <3> QED BY <3>1, <3>2, <3>3, <3>4
  <2>3. stored' \in [Pushes -> 0..MaxAttempts] BY <2>1, <2>2
  <2> QED BY <1>4, <2>3 DEF Pushing!Settle
<1>5. ASSUME NEW t \in Topics, Pushing!CloseWriter(t) PROVE Pushing!TypeOK'
  BY <1>5 DEF Pushing!CloseWriter
<1>6. CASE Pushing!CloseMark \/ Pushing!CloseSignal \/ Pushing!CloseEnd
  BY <1>6 DEF Pushing!CloseMark, Pushing!CloseSignal, Pushing!CloseEnd
<1>7. CASE UNCHANGED Pushing!vars
  BY SMTT(30), <1>7 DEF Pushing!vars
<1> QED
  BY <1>1, <1>2, <1>3, <1>4, <1>5, <1>6, <1>7 DEF Pushing!Next, Pushing!Push, Pushing!Close

\* What the code keeps in r.writers, in writersMu and in flight ...
PushState ==
    /\ WritersMuOK /\ WritersOK /\ WriterOK /\ StoreFree /\ OpenMade
    /\ WriteOK /\ InflightOK /\ LeftOK

\* ... is kept by every step, and so is NoLostWriter.
LEMMA PushStepState ==
    ASSUME PushInv, [Pushing!Next]_(Pushing!vars), Pushing!TypeOK'
    PROVE  (Pushing!NoLostWriter /\ PushState)'
<1> USE OnDemandParameters
    DEF PushInv, PushState, Pushing!NoLostWriter, Pushing!TypeOK, WritersMuOK, WritersOK,
        WriterOK, StoreFree, OpenMade, WriteOK, InflightOK, LeftOK, AheadOfClose,
        WasStored, Pushing!PushParameters, Pushing!Goto, Pushing!Return, Pushing!Use,
        Pushing!Cached, Pushing!Batch, Pushing!Closed, Pushing!Where,
        Pushing!net, Pushing!closer
<1>1. ASSUME NEW p \in Pushes, Pushing!PushBatch(p)
      PROVE  (Pushing!NoLostWriter /\ PushState)'
  BY <1>1 DEF Pushing!PushBatch
<1>2. ASSUME NEW p \in Pushes, Pushing!Load(p)
      PROVE  (Pushing!NoLostWriter /\ PushState)'
  BY <1>2 DEF Pushing!Load
<1>3. ASSUME NEW p \in Pushes, Pushing!Lock(p)
      PROVE  (Pushing!NoLostWriter /\ PushState)'
  BY <1>3 DEF Pushing!Lock
<1>4. ASSUME NEW p \in Pushes, Pushing!Again(p)
      PROVE  (Pushing!NoLostWriter /\ PushState)'
  BY <1>4 DEF Pushing!Again
<1>5. ASSUME NEW p \in Pushes, Pushing!Store(p)
      PROVE  (Pushing!NoLostWriter /\ PushState)'
  BY <1>5 DEF Pushing!Store
<1>6. ASSUME NEW p \in Pushes, Pushing!Check(p)
      PROVE  (Pushing!NoLostWriter /\ PushState)'
  BY <1>6 DEF Pushing!Check
<1>7. ASSUME NEW p \in Pushes, Pushing!Loop(p)
      PROVE  (Pushing!NoLostWriter /\ PushState)'
  BY <1>7 DEF Pushing!Loop
<1>8. ASSUME NEW p \in Pushes, Pushing!Write(p)
      PROVE  (Pushing!NoLostWriter /\ PushState)'
  BY <1>8 DEF Pushing!Write
<1>9. ASSUME NEW p \in Pushes, Pushing!Written(p)
      PROVE  (Pushing!NoLostWriter /\ PushState)'
  BY <1>9 DEF Pushing!Written
<1>10. ASSUME NEW p \in Pushes, Pushing!WriteCanceled(p)
      PROVE  (Pushing!NoLostWriter /\ PushState)'
  BY <1>10 DEF Pushing!WriteCanceled
<1>11. ASSUME NEW p \in Pushes, Pushing!WaitEnds(p)
      PROVE  (Pushing!NoLostWriter /\ PushState)'
  BY <1>11 DEF Pushing!WaitEnds
<1>12. ASSUME NEW p \in Pushes, Pushing!Retry(p)
      PROVE  (Pushing!NoLostWriter /\ PushState)'
  BY <1>12 DEF Pushing!Retry
<1>13. ASSUME NEW p \in Pushes, Pushing!Cancel(p)
      PROVE  (Pushing!NoLostWriter /\ PushState)'
  BY <1>13 DEF Pushing!Cancel
<1>14. ASSUME NEW b \in inflight, Pushing!Settle(b)
      PROVE  (Pushing!NoLostWriter /\ PushState)'
  BY <1>14 DEF Pushing!Settle
<1>15. ASSUME NEW t \in Topics, Pushing!CloseWriter(t)
      PROVE  (Pushing!NoLostWriter /\ PushState)'
  BY <1>15 DEF Pushing!CloseWriter
<1>16. CASE Pushing!CloseMark \/ Pushing!CloseSignal \/ Pushing!CloseEnd
  BY <1>16 DEF Pushing!CloseMark, Pushing!CloseSignal, Pushing!CloseEnd
<1>17. CASE UNCHANGED Pushing!vars
  BY <1>17 DEF Pushing!vars
<1> QED
  BY <1>1, <1>2, <1>3, <1>4, <1>5, <1>6, <1>7, <1>8, <1>9, <1>10, <1>11, <1>12, <1>13,
     <1>14, <1>15, <1>16, <1>17
  DEF Pushing!Next, Pushing!Push, Pushing!Close

\* Every step of a push or of Close keeps the invariant.
LEMMA PushStep ==
    ASSUME PushInv, [Pushing!Next]_(Pushing!vars)
    PROVE  PushInv'
BY PushStepTypes, PushStepStored, PushStepState DEF PushInv, PushState

\* When Close has returned nothing is in flight and nothing will be.
LEMMA PushNothingStored ==
    ASSUME PushInv, [Pushing!Next]_(Pushing!vars), closing = "end"
    PROVE  stored' = stored
<1>1. inflight = {}
  BY OnDemandParameters
  DEF PushInv, InflightOK, LeftOK, AheadOfClose, Pushing!PushParameters
<1> QED
  BY <1>1 DEF Pushing!Next, Pushing!Push, Pushing!Close, Pushing!vars, Pushing!net,
     Pushing!PushBatch, Pushing!Load, Pushing!Lock, Pushing!Again, Pushing!Store,
     Pushing!Check, Pushing!Loop, Pushing!Write, Pushing!Written, Pushing!WriteCanceled,
     Pushing!WaitEnds, Pushing!Retry, Pushing!Cancel, Pushing!CloseMark,
     Pushing!CloseSignal, Pushing!CloseWriter, Pushing!CloseEnd, Pushing!Return

----------------------------------------------------------------------------
(***************************************************************************)
(* Clients and connections of services: one for each, and whole requests.  *)
(***************************************************************************)

\* What a caller may be at work on: what it asked for, in Do with its body read.
Jobs(c) ==
    {[api |-> "none"]} \cup Calls[c]
    \cup {[j EXCEPT !.reader = FALSE] : j \in {k \in Calls[c] : k.api = "do"}}

\* A call that goes to the HTTP client of a known service, Do's with its body read.
HttpJob(j) ==
    /\ j.api \in {"ral", "multipart", "do"} /\ j.service \in Serving!Services
    /\ j.api = "do" => ~j.reader

ConnJob(j) == j.api = "conn" /\ j.service \in Serving!Services

\* A call whose second attempt may send less than the first.
MayShrink(j) == Serving!OnceOnly(j) /\ j.api # "do"

Places ==
    {"idle", "check", "conn", "validate", "route", "find", "make", "made", "dial", "dialed",
     "send", "wait", "done"}
Statuses == {0, 200, 404, 500}
Results == {"none", "ok", "error", "panic"}
CallRecord(c) ==
    [at : Places, job : Jobs(c), attempt : 0..MaxAttempts, body : BOOLEAN,
     uses : Callers \cup {Nobody}, status : Statuses, result : Results]

\* What is known of a call where it is, and of its body: an attempt has read it
\* up at most in a call that may shrink.
CallOK(c, r) ==
    /\ r \in CallRecord(c)
    /\ r.at = "check" => r.job.api = "do"
    /\ r.at = "conn" => ConnJob(r.job)
    /\ r.at \in {"dial", "dialed"} => ConnJob(r.job) /\ Protocol[r.job.service] = "grpc"
    /\ r.at = "validate" => r.job.api = "new"
    /\ r.at = "route" => HttpJob(r.job)
    /\ r.at \in {"find", "made"} => HttpJob(r.job) /\ Protocol[r.job.service] # "grpc"
    /\ r.at \in {"make", "send", "wait"} =>
         r.job.api = "new" \/ (HttpJob(r.job) /\ Protocol[r.job.service] # "grpc")
    /\ r.at \notin {"send", "wait", "done"} => r.uses = Nobody
    /\ r.at = "send" => r.attempt < MaxAttempts
    /\ r.at \notin {"send", "wait", "done"} => r.attempt = 0
    /\ r.body \/ (MayShrink(r.job) /\ r.attempt > 0 /\ r.at \in {"send", "wait", "done"})

CallsOK ==
    /\ call = [c \in Callers |-> call[c]]
    /\ \A c \in Callers : CallOK(c, call[c])

\* Whoever uses a client or a connection uses the one that is kept.
UsesKept(r) ==
    r.uses # Nobody =>
        \/ r.job.api = "new"
        \/ /\ ConnJob(r.job) /\ Protocol[r.job.service] = "grpc"
           /\ conn[r.job.service] = r.uses
        \/ /\ HttpJob(r.job) /\ Protocol[r.job.service] # "grpc"
           /\ client[r.job.service] = r.uses

\* A connection that is open is kept, or its maker is about to look for another.
OpenConnsOK ==
    \A c \in openConns :
        c \in Callers /\ (call[c].at = "dialed" \/ \E s \in Serving!Services : conn[s] = c)

\* Whoever has sent something has its job for good.
SenderOK ==
    \A r \in received :
        r.from \in Callers /\ call[r.from].at \in {"send", "wait", "done"}

\* Only gRPC services have connections.
GrpcOnly(f) == \A s \in Serving!Services : f[s] # Nobody => Protocol[s] = "grpc"

\* The inductive invariant of the service calls.
ServeInv ==
    /\ client \in [Serving!Services -> Callers \cup {Nobody}]
    /\ conn \in [Serving!Services -> Callers \cup {Nobody}]
    /\ CallsOK /\ (\A c \in Callers : UsesKept(call[c])) /\ GrpcOnly(conn)
    /\ OpenConnsOK /\ SenderOK /\ Serving!BodyIsWhole

\* A call with one field changed is a call.
LEMMA CallField ==
    ASSUME NEW c \in Callers, NEW r \in CallRecord(c)
    PROVE  /\ \A v \in Places : [r EXCEPT !.at = v] \in CallRecord(c)
           /\ \A v \in Jobs(c) : [r EXCEPT !.job = v] \in CallRecord(c)
           /\ \A v \in 0..MaxAttempts : [r EXCEPT !.attempt = v] \in CallRecord(c)
           /\ \A v \in BOOLEAN : [r EXCEPT !.body = v] \in CallRecord(c)
           /\ \A v \in Callers \cup {Nobody} : [r EXCEPT !.uses = v] \in CallRecord(c)
           /\ \A v \in Statuses : [r EXCEPT !.status = v] \in CallRecord(c)
           /\ \A v \in Results : [r EXCEPT !.result = v] \in CallRecord(c)
BY DEF CallRecord

LEMMA ServeInit == Serving!Init => ServeInv
BY OnDemandParameters
DEF Serving!Init, ServeInv, Serving!BodyIsWhole, CallsOK, CallOK, UsesKept, OpenConnsOK,
    GrpcOnly, SenderOK, CallRecord, Places, Statuses, Results, Jobs, Serving!ServiceParameters

\* The client or connection of a service stays the one it is.
Stays(f, g) == \A s \in Serving!Services : f[s] # Nobody => g[s] = f[s]

\* What a step of caller c does: c comes to where it should be, what is kept
\* stays, and what c opens or sends is in order.
ServesOne(c) ==
    /\ call' = [call EXCEPT ![c] = call'[c]]
    /\ CallOK(c, call[c])' /\ UsesKept(call[c])'
    /\ client' \in [Serving!Services -> Callers \cup {Nobody}]
    /\ conn' \in [Serving!Services -> Callers \cup {Nobody}]
    /\ Stays(client, client') /\ Stays(conn, conn') /\ GrpcOnly(conn')
    /\ \A d \in openConns' :
         \/ d \in openConns /\ (d # c \/ call[c].at # "dialed")
         \/ d = c /\ call'[c].at = "dialed"
         \/ d \in Callers /\ \E s \in Serving!Services : conn'[s] = d
    /\ \A r \in received' \ received :
         r.from = c /\ (r.whole \/ (MayShrink(call'[c].job) /\ call'[c].attempt > 1))
    /\ received' # received => received \subseteq received' /\ call'[c].at = "wait"
    /\ call[c].at \in {"send", "wait", "done"} =>
         /\ call'[c].at \in {"send", "wait", "done"} /\ call'[c].job = call[c].job
         /\ call'[c].attempt >= call[c].attempt

\* Such a step keeps the invariant.
LEMMA ServeFrame ==
    ASSUME ServeInv, NEW c \in Callers, ServesOne(c)
    PROVE  ServeInv'
<1> USE DEF ServeInv, ServesOne
<1>1. CallsOK' BY DEF CallsOK, CallOK
<1>2. \A d \in Callers \ {c} : call'[d] = call[d] BY DEF CallsOK
<1>3. \A d \in Callers : UsesKept(call[d])'
  BY <1>2, OnDemandParameters
  DEF UsesKept, Stays, HttpJob, ConnJob, CallsOK, CallOK, Serving!ServiceParameters
<1>4. OpenConnsOK'
  BY <1>2, OnDemandParameters DEF OpenConnsOK, Stays, Serving!ServiceParameters
<1>5. SenderOK' BY <1>2 DEF SenderOK
<1>6. Serving!BodyIsWhole'
  <2>1. call[c].attempt \in Nat /\ call'[c].attempt \in Nat
    BY OnDemandParameters DEF CallsOK, CallOK, CallRecord, Serving!ServiceParameters
  <2>2. SUFFICES ASSUME NEW r \in received', ~r.whole
                 PROVE  MayShrink(call'[r.from].job) /\ call'[r.from].attempt > 1
    BY DEF Serving!BodyIsWhole, Serving!Job, MayShrink, Serving!OnceOnly
  <2>3. CASE r \in received' \ received
    BY <2>2, <2>3
  <2>4. CASE r \in received
    <3>1. MayShrink(call[r.from].job) /\ call[r.from].attempt > 1
      BY <2>2, <2>4 DEF Serving!BodyIsWhole, Serving!Job, MayShrink, Serving!OnceOnly
    <3> QED BY <1>2, <2>1, <2>4, <3>1 DEF SenderOK
  <2> QED BY <2>2, <2>3, <2>4
<1> QED BY <1>1, <1>3, <1>4, <1>5, <1>6

\* A step of c that touches neither what is kept nor what is open or sent, and
\* brings c to where it should be without a client, is in order.
LEMMA ServePlain ==
    ASSUME ServeInv, NEW c \in Callers, NEW r,
           CallOK(c, r), r.uses = Nobody, r.at # "dialed", call' = [call EXCEPT ![c] = r],
           call[c].at \notin {"dialed", "send", "wait", "done"},
           UNCHANGED <<client, conn, openConns, names, received>>
    PROVE  ServesOne(c)
<1>1. call'[c] = r
  BY DEF ServeInv, CallsOK
<1>2. CallOK(c, call[c])'
  BY <1>1 DEF CallOK
<1> QED
  BY <1>1, <1>2 DEF ServeInv, ServesOne, Stays, UsesKept

\* A caller that starts has a job of its own, and goes where the job is done.
LEMMA ServeStart ==
    ASSUME ServeInv, NEW c \in Callers, Serving!Start(c)
    PROVE  ServesOne(c)
<1>1. PICK j \in Calls[c] :
        call' = [call EXCEPT ![c].job = j, ![c].at = Serving!FirstStep(j)]
  BY DEF Serving!Start
<1>2. CallOK(c, call[c]) /\ call[c].at = "idle" /\ call[c] \in CallRecord(c)
  BY DEF Serving!Start, ServeInv, CallsOK, CallOK
<1>3. \/ j.api \in {"ral", "multipart"} /\ HttpJob(j) /\ Serving!FirstStep(j) = "route"
      \/ j.api = "conn" /\ ConnJob(j) /\ Serving!FirstStep(j) = "conn"
      \/ j.api = "do" /\ Serving!FirstStep(j) = "check"
      \/ j.api = "new" /\ Serving!FirstStep(j) = "validate"
  BY OnDemandParameters
  DEF Serving!ServiceParameters, Serving!FirstStep, HttpJob, ConnJob
<1> DEFINE r == [call[c] EXCEPT !.job = j, !.at = Serving!FirstStep(j)]
<1>4. r \in CallRecord(c)
  BY <1>2, <1>3, CallField DEF Jobs, Places
<1>5. /\ r.at = Serving!FirstStep(j) /\ r.job = j /\ r.attempt = call[c].attempt
      /\ r.body = call[c].body /\ r.uses = call[c].uses
  BY <1>2 DEF CallRecord
<1>6. call' = [call EXCEPT ![c] = r]
  BY <1>1
<1> HIDE DEF r
<1>7. CallOK(c, r) /\ r.uses = Nobody /\ r.at # "dialed"
  BY <1>2, <1>3, <1>4, <1>5 DEF CallOK
<1> QED
  BY <1>2, <1>6, <1>7, ServePlain DEF Serving!Start

\* What Do makes of its job is a job with the body read.
LEMMA ReadJob ==
    ASSUME NEW c \in Callers, NEW j \in Jobs(c), j.api = "do"
    PROVE  LET k == [j EXCEPT !.reader = FALSE] IN
           k \in Jobs(c) /\ k.api = "do" /\ k.service = j.service /\ ~k.reader
<1>1. \A k \in Calls[c] :
        k.api = "do" => k \in [api : {"do"}, service : {k.service}, reader : BOOLEAN]
  BY OnDemandParameters DEF Serving!ServiceParameters
<1>2. CASE j \in Calls[c]
  BY <1>1, <1>2 DEF Jobs
<1>3. CASE j \notin Calls[c]
  <2>1. PICK k \in Calls[c] : k.api = "do" /\ j = [k EXCEPT !.reader = FALSE]
    BY <1>3 DEF Jobs
  <2>2. j = [j EXCEPT !.reader = FALSE]
    BY <1>1, <2>1
  <2> QED BY <1>1, <2>1, <2>2
<1> QED BY <1>2, <1>3

LEMMA ServeDo ==
    ASSUME ServeInv, NEW c \in Callers, Serving!Do(c)
    PROVE  ServesOne(c)
<1>1. CallOK(c, call[c]) /\ call[c].at = "check" /\ call[c] \in CallRecord(c)
  BY DEF Serving!Do, ServeInv, CallsOK, CallOK
<1>2. call[c].job \in Jobs(c) /\ call[c].job.api = "do"
  BY <1>1 DEF CallOK, CallRecord
<1> DEFINE k == [call[c].job EXCEPT !.reader = FALSE]
           failed == [call[c] EXCEPT !.at = "done", !.result = "error"]
           read == [call[c] EXCEPT !.at = "route", !.job = k]
<1>3. k \in Jobs(c) /\ k.api = "do" /\ k.service = call[c].job.service /\ ~k.reader
  BY <1>2, ReadJob
<1>4. \/ call' = [call EXCEPT ![c] = failed]
      \/ call' = [call EXCEPT ![c] = read] /\ k.service \in Serving!Services
  <2>1. \/ call' = [call EXCEPT ![c].at = "done", ![c].result = "error"]
        \/ /\ call' = [call EXCEPT ![c].at = "route", ![c].job.reader = FALSE]
           /\ call[c].job.service \in Serving!Services
    BY DEF Serving!Do, Serving!Return, Serving!Service, Serving!Job
  <2>2. [call EXCEPT ![c].at = "done", ![c].result = "error"] = [call EXCEPT ![c] = failed]
    OBVIOUS
  <2>3. [call EXCEPT ![c].at = "route", ![c].job.reader = FALSE] = [call EXCEPT ![c] = read]
    OBVIOUS
  <2> HIDE DEF failed, read
  <2> QED BY <1>3, <2>1, <2>2, <2>3
<1> HIDE DEF k
<1>5. failed \in CallRecord(c)
  BY <1>1, CallField DEF Places, Results
<1>6. /\ failed.at = "done" /\ failed.uses = call[c].uses
      /\ failed.body = call[c].body /\ failed.job = call[c].job
  BY <1>1 DEF CallRecord
<1>7. read \in CallRecord(c)
  BY <1>1, <1>3, CallField DEF Places
<1>8. /\ read.at = "route" /\ read.uses = call[c].uses /\ read.attempt = call[c].attempt
      /\ read.body = call[c].body /\ read.job = k
  BY <1>1 DEF CallRecord
<1> HIDE DEF failed, read
<1>9. CallOK(c, failed) /\ failed.uses = Nobody /\ failed.at # "dialed"
  BY <1>1, <1>5, <1>6 DEF CallOK
<1>10. k.service \in Serving!Services => CallOK(c, read) /\ read.uses = Nobody /\ read.at # "dialed"
  BY <1>1, <1>3, <1>7, <1>8 DEF CallOK, HttpJob
<1> QED
  BY <1>1, <1>4, <1>9, <1>10, ServePlain DEF Serving!Do

\* The first client that is kept stays: whoever comes later uses that one.
LEMMA ServeKeepClient ==
    ASSUME ServeInv, NEW c \in Callers, Serving!KeepClient(c)
    PROVE  ServesOne(c)
<1> DEFINE s == call[c].job.service
           first == IF client[s] = Nobody THEN c ELSE client[s]
           r == [call[c] EXCEPT !.at = "send", !.uses = first]
<1>1. CallOK(c, call[c]) /\ call[c].at = "made" /\ call[c] \in CallRecord(c)
  BY DEF Serving!KeepClient, ServeInv, CallsOK, CallOK
<1>2. HttpJob(call[c].job) /\ Protocol[s] # "grpc" /\ s \in Serving!Services
  BY <1>1 DEF CallOK, HttpJob
<1>3. /\ client' = [client EXCEPT ![s] = first] /\ call' = [call EXCEPT ![c] = r]
      /\ UNCHANGED <<conn, openConns, names, received>>
  BY DEF Serving!KeepClient, Serving!Service, Serving!Job
<1>4. first \in Callers /\ first # Nobody
  BY <1>2, OnDemandParameters DEF ServeInv, Serving!ServiceParameters
<1>5. Stays(client, client') /\ client' \in [Serving!Services -> Callers \cup {Nobody}]
      /\ client'[s] = first
  BY <1>2, <1>3, <1>4 DEF ServeInv, Stays
<1> HIDE DEF first
<1>6. r \in CallRecord(c)
  BY <1>1, <1>4, CallField DEF Places
<1>7. /\ r.at = "send" /\ r.uses = first /\ r.attempt = call[c].attempt
      /\ r.body = call[c].body /\ r.job = call[c].job
  BY <1>1 DEF CallRecord
<1> HIDE DEF r
<1>8. CallOK(c, r)
  BY <1>1, <1>2, <1>6, <1>7, OnDemandParameters DEF CallOK, Serving!ServiceParameters
<1>9. call'[c] = r
  BY <1>3 DEF ServeInv, CallsOK
<1>10. CallOK(c, call[c])' /\ UsesKept(call[c])'
  BY <1>2, <1>5, <1>7, <1>8, <1>9 DEF CallOK, UsesKept
<1> QED
  BY <1>1, <1>3, <1>5, <1>9, <1>10 DEF ServeInv, ServesOne, Stays

\* The first connection that is kept stays, and the one that came too late is
\* closed.
LEMMA ServeKeepConn ==
    ASSUME ServeInv, NEW c \in Callers, Serving!KeepConn(c)
    PROVE  ServesOne(c)
<1> DEFINE s == call[c].job.service
           first == IF conn[s] = Nobody THEN c ELSE conn[s]
           r == [call[c] EXCEPT !.at = "done", !.uses = first, !.result = "ok"]
<1>1. CallOK(c, call[c]) /\ call[c].at = "dialed" /\ call[c] \in CallRecord(c)
  BY DEF Serving!KeepConn, ServeInv, CallsOK, CallOK
<1>2. ConnJob(call[c].job) /\ Protocol[s] = "grpc" /\ s \in Serving!Services
  BY <1>1 DEF CallOK, ConnJob
<1>3. /\ conn' = [conn EXCEPT ![s] = first] /\ call' = [call EXCEPT ![c] = r]
      /\ openConns' = (openConns \ {c}) \cup {first}
      /\ UNCHANGED <<client, names, received>>
  BY DEF Serving!KeepConn, Serving!Service, Serving!Job
<1>4. first \in Callers /\ first # Nobody
  BY <1>2, OnDemandParameters DEF ServeInv, Serving!ServiceParameters
<1>5. Stays(conn, conn') /\ conn' \in [Serving!Services -> Callers \cup {Nobody}]
      /\ conn'[s] = first
  BY <1>2, <1>3, <1>4 DEF ServeInv, Stays
<1> HIDE DEF first
<1>6. r \in CallRecord(c)
  BY <1>1, <1>4, CallField DEF Places, Results
<1>7. /\ r.at = "done" /\ r.uses = first /\ r.body = call[c].body /\ r.job = call[c].job
  BY <1>1 DEF CallRecord
<1> HIDE DEF r
<1>8. CallOK(c, r)
  BY <1>1, <1>2, <1>6, <1>7 DEF CallOK
<1>9. call'[c] = r
  BY <1>3 DEF ServeInv, CallsOK
<1>10. CallOK(c, call[c])' /\ UsesKept(call[c])'
  BY <1>2, <1>5, <1>7, <1>8, <1>9 DEF CallOK, UsesKept
<1>12. GrpcOnly(conn')
  BY <1>2, <1>3 DEF ServeInv, GrpcOnly
<1>11. \A d \in openConns' : (d \in openConns /\ d # c) \/ (d \in Callers /\ conn'[s] = d)
  BY <1>3, <1>4, <1>5
<1> QED
  BY <1>1, <1>2, <1>3, <1>5, <1>9, <1>10, <1>11, <1>12 DEF ServeInv, ServesOne, Stays

\* An attempt sends the whole body as long as nothing has read it.
LEMMA ServeSend ==
    ASSUME ServeInv, NEW c \in Callers, Serving!Send(c)
    PROVE  ServesOne(c)
<1> DEFINE j == call[c].job
           r == [call[c] EXCEPT !.at = "wait", !.attempt = call[c].attempt + 1,
                                !.body = call[c].body /\ ~Serving!OnceOnly(j)]
<1>1. CallOK(c, call[c]) /\ call[c].at = "send" /\ call[c] \in CallRecord(c)
  BY DEF Serving!Send, ServeInv, CallsOK, CallOK
<1>2. /\ \/ received' = received
         \/ received' = received \cup {[from |-> c, whole |-> call[c].body]}
      /\ call' = [call EXCEPT ![c] = r]
      /\ UNCHANGED <<client, conn, openConns, names>>
  BY DEF Serving!Send, Serving!Job
<1>3. j.api = "new" \/ (HttpJob(j) /\ Protocol[j.service] # "grpc")
  BY <1>1 DEF CallOK
<1>4. Serving!OnceOnly(j) => MayShrink(j)
  BY <1>3 DEF MayShrink, Serving!OnceOnly, HttpJob
<1>5. call[c].attempt + 1 \in 0..MaxAttempts /\ (call[c].body /\ ~Serving!OnceOnly(j)) \in BOOLEAN
  BY <1>1, OnDemandParameters DEF CallOK, CallRecord, Serving!ServiceParameters
<1>6. r \in CallRecord(c)
  BY <1>1, <1>5, CallField, Zenon DEF Places
<1>7. /\ r.at = "wait" /\ r.uses = call[c].uses /\ r.job = j
      /\ r.body = (call[c].body /\ ~Serving!OnceOnly(j))
      /\ r.attempt = call[c].attempt + 1 /\ call[c].attempt \in Nat
  BY <1>1 DEF CallRecord
<1> HIDE DEF r
<1>8. CallOK(c, r)
  <2>1. r.body \/ (MayShrink(r.job) /\ r.attempt > 0)
    <3>1. r.attempt > 0
      BY ONLY <1>7
    <3>2. call[c].body \/ MayShrink(j)
      BY ONLY <1>1 DEF CallOK
    <3>3. r.body \/ MayShrink(r.job)
      BY ONLY <1>4, <1>7, <3>2, Zenon
    <3> QED BY ONLY <3>1, <3>3
  <2> HIDE DEF j
  <2> QED BY ONLY <1>3, <1>6, <1>7, <2>1 DEF CallOK
<1>9. call'[c] = r
  BY <1>2 DEF ServeInv, CallsOK
<1>10. CallOK(c, call[c])' /\ UsesKept(call[c])'
  BY <1>1, <1>2, <1>7, <1>8, <1>9 DEF ServeInv, CallOK, UsesKept
<1>11. call[c].body \/ (MayShrink(j) /\ r.attempt > 1)
  BY <1>1, <1>7 DEF CallOK
<1>12. \A x \in received' \ received :
         x.from = c /\ (x.whole \/ (MayShrink(call'[c].job) /\ call'[c].attempt > 1))
  BY <1>2, <1>7, <1>9, <1>11
<1>13. /\ call'[c].at = "wait" /\ call'[c].job = call[c].job
       /\ call'[c].attempt >= call[c].attempt /\ received \subseteq received'
  BY <1>2, <1>7, <1>9
<1> QED
  BY <1>1, <1>2, <1>9, <1>10, <1>12, <1>13 DEF ServeInv, ServesOne, Stays

LEMMA ServeAnswer ==
    ASSUME ServeInv, NEW c \in Callers, Serving!Answer(c)
    PROVE  ServesOne(c)
<1>1. PICK s \in Statuses :
        call' = [call EXCEPT ![c].at = "done", ![c].status = s, ![c].result = "ok"]
  BY ZenonT(60) DEF Serving!Answer, Statuses
<1> DEFINE r == [call[c] EXCEPT !.at = "done", !.status = s, !.result = "ok"]
<1>2. /\ CallOK(c, call[c]) /\ call[c].at = "wait" /\ call[c] \in CallRecord(c)
      /\ UNCHANGED <<client, conn, openConns, names, received>>
  BY DEF Serving!Answer, ServeInv, CallsOK, CallOK
<1>3. call' = [call EXCEPT ![c] = r]
  BY <1>1
<1>4. r \in CallRecord(c)
  BY <1>2, CallField DEF Places, Results
<1>5. /\ r.at = "done" /\ r.uses = call[c].uses /\ r.job = call[c].job
      /\ r.body = call[c].body /\ r.attempt = call[c].attempt
      /\ call[c].attempt \in 0..MaxAttempts
  BY <1>2 DEF CallRecord
<1> HIDE DEF r
<1>6. CallOK(c, r)
  BY <1>2, <1>4, <1>5 DEF CallOK
<1>7. call'[c] = r
  BY <1>3 DEF ServeInv, CallsOK
<1>8. CallOK(c, call[c])' /\ UsesKept(call[c])'
  BY <1>2, <1>5, <1>6, <1>7 DEF ServeInv, CallOK, UsesKept
<1>9. call'[c].attempt >= call[c].attempt
  BY <1>5, <1>7, OnDemandParameters DEF Serving!ServiceParameters
<1> QED
  BY <1>2, <1>3, <1>5, <1>7, <1>8, <1>9 DEF ServeInv, ServesOne, Stays

\* A step that only moves c on, perhaps to a connection that it has opened.
LEMMA ServeMove ==
    ASSUME ServeInv, NEW c \in Callers, NEW r,
           CallOK(c, r), call' = [call EXCEPT ![c] = r],
           r.uses = call[c].uses, r.job = call[c].job, r.attempt = call[c].attempt,
           call[c].at # "dialed",
           call[c].at \in {"send", "wait", "done"} => r.at \in {"send", "wait", "done"},
           openConns' = openConns \/ (openConns' = openConns \cup {c} /\ r.at = "dialed"),
           UNCHANGED <<client, conn, received>>
    PROVE  ServesOne(c)
<1>1. call'[c] = r
  BY DEF ServeInv, CallsOK
<1>2. CallOK(c, call[c])' /\ UsesKept(call[c])'
  BY <1>1 DEF ServeInv, CallOK, UsesKept
<1>3. call'[c].attempt >= call[c].attempt
  BY <1>1, OnDemandParameters
  DEF ServeInv, CallsOK, CallOK, CallRecord, Serving!ServiceParameters
<1> QED
  BY <1>1, <1>2, <1>3 DEF ServeInv, ServesOne, Stays

\* Whatever goes wrong ends the call.
LEMMA ServeReturn ==
    ASSUME ServeInv, NEW c \in Callers, NEW v \in Results, Serving!Return(c, v),
           call[c].at # "dialed", UNCHANGED <<client, conn, openConns, received>>
    PROVE  ServesOne(c)
<1> DEFINE r == [call[c] EXCEPT !.at = "done", !.result = v]
<1>1. CallOK(c, call[c]) /\ call[c] \in CallRecord(c)
  BY DEF ServeInv, CallsOK, CallOK
<1>2. call' = [call EXCEPT ![c] = r]
  BY DEF Serving!Return
<1>3. r \in CallRecord(c)
  BY <1>1, CallField DEF Places
<1>4. /\ r.at = "done" /\ r.uses = call[c].uses /\ r.job = call[c].job
      /\ r.body = call[c].body /\ r.attempt = call[c].attempt
  BY <1>1 DEF CallRecord
<1> HIDE DEF r
<1>5. CallOK(c, r)
  BY <1>1, <1>3, <1>4 DEF CallOK
<1> QED
  BY <1>2, <1>4, <1>5, ServeMove

\* c comes to a place where it may be.
LEMMA ServeGoto ==
    ASSUME ServeInv, NEW c \in Callers, NEW l \in Places, Serving!Goto(c, l),
           l \in {"find", "make", "made", "dial", "dialed", "send"},
           call[c].at \in {"route", "find", "validate", "make", "conn", "dial", "wait"},
           call[c].at = "wait" <=> l = "send",
           l = "send" => call[c].attempt < MaxAttempts,
           l \in {"dial", "dialed"} =>
               ConnJob(call[c].job) /\ Protocol[call[c].job.service] = "grpc",
           l \in {"find", "made"} =>
               HttpJob(call[c].job) /\ Protocol[call[c].job.service] # "grpc",
           l \in {"make", "send"} =>
               \/ call[c].job.api = "new"
               \/ HttpJob(call[c].job) /\ Protocol[call[c].job.service] # "grpc",
           openConns' = openConns \/ (openConns' = openConns \cup {c} /\ l = "dialed"),
           UNCHANGED <<client, conn, received>>
    PROVE  ServesOne(c)
<1> DEFINE r == [call[c] EXCEPT !.at = l]
<1>1. CallOK(c, call[c]) /\ call[c] \in CallRecord(c)
  BY DEF ServeInv, CallsOK, CallOK
<1>2. call' = [call EXCEPT ![c] = r]
  BY DEF Serving!Goto
<1>3. r \in CallRecord(c)
  BY <1>1, CallField
<1>4. /\ r.at = l /\ r.uses = call[c].uses /\ r.job = call[c].job
      /\ r.body = call[c].body /\ r.attempt = call[c].attempt
  BY <1>1 DEF CallRecord
<1> HIDE DEF r
<1>5. CallOK(c, r)
  BY <1>1, <1>3, <1>4 DEF CallOK
<1> QED
  BY <1>2, <1>4, <1>5, ServeMove

\* A client or connection that is kept already is used.
LEMMA ServeFound ==
    ASSUME ServeInv, NEW c \in Callers, NEW r,
           \/ /\ call[c].at = "find" /\ r.at = "send"
              /\ r.uses = client[call[c].job.service]
           \/ /\ call[c].at = "conn" /\ r.at = "done" /\ Protocol[call[c].job.service] = "grpc"
              /\ r.uses = conn[call[c].job.service]
           \/ /\ call[c].at = "make" /\ r.at = "send" /\ call[c].job.api = "new"
              /\ r.uses = c,
           r \in CallRecord(c), r.body = call[c].body, r.attempt = call[c].attempt,
           r.job = call[c].job, call' = [call EXCEPT ![c] = r],
           UNCHANGED <<client, conn, openConns, received>>
    PROVE  ServesOne(c)
<1>1. CallOK(c, call[c]) /\ call'[c] = r
  BY DEF ServeInv, CallsOK
<1>2. CallOK(c, r)
  BY <1>1, OnDemandParameters DEF CallOK, Serving!ServiceParameters
<1>3. UsesKept(r)'
  BY <1>1 DEF CallOK, UsesKept
<1>4. CallOK(c, call[c])' /\ UsesKept(call[c])'
  BY <1>1, <1>2, <1>3 DEF CallOK, UsesKept
<1> QED
  BY <1>1, <1>4 DEF ServeInv, ServesOne, Stays

LEMMA ServeOther ==
    ASSUME ServeInv, NEW c \in Callers,
           \/ Serving!Route(c) \/ Serving!GetServiceClient(c) \/ Serving!Validate(c)
           \/ Serving!NewHttpClient(c) \/ Serving!GetServiceConn(c) \/ Serving!Dial(c)
           \/ Serving!NoAnswer(c)
    PROVE  ServesOne(c)
<1> DEFINE s == call[c].job.service
           HasClient == HttpJob(call[c].job) /\ Protocol[s] # "grpc"
           HasConn == ConnJob(call[c].job) /\ Protocol[s] = "grpc"
<1>1. CallOK(c, call[c]) /\ call[c] \in CallRecord(c)
  BY DEF ServeInv, CallsOK, CallOK
<1>2. CASE Serving!Route(c)
  <2>1. /\ call[c].at = "route"
        /\ \/ Serving!Return(c, "error")
           \/ Serving!Goto(c, "find") /\ Protocol[s] # "grpc"
        /\ UNCHANGED <<client, conn, openConns, received>>
    BY <1>2 DEF Serving!Route, Serving!Service, Serving!Job
  <2>2. HttpJob(call[c].job)
    BY <1>1, <2>1 DEF CallOK
  <2> QED BY <2>1, <2>2, ServeReturn, ServeGoto DEF Places, Results
<1>3. CASE Serving!GetServiceClient(c)
  <2> DEFINE r == [call[c] EXCEPT !.at = "send", !.uses = client[s]]
  <2>1. /\ call[c].at = "find"
        /\ \/ call' = [call EXCEPT ![c] = r]
           \/ Serving!Return(c, "error")
           \/ Serving!Goto(c, "make")
        /\ UNCHANGED <<client, conn, openConns, received>>
    BY <1>3 DEF Serving!GetServiceClient, Serving!Service, Serving!Job
  <2>2. HasClient /\ s \in Serving!Services
    BY <1>1, <2>1 DEF CallOK, HttpJob
  <2>3. r \in CallRecord(c)
    BY <1>1, <2>2, CallField DEF Places, ServeInv
  <2>4. /\ r.at = "send" /\ r.uses = client[s] /\ r.job = call[c].job
        /\ r.body = call[c].body /\ r.attempt = call[c].attempt
    BY <1>1 DEF CallRecord
  <2> HIDE DEF r
  <2>5. CASE call' = [call EXCEPT ![c] = r]
    BY <2>1, <2>3, <2>4, <2>5, ServeFound
  <2> QED BY <2>1, <2>2, <2>5, ServeReturn, ServeGoto DEF Places, Results
<1>4. CASE Serving!Validate(c)
  <2>1. /\ call[c].at = "validate"
        /\ Serving!Return(c, "panic") \/ Serving!Goto(c, "make")
        /\ UNCHANGED <<client, conn, openConns, received>>
    BY <1>4 DEF Serving!Validate
  <2>2. call[c].job.api = "new"
    BY <1>1, <2>1 DEF CallOK
  <2> QED BY <2>1, <2>2, ServeReturn, ServeGoto DEF Places, Results
<1>5. CASE Serving!NewHttpClient(c)
  <2> DEFINE r == [call[c] EXCEPT !.at = "send", !.uses = c]
  <2>1. /\ call[c].at = "make"
        /\ \/ call' = [call EXCEPT ![c] = r] /\ call[c].job.api = "new"
           \/ Serving!Return(c, "panic")
           \/ Serving!Goto(c, "made") /\ call[c].job.api # "new"
        /\ UNCHANGED <<client, conn, openConns, received>>
    BY <1>5 DEF Serving!NewHttpClient, Serving!Job
  <2>2. call[c].job.api = "new" \/ HasClient
    BY <1>1, <2>1 DEF CallOK
  <2>3. r \in CallRecord(c)
    BY <1>1, CallField DEF Places
  <2>4. /\ r.at = "send" /\ r.uses = c /\ r.job = call[c].job
        /\ r.body = call[c].body /\ r.attempt = call[c].attempt
    BY <1>1 DEF CallRecord
  <2> HIDE DEF r
  <2>5. CASE call' = [call EXCEPT ![c] = r] /\ call[c].job.api = "new"
    BY <2>1, <2>3, <2>4, <2>5, ServeFound
  <2> QED BY <2>1, <2>2, <2>5, ServeReturn, ServeGoto DEF Places, Results
<1>6. CASE Serving!GetServiceConn(c)
  <2> DEFINE r == [call[c] EXCEPT !.at = "done", !.uses = conn[s], !.result = "ok"]
  <2>1. /\ call[c].at = "conn"
        /\ \/ call' = [call EXCEPT ![c] = r] /\ conn[s] # Nobody
           \/ Serving!Return(c, "panic")
           \/ Serving!Goto(c, "dial") /\ Protocol[s] = "grpc"
        /\ UNCHANGED <<client, conn, openConns, received>>
    BY <1>6 DEF Serving!GetServiceConn, Serving!Service, Serving!Job
  <2>2. ConnJob(call[c].job) /\ s \in Serving!Services
    BY <1>1, <2>1 DEF CallOK, ConnJob
  <2>3. r \in CallRecord(c)
    BY <1>1, <2>2, CallField DEF Places, Results, ServeInv
  <2>4. /\ r.at = "done" /\ r.uses = conn[s] /\ r.job = call[c].job
        /\ r.body = call[c].body /\ r.attempt = call[c].attempt
    BY <1>1 DEF CallRecord
  <2> HIDE DEF r
  <2>5. CASE call' = [call EXCEPT ![c] = r] /\ conn[s] # Nobody
    <3>1. Protocol[s] = "grpc"
      BY <2>2, <2>5 DEF ServeInv, GrpcOnly
    <3> QED BY <2>1, <2>3, <2>4, <2>5, <3>1, ServeFound
  <2> QED BY <2>1, <2>2, <2>5, ServeReturn, ServeGoto DEF Places, Results
<1>7. CASE Serving!Dial(c)
  <2>1. /\ call[c].at = "dial"
        /\ \/ Serving!Goto(c, "dialed") /\ openConns' = openConns \cup {c}
           \/ Serving!Return(c, "panic") /\ UNCHANGED openConns
        /\ UNCHANGED <<client, conn, received>>
    BY <1>7 DEF Serving!Dial
  <2>2. HasConn
    BY <1>1, <2>1 DEF CallOK
  <2> QED BY <2>1, <2>2, ServeReturn, ServeGoto DEF Places, Results
<1>8. CASE Serving!NoAnswer(c)
  <2>1. /\ call[c].at = "wait"
        /\ \/ Serving!Goto(c, "send") /\ call[c].attempt < MaxAttempts
           \/ Serving!Return(c, "error")
        /\ UNCHANGED <<client, conn, openConns, received>>
    BY <1>8 DEF Serving!NoAnswer
  <2>2. call[c].job.api = "new" \/ HasClient
    BY <1>1, <2>1 DEF CallOK
  <2> QED BY <2>1, <2>2, ServeReturn, ServeGoto DEF Places, Results
<1> QED BY <1>2, <1>3, <1>4, <1>5, <1>6, <1>7, <1>8

\* Every step of a service call keeps the invariant.
LEMMA ServeStep ==
    ASSUME ServeInv, [Serving!Next]_(Serving!vars)
    PROVE  ServeInv'
<1>1. ASSUME NEW c \in Callers, Serving!Start(c) \/ Serving!Goes(c)
      PROVE  ServesOne(c)
  BY <1>1, ServeStart, ServeDo, ServeKeepClient, ServeKeepConn, ServeSend, ServeAnswer,
     ServeOther DEF Serving!Goes
<1>2. CASE UNCHANGED Serving!vars
  BY ZenonT(60), <1>2 DEF ServeInv, CallsOK, CallOK, UsesKept, OpenConnsOK, GrpcOnly, SenderOK,
     Serving!BodyIsWhole, Serving!Job, Serving!vars
<1> QED
  BY <1>1, <1>2, ServeFrame DEF Serving!Next

\* Calls of one service use one client, and what is open is kept.
LEMMA ServeOneClient == ServeInv => Serving!OneClient
<1> SUFFICES ASSUME ServeInv PROVE Serving!OneClient
  OBVIOUS
<1> USE DEF ServeInv, CallsOK, CallOK, CallRecord
<1>1. \A c \in openConns : call[c].at = "dialed" \/ \E s \in Serving!Services : conn[s] = c
  BY DEF OpenConnsOK
<1>2. ASSUME NEW c \in Callers, NEW d \in Callers, call[c].uses # Nobody, call[d].uses # Nobody,
             call[c].job.api # "new", call[d].job.api # "new",
             call[c].job.service = call[d].job.service
      PROVE  call[c].uses = call[d].uses
  BY <1>2 DEF UsesKept
<1> QED
  BY <1>1, <1>2 DEF Serving!OneClient, Serving!Job, Serving!Service

----------------------------------------------------------------------------
(***************************************************************************)
(* Pools, the client of mongo, jobs and the value of a Once: what is made  *)
(* stays in reach, and f runs once.                                        *)
(***************************************************************************)

\* The steps of an area.
Steps ==
    [gormx |-> {"idle", "load", "open", "resolver", "store", "close"},
     mongo |-> {"idle", "connect", "ping", "find", "keep"},
     cron  |-> {"idle", "schedule", "storeJob", "close"},
     once  |-> {"idle", "slow", "f", "got"}]

KeepTypes ==
    /\ area \in {"gormx", "mongo", "cron", "once"}
    /\ made \in Nat /\ live \subseteq 1..made
    /\ kept \in [Names -> 1..made \cup {Nobody}]
    /\ holder \in Callers \cup {Nobody} /\ operator \in 1..made \cup {Nobody}
    /\ done \in BOOLEAN
    /\ at \in [Callers -> Steps[area]] /\ name \in [Callers -> Names]
    /\ mine \in [Callers -> 1..made \cup {Nobody}]

\* Pools and jobs have one owner: the map, under one name, or the caller that
\* has just made it or is about to close it.
Owned ==
    /\ \A m, n \in Names : kept[m] # Nobody /\ kept[m] = kept[n] => m = n
    /\ \A n \in Names : kept[n] \in live \cup {Nobody}
    /\ \A c \in Callers : Keeping!Busy(c) =>
         /\ mine[c] \in live
         /\ \A n \in Names : kept[n] # mine[c]
         /\ \A d \in Callers : Keeping!Busy(d) /\ mine[d] = mine[c] => d = c
    /\ \A t \in live \ (replaced \cup stray) :
         (\E n \in Names : kept[n] = t) \/ \E c \in Callers : mine[c] = t /\ Keeping!Busy(c)
OwnedOK == area \in {"gormx", "cron"} => Owned

\* The client of mongo is made under operatorMu, by one caller at a time.
OneMongo ==
    /\ \A t \in live : t = operator \/ \E c \in Callers : at[c] = "ping" /\ mine[c] = t
    /\ \A c \in Callers :
         /\ at[c] \in {"connect", "ping"} => holder = c
         /\ at[c] = "ping" => operator = Nobody
MongoOK == area = "mongo" => OneMongo

\* While f has not returned nobody has a result, and at most the holder of the
\* mutex has called it; afterwards there is one result for good.
OneCall ==
    /\ live = {}
    /\ \A c \in Callers :
         /\ at[c] = "f" => holder = c /\ ~done
         /\ at[c] = "got" => done
    /\ ~done => results = {} /\ (made = 0 \/ (made = 1 /\ holder # Nobody))
    /\ done => made <= 1 /\ results \subseteq {operator}
    /\ holder # Nobody => ~done
OnceOK == area = "once" => OneCall

\* The inductive invariant of what is kept.
KeepInv == KeepTypes /\ OwnedOK /\ MongoOK /\ OnceOK

LEMMA KeepInit == Keeping!Init => KeepInv
<1> SUFFICES ASSUME Keeping!Init PROVE KeepInv
  OBVIOUS
<1> USE DEF Keeping!Init
<1>1. "idle" \in Steps[area]
  BY DEF Steps
<1>2. (CHOOSE n \in Names : TRUE) \in Names
  BY OnDemandParameters DEF Keeping!InstanceParameters
<1>3. KeepTypes
  BY <1>1, <1>2 DEF KeepTypes
<1>4. OwnedOK /\ MongoOK /\ OnceOK
  BY DEF OwnedOK, Owned, MongoOK, OneMongo, OnceOK, OneCall, Keeping!Busy
<1> QED BY <1>3, <1>4 DEF KeepInv

\* Whoever is at work is in the area that the work belongs to.
LEMMA KeepArea ==
    ASSUME KeepTypes, NEW c \in Callers
    PROVE  /\ at[c] \in {"load", "open", "resolver", "store"} => area = "gormx"
           /\ at[c] \in {"schedule", "storeJob"} => area = "cron"
           /\ at[c] = "close" => area \in {"gormx", "cron"}
           /\ at[c] \in {"connect", "ping", "find", "keep"} => area = "mongo"
           /\ at[c] \in {"slow", "f", "got"} => area = "once"
<1>1. at[c] \in Steps[area]
  BY DEF KeepTypes
<1> QED BY <1>1 DEF KeepTypes, Steps

\* How the types of the state may change in a step of c.
TypedStep(c) ==
    LET Things == 1..made' \cup {Nobody} IN
    /\ area' = area
    /\ \/ made' = made /\ live' \subseteq live
       \/ made' = made + 1 /\ live' \subseteq live \cup {made + 1}
    /\ at' = at \/ \E l \in Steps[area] : at' = [at EXCEPT ![c] = l]
    /\ name' = name \/ \E n \in Names : name' = [name EXCEPT ![c] = n]
    /\ mine' = mine \/ \E t \in Things : mine' = [mine EXCEPT ![c] = t]
    /\ kept' = kept \/ \E n \in Names, t \in Things : kept' = [kept EXCEPT ![n] = t]
    /\ holder' \in Callers \cup {Nobody} /\ operator' \in Things /\ done' \in BOOLEAN

LEMMA KeepTypesFrame ==
    ASSUME KeepTypes, NEW c \in Callers, TypedStep(c)
    PROVE  KeepTypes'
<1>1. /\ \/ made' = made /\ live' \subseteq live
         \/ made' = made + 1 /\ live' \subseteq live \cup {made + 1}
      /\ made \in Nat /\ live \subseteq 1..made
  BY DEF KeepTypes, TypedStep
<1>2. made' \in Nat /\ made <= made' /\ (made' = made + 1 => made + 1 \in 1..made')
  BY <1>1
<1>3. 1..made \subseteq 1..made'
  BY <1>1, <1>2
<1>4. live' \subseteq 1..made'
  <2>1. CASE made' = made /\ live' \subseteq live
    BY <1>1, <1>3, <2>1
  <2>2. CASE made' = made + 1 /\ live' \subseteq live \cup {made + 1}
    <3>1. \A t \in live' : t \in live \/ t = made + 1
      BY <2>2
    <3>2. live \subseteq 1..made
      BY <1>1
    <3> QED BY <1>2, <1>3, <2>2, <3>1, <3>2
  <2> QED BY <1>1, <2>1, <2>2
<1>5. mine' \in [Callers -> 1..made' \cup {Nobody}]
  BY <1>3 DEF KeepTypes, TypedStep
<1>6. kept' \in [Names -> 1..made' \cup {Nobody}]
  BY <1>3 DEF KeepTypes, TypedStep
<1> QED BY <1>2, <1>4, <1>5, <1>6 DEF KeepTypes, TypedStep

LEMMA KeepTyped ==
    ASSUME KeepTypes, NEW c \in Callers,
           \/ Keeping!InitConfig(c) \/ Keeping!InitLoad(c) \/ Keeping!InitOpen(c)
           \/ Keeping!InitReplicas(c) \/ Keeping!InitStore(c) \/ Keeping!Close(c)
           \/ Keeping!Closed(c) \/ Keeping!RegisterJob(c) \/ Keeping!AddJob(c)
           \/ Keeping!StoreJob(c) \/ Keeping!RemoveCronJob(c) \/ Keeping!InitMongo(c)
           \/ Keeping!Connect(c) \/ Keeping!Ping(c) \/ Keeping!GetCollection(c)
           \/ Keeping!Find(c) \/ Keeping!KeepFound(c) \/ Keeping!Do(c) \/ Keeping!Slow(c)
           \/ Keeping!FReturns(c) \/ Keeping!Got(c)
    PROVE  TypedStep(c)
<1>1. area \in {"gormx", "mongo", "cron", "once"} /\ made \in Nat /\ made + 1 \in 1..(made + 1)
  BY DEF KeepTypes
<1>2. at[c] \in Steps[area] /\ mine[c] \in 1..made \cup {Nobody} /\ name[c] \in Names
      /\ \A n \in Names : kept[n] \in 1..made \cup {Nobody}
      /\ holder \in Callers \cup {Nobody} /\ operator \in 1..made \cup {Nobody}
      /\ done \in BOOLEAN
  BY DEF KeepTypes
<1>3. 1..made \subseteq 1..(made + 1)
  BY <1>1
<1>4. /\ "idle" \in Steps[area]
      /\ area = "gormx" => {"load", "open", "resolver", "store", "close"} \subseteq Steps[area]
      /\ area = "mongo" => {"connect", "ping", "find", "keep"} \subseteq Steps[area]
      /\ area = "cron" => {"schedule", "storeJob", "close"} \subseteq Steps[area]
      /\ area = "once" => {"slow", "f", "got"} \subseteq Steps[area]
  BY <1>1 DEF Steps
<1> USE <1>1, <1>2, <1>3, <1>4, KeepArea DEF TypedStep, Keeping!Goto, Keeping!Call, Keeping!Make,
        Keeping!Kept, Keeping!Keep, Keeping!single, Keeping!history
<1>5. CASE Keeping!InitConfig(c)
  BY <1>5 DEF Keeping!InitConfig
<1>6. CASE Keeping!InitLoad(c)
  BY <1>6 DEF Keeping!InitLoad
<1>7. CASE Keeping!InitOpen(c)
  BY <1>7 DEF Keeping!InitOpen
<1>8. CASE Keeping!InitReplicas(c)
  BY <1>8 DEF Keeping!InitReplicas
<1>9. CASE Keeping!InitStore(c)
  BY <1>9 DEF Keeping!InitStore
<1>10. CASE Keeping!Close(c)
  BY <1>10 DEF Keeping!Close
<1>11. CASE Keeping!Closed(c)
  BY <1>11 DEF Keeping!Closed
<1>12. CASE Keeping!RegisterJob(c)
  BY <1>12 DEF Keeping!RegisterJob
<1>13. CASE Keeping!AddJob(c)
  BY <1>13 DEF Keeping!AddJob
<1>14. CASE Keeping!StoreJob(c)
  BY <1>14 DEF Keeping!StoreJob
<1>15. CASE Keeping!RemoveCronJob(c)
  BY <1>15 DEF Keeping!RemoveCronJob
<1>16. CASE Keeping!InitMongo(c)
  BY <1>16 DEF Keeping!InitMongo
<1>17. CASE Keeping!Connect(c)
  BY <1>17 DEF Keeping!Connect
<1>18. CASE Keeping!Ping(c)
  BY <1>18 DEF Keeping!Ping
<1>19. CASE Keeping!GetCollection(c)
  BY <1>19 DEF Keeping!GetCollection
<1>20. CASE Keeping!Find(c)
  BY <1>20 DEF Keeping!Find
<1>21. CASE Keeping!KeepFound(c)
  BY <1>21 DEF Keeping!KeepFound
<1>22. CASE Keeping!Do(c)
  BY <1>22 DEF Keeping!Do
<1>23. CASE Keeping!Slow(c)
  BY <1>23 DEF Keeping!Slow
<1>24. CASE Keeping!FReturns(c)
  BY <1>24 DEF Keeping!FReturns
<1>25. CASE Keeping!Got(c)
  BY <1>25 DEF Keeping!Got
<1> QED
  BY <1>5, <1>6, <1>7, <1>8, <1>9, <1>10, <1>11, <1>12, <1>13, <1>14, <1>15, <1>16, <1>17,
     <1>18, <1>19, <1>20, <1>21, <1>22, <1>23, <1>24, <1>25
  DEF Keeping!Next

\* A pool or job that has just been made is its maker's, and one that is taken
\* out of the map is the closer's.
LEMMA OwnedMade ==
    ASSUME KeepTypes, Owned, NEW c \in Callers, NEW l \in {"resolver", "storeJob"},
           at[c] \in {"open", "schedule"}, at' = [at EXCEPT ![c] = l],
           mine' = [mine EXCEPT ![c] = made + 1], live' = live \cup {made + 1},
           UNCHANGED <<kept, replaced, stray>>, Nobody \notin Nat
    PROVE  Owned'
<1>1. /\ made + 1 \notin live /\ made + 1 # Nobody
      /\ \A n \in Names : kept[n] # made + 1
  BY DEF KeepTypes
<1>2. mine'[c] = made + 1 /\ Keeping!Busy(c)' /\ ~Keeping!Busy(c)
  BY DEF KeepTypes, Keeping!Busy
<1>3. \A d \in Callers \ {c} :
        mine'[d] = mine[d] /\ (Keeping!Busy(d)' <=> Keeping!Busy(d))
  BY DEF KeepTypes, Keeping!Busy
<1>4. \A d \in Callers : Keeping!Busy(d) => mine[d] \in live
  BY DEF Owned
<1> QED BY <1>1, <1>2, <1>3, <1>4 DEF Owned

LEMMA OwnedTaken ==
    ASSUME KeepTypes, Owned, NEW c \in Callers, NEW n \in Names,
           at[c] = "idle", at' = [at EXCEPT ![c] = "close"], kept[n] # Nobody,
           kept' = [kept EXCEPT ![n] = Nobody], mine' = [mine EXCEPT ![c] = kept[n]],
           UNCHANGED <<live, replaced, stray>>, Nobody \notin Nat
    PROVE  Owned'
<1>1. kept'[n] = Nobody /\ \A m \in Names \ {n} : kept'[m] = kept[m] /\ kept'[m] # kept[n]
  BY DEF KeepTypes, Owned
<1>2. mine'[c] = kept[n] /\ kept[n] \in live /\ Keeping!Busy(c)' /\ ~Keeping!Busy(c)
  BY DEF KeepTypes, Owned, Keeping!Busy
<1>3. \A d \in Callers \ {c} :
        mine'[d] = mine[d] /\ (Keeping!Busy(d)' <=> Keeping!Busy(d))
  BY DEF KeepTypes, Keeping!Busy
<1>4. \A d \in Callers : Keeping!Busy(d) => mine[d] # kept[n]
  BY DEF Owned
<1>5. \A k, m \in Names : kept'[k] # Nobody /\ kept'[k] = kept'[m] => k = m
  BY <1>1 DEF Owned
<1>6. \A m \in Names : kept'[m] \in live' \cup {Nobody}
  BY <1>1 DEF Owned
<1>7. ASSUME NEW d \in Callers, Keeping!Busy(d)'
      PROVE  /\ mine'[d] \in live'
             /\ \A m \in Names : kept'[m] # mine'[d]
             /\ \A e \in Callers : Keeping!Busy(e)' /\ mine'[e] = mine'[d] => e = d
  <2>1. mine'[d] \in live'
    BY <1>2, <1>3, <1>7 DEF Owned
  <2>2. ASSUME NEW m \in Names PROVE kept'[m] # mine'[d]
    <3>0. \A t \in live : t \in Nat
      BY DEF KeepTypes
    <3>1. Nobody \notin live
      BY <3>0
    <3> QED BY <1>1, <1>2, <1>3, <1>7, <2>1, <3>1 DEF Owned
  <2>3. ASSUME NEW e \in Callers, Keeping!Busy(e)', mine'[e] = mine'[d] PROVE e = d
    BY <1>2, <1>3, <1>4, <1>7, <2>3 DEF Owned
  <2> QED BY <2>1, <2>2, <2>3
<1>8. ASSUME NEW t \in live' \ (replaced' \cup stray')
      PROVE  \/ \E m \in Names : kept'[m] = t
             \/ \E d \in Callers : mine'[d] = t /\ Keeping!Busy(d)'
  BY <1>1, <1>2, <1>3 DEF Owned
<1> QED BY <1>5, <1>6, <1>7, <1>8 DEF Owned

\* What is closed was nobody else's, and what is opened aside is nobody's at all.
LEMMA OwnedClosed ==
    ASSUME KeepTypes, Owned, NEW c \in Callers, NEW opened \in {{}, {made + 1}},
           at[c] \in {"resolver", "close"}, at' = [at EXCEPT ![c] = "idle"],
           live' = (live \ {mine[c]}) \cup opened, stray' = stray \cup opened,
           UNCHANGED <<kept, mine, replaced>>
    PROVE  Owned'
<1>1. Keeping!Busy(c) /\ ~Keeping!Busy(c)'
  BY DEF KeepTypes, Keeping!Busy
<1>2. \A d \in Callers \ {c} : Keeping!Busy(d)' <=> Keeping!Busy(d)
  BY DEF KeepTypes, Keeping!Busy
<1> QED BY <1>1, <1>2 DEF Owned

\* The pools of sources and replicas come beside the pool that is going to be stored.
LEMMA OwnedBeside ==
    ASSUME KeepTypes, Owned, NEW c \in Callers, NEW opened \in {{}, {made + 1}},
           at[c] = "resolver", at' = [at EXCEPT ![c] = "store"],
           live' = live \cup opened, stray' = stray \cup opened,
           UNCHANGED <<kept, mine, replaced>>
    PROVE  Owned'
<1>1. \A d \in Callers : Keeping!Busy(d)' <=> Keeping!Busy(d)
  BY DEF KeepTypes, Keeping!Busy
<1> QED BY <1>1 DEF Owned

\* A pool that could not be pinged is nobody's.
LEMMA OwnedUnpinged ==
    ASSUME KeepTypes, Owned, NEW c \in Callers,
           at[c] = "open", at' = [at EXCEPT ![c] = "idle"],
           mine' = [mine EXCEPT ![c] = made + 1],
           live' = live \cup {made + 1}, stray' = stray \cup {made + 1},
           UNCHANGED <<kept, replaced>>
    PROVE  Owned'
<1>1. ~Keeping!Busy(c) /\ ~Keeping!Busy(c)'
  BY DEF KeepTypes, Keeping!Busy
<1>2. \A d \in Callers \ {c} :
        mine'[d] = mine[d] /\ (Keeping!Busy(d)' <=> Keeping!Busy(d))
  BY DEF KeepTypes, Keeping!Busy
<1> QED BY <1>1, <1>2 DEF Owned

\* Pools and jobs: every step keeps the types and the owners.
LEMMA KeepOwned ==
    ASSUME KeepInv, NEW c \in Callers,
           \/ Keeping!InitConfig(c) \/ Keeping!InitLoad(c) \/ Keeping!InitOpen(c)
           \/ Keeping!InitReplicas(c) \/ Keeping!InitStore(c) \/ Keeping!Close(c)
           \/ Keeping!Closed(c) \/ Keeping!RegisterJob(c) \/ Keeping!AddJob(c)
           \/ Keeping!StoreJob(c) \/ Keeping!RemoveCronJob(c)
    PROVE  KeepInv'
<1>1. area \in {"gormx", "cron"} /\ area' = area
  BY KeepArea
  DEF KeepInv, Keeping!InitConfig, Keeping!InitLoad, Keeping!InitOpen, Keeping!InitReplicas,
      Keeping!InitStore, Keeping!Close, Keeping!Closed, Keeping!RegisterJob, Keeping!AddJob,
      Keeping!StoreJob, Keeping!RemoveCronJob, Keeping!Call
<1>2. KeepTypes /\ Owned
  BY <1>1 DEF KeepInv, OwnedOK
<1>3. Nobody \notin Nat
  BY OnDemandParameters DEF Keeping!InstanceParameters
<1>4. MongoOK' /\ OnceOK'
  BY <1>1 DEF MongoOK, OnceOK
<1>5. KeepTypes'
  BY <1>2, KeepTyped, KeepTypesFrame
<1>6. Owned'
  <2>6. CASE Keeping!Close(c)
    <3>1. PICK n \in Names : /\ kept[n] # Nobody /\ kept' = [kept EXCEPT ![n] = Nobody]
                             /\ mine' = [mine EXCEPT ![c] = kept[n]]
      BY <2>6 DEF Keeping!Close
    <3>2. /\ at[c] = "idle" /\ at' = [at EXCEPT ![c] = "close"]
          /\ UNCHANGED <<live, replaced, stray>>
      BY <2>6 DEF Keeping!Close, Keeping!Goto, Keeping!history
    <3> QED
      BY <1>2, <1>3, <3>1, <3>2, OwnedTaken
  <2>11. CASE Keeping!RemoveCronJob(c)
    <3>1. PICK n \in Names : /\ kept[n] # Nobody /\ kept' = [kept EXCEPT ![n] = Nobody]
                             /\ mine' = [mine EXCEPT ![c] = kept[n]]
      BY <2>11 DEF Keeping!RemoveCronJob
    <3>2. /\ at[c] = "idle" /\ at' = [at EXCEPT ![c] = "close"]
          /\ UNCHANGED <<live, replaced, stray>>
      BY <2>11 DEF Keeping!RemoveCronJob, Keeping!Goto, Keeping!history
    <3> QED
      BY <1>2, <1>3, <3>1, <3>2, OwnedTaken
  <2> USE <1>1, <1>2, <1>3 DEF KeepTypes, Owned, Keeping!Busy, Keeping!Goto, Keeping!Call,
          Keeping!Make, Keeping!Kept, Keeping!Keep, Keeping!single, Keeping!history
  <2>1. CASE Keeping!InitConfig(c)
    BY <2>1 DEF Keeping!InitConfig
  <2>2. CASE Keeping!InitLoad(c)
    BY <2>2 DEF Keeping!InitLoad
  <2>3. CASE Keeping!InitOpen(c)
    <3>1. CASE Keeping!Goto(c, "idle") /\ UNCHANGED <<live, made, mine, stray>>
      BY <2>3, <3>1 DEF Keeping!InitOpen
    <3>2. CASE /\ Keeping!Make(c) /\ live' = live \cup {made + 1}
               /\ Keeping!Goto(c, "resolver") /\ UNCHANGED stray
      BY ONLY <1>2, <1>3, <2>3, <3>2, OwnedMade
      DEF Keeping!InitOpen, Keeping!Goto, Keeping!Make
    <3>3. CASE /\ Keeping!Make(c) /\ live' = live \cup {made + 1}
               /\ Keeping!Goto(c, "idle") /\ stray' = stray \cup {made + 1}
      BY ONLY <1>2, <1>3, <2>3, <3>3, OwnedUnpinged
      DEF Keeping!InitOpen, Keeping!Goto, Keeping!Make
    <3> QED BY ONLY <2>3, <3>1, <3>2, <3>3 DEF Keeping!InitOpen
  <2>4. CASE Keeping!InitReplicas(c)
    <3>0. PICK opened \in {{}, {made + 1}} :
            /\ stray' = stray \cup opened
            /\ \/ Keeping!Goto(c, "store") /\ live' = live \cup opened
               \/ Keeping!Goto(c, "idle") /\ live' = (live \ {mine[c]}) \cup opened
      BY ONLY <2>4 DEF Keeping!InitReplicas
    <3>1. at[c] = "resolver" /\ UNCHANGED <<kept, mine, replaced>>
      BY ONLY <2>4 DEF Keeping!InitReplicas
    <3>2. CASE Keeping!Goto(c, "store") /\ live' = live \cup opened
      BY ONLY <1>2, <3>0, <3>1, <3>2, OwnedBeside DEF Keeping!Goto
    <3>3. CASE Keeping!Goto(c, "idle") /\ live' = (live \ {mine[c]}) \cup opened
      BY ONLY <1>2, <3>0, <3>1, <3>3, OwnedClosed DEF Keeping!Goto
    <3> QED BY ONLY <3>0, <3>2, <3>3
  <2>5. CASE Keeping!InitStore(c)
    BY <2>5 DEF Keeping!InitStore
  <2>7. CASE Keeping!Closed(c)
    <3>1. /\ at[c] = "close" /\ at' = [at EXCEPT ![c] = "idle"]
          /\ live' = (live \ {mine[c]}) \cup {} /\ stray' = stray \cup {}
          /\ UNCHANGED <<kept, mine, replaced>>
      BY ONLY <2>7 DEF Keeping!Closed, Keeping!Goto, Keeping!history
    <3> QED BY ONLY <1>2, <3>1, OwnedClosed
  <2>8. CASE Keeping!RegisterJob(c)
    BY <2>8 DEF Keeping!RegisterJob
  <2>9. CASE Keeping!AddJob(c)
    <3>1. CASE Keeping!Goto(c, "idle") /\ UNCHANGED <<live, made, mine>>
      BY <2>9, <3>1 DEF Keeping!AddJob
    <3>2. CASE Keeping!Make(c) /\ live' = live \cup {made + 1} /\ Keeping!Goto(c, "storeJob")
      BY ONLY <1>2, <1>3, <2>9, <3>2, OwnedMade
      DEF Keeping!AddJob, Keeping!Goto, Keeping!Make, Keeping!history
    <3> QED BY ONLY <2>9, <3>1, <3>2 DEF Keeping!AddJob
  <2>10. CASE Keeping!StoreJob(c)
    BY <2>10 DEF Keeping!StoreJob
  <2> QED
    BY <2>1, <2>2, <2>3, <2>4, <2>5, <2>6, <2>7, <2>8, <2>9, <2>10, <2>11
<1> QED BY <1>4, <1>5, <1>6 DEF KeepInv, OwnedOK

\* The client of mongo and what is found through it.
LEMMA KeepMongo ==
    ASSUME KeepInv, NEW c \in Callers,
           \/ Keeping!InitMongo(c) \/ Keeping!Connect(c) \/ Keeping!Ping(c)
           \/ Keeping!GetCollection(c) \/ Keeping!Find(c) \/ Keeping!KeepFound(c)
    PROVE  KeepInv'
<1>1. area = "mongo" /\ area' = area
  BY KeepArea
  DEF KeepInv, Keeping!InitMongo, Keeping!Connect, Keeping!Ping, Keeping!GetCollection,
      Keeping!Find, Keeping!KeepFound, Keeping!Call
<1>2. KeepTypes /\ OneMongo
  BY <1>1 DEF KeepInv, MongoOK
<1>3. Nobody \notin Nat \cup Callers
  BY OnDemandParameters DEF Keeping!InstanceParameters
<1>4. OwnedOK' /\ OnceOK'
  BY <1>1 DEF OwnedOK, OnceOK
<1>5. KeepTypes'
  BY <1>2, KeepTyped, KeepTypesFrame
<1>6. OneMongo'
  <2> USE <1>1, <1>2, <1>3 DEF KeepTypes, Steps, OneMongo, Keeping!Goto, Keeping!Call,
          Keeping!Make, Keeping!Kept, Keeping!Keep, Keeping!single, Keeping!history
  <2>1. CASE Keeping!InitMongo(c)
    BY <2>1 DEF Keeping!InitMongo
  <2>2. CASE Keeping!Connect(c)
    BY ZenonT(60), <2>2 DEF Keeping!Connect
  <2>3. CASE Keeping!Ping(c)
    <3>1. at[c] = "ping" /\ holder = c /\ operator = Nobody /\ at'[c] = "idle" /\ mine' = mine
      BY <2>3 DEF Keeping!Ping
    <3>2. \A d \in Callers \ {c} : at'[d] = at[d] /\ at[d] \notin {"connect", "ping"}
      BY <2>3, <3>1 DEF Keeping!Ping
    <3>3. \A t \in live : t = mine[c]
      BY <3>1, <3>2
    <3>4. \/ operator' = mine[c] /\ live' = live
          \/ live' = live \ {mine[c]} /\ operator' = operator
      BY ONLY <2>3 DEF Keeping!Ping
    <3> QED BY ONLY <3>1, <3>2, <3>3, <3>4 DEF OneMongo
  <2>4. CASE Keeping!GetCollection(c)
    BY <2>4 DEF Keeping!GetCollection
  <2>5. CASE Keeping!Find(c)
    BY <2>5 DEF Keeping!Find
  <2>6. CASE Keeping!KeepFound(c)
    BY <2>6 DEF Keeping!KeepFound
  <2> QED
    BY <2>1, <2>2, <2>3, <2>4, <2>5, <2>6
<1> QED BY <1>4, <1>5, <1>6 DEF KeepInv, MongoOK

\* The value of a Once.
LEMMA KeepOnce ==
    ASSUME KeepInv, NEW c \in Callers,
           Keeping!Do(c) \/ Keeping!Slow(c) \/ Keeping!FReturns(c) \/ Keeping!Got(c)
    PROVE  KeepInv'
<1>1. area = "once" /\ area' = area
  BY KeepArea
  DEF KeepInv, Keeping!Do, Keeping!Slow, Keeping!FReturns, Keeping!Got
<1>2. KeepTypes /\ OneCall
  BY <1>1 DEF KeepInv, OnceOK
<1>3. Nobody \notin Nat \cup Callers
  BY OnDemandParameters DEF Keeping!InstanceParameters
<1>4. OwnedOK' /\ MongoOK'
  BY <1>1 DEF OwnedOK, MongoOK
<1>5. KeepTypes'
  BY <1>2, KeepTyped, KeepTypesFrame
<1>6. OneCall'
  <2> USE <1>1, <1>2, <1>3 DEF KeepTypes, Steps, OneCall, Keeping!Goto, Keeping!Call,
          Keeping!Make, Keeping!Kept, Keeping!Keep, Keeping!single, Keeping!history
  <2>1. CASE Keeping!Do(c)
    BY <2>1 DEF Keeping!Do
  <2>2. CASE Keeping!Slow(c)
    BY <2>2 DEF Keeping!Slow
  <2>3. CASE Keeping!FReturns(c)
    BY <2>3 DEF Keeping!FReturns
  <2>4. CASE Keeping!Got(c)
    BY <2>4 DEF Keeping!Got
  <2> QED
    BY <2>1, <2>2, <2>3, <2>4 DEF Keeping!Next
<1> QED BY <1>4, <1>5, <1>6 DEF KeepInv, OnceOK

LEMMA KeepStep ==
    ASSUME KeepInv, [Keeping!Next]_(Keeping!vars)
    PROVE  KeepInv'
<1>1. CASE UNCHANGED Keeping!vars
  <2>1. UNCHANGED instanceVars
    BY ONLY <1>1 DEF instanceVars, Keeping!vars, Keeping!single, Keeping!history
  <2>2. KeepTypes' /\ OwnedOK'
    BY ONLY <2>1, KeepInv DEF KeepInv, KeepTypes, OwnedOK, Owned, Keeping!Busy, instanceVars
  <2>3. MongoOK' /\ OnceOK'
    BY ONLY <2>1, KeepInv DEF KeepInv, MongoOK, OneMongo, OnceOK, OneCall, instanceVars
  <2> QED BY ONLY <2>2, <2>3 DEF KeepInv
<1> QED BY <1>1, KeepOwned, KeepMongo, KeepOnce DEF Keeping!Next

\* What is made stays in reach, and f runs once.
LEMMA KeepReach == KeepInv => Keeping!InReach /\ Keeping!OnceRuns
<1> SUFFICES ASSUME KeepInv PROVE Keeping!InReach /\ Keeping!OnceRuns
  OBVIOUS
<1>1. Keeping!InReach
  BY DEF KeepInv, KeepTypes, OwnedOK, Owned, MongoOK, OneMongo, OnceOK, OneCall,
     Keeping!InReach, Keeping!Busy
<1>2. ASSUME area = "once" PROVE made <= 1 /\ \A r, s \in results : r = s
  BY <1>2 DEF KeepInv, KeepTypes, OnceOK, OneCall
<1> QED BY <1>1, <1>2 DEF Keeping!OnceRuns

----------------------------------------------------------------------------
(***************************************************************************)
(* The parts together.                                                     *)
(***************************************************************************)
AllInv == DeclareInv /\ PushInv /\ ServeInv /\ KeepInv

allVars == <<declareVars, pushVars, serviceVars, instanceVars, part>>

\* A step of the whole is a step of each part, or leaves it alone.
LEMMA AllSteps ==
    ASSUME [AllNext]_allVars
    PROVE  /\ [Declaring!Next]_(Declaring!vars) /\ [Pushing!Next]_(Pushing!vars)
           /\ [Serving!Next]_(Serving!vars) /\ [Keeping!Next]_(Keeping!vars)
BY DEF AllNext, allVars, declareVars, pushVars, serviceVars, instanceVars, Declaring!vars,
       Pushing!vars, Pushing!net, Pushing!closer, Serving!vars, Keeping!vars,
       Keeping!single, Keeping!history

\* Every behaviour keeps the invariants of the parts: the mutexes are held by
\* whoever is inside, what is kept is what is used, and what is open or live
\* has an owner that will close it (rmq.go, kafka.go, httpx, grpcx, gormx/db.go,
\* mongo.go, cron.go, bufferx).
THEOREM OnDemandInvariant == AllSpec => []AllInv
<1>1. AllInit => AllInv
  BY DeclareInit, PushInit, ServeInit, KeepInit DEF AllInit, AllInv
<1>2. AllInv /\ [AllNext]_allVars => AllInv'
  BY AllSteps, DeclareStep, PushStep, ServeStep, KeepStep DEF AllInv
<1> QED BY <1>1, <1>2, PTL DEF AllSpec, allVars

\* Goroutines that find nothing at the same time declare once, and end up with
\* one writer, client, connection or value of f; every pool, job and client
\* that is live can be found by its name, or somebody is at it.
THEOREM OneIsMade == AllSpec => []OneOfEach
<1>1. AllInv => OneOfEach
  BY ServeOneClient, KeepReach DEF AllInv, OneOfEach, DeclareInv, PushInv
<1> QED BY <1>1, OnDemandInvariant, PTL

\* A key is in the cache of declarations only while the object is at the
\* broker, or a deletion is still under way or has seen the race (rmq.go).
THEOREM CachedAreDeclared == AllSpec => []CachedExists
<1>1. AllInv => CachedExists
  BY DEF AllInv, CachedExists, DeclareInv
<1> QED BY <1>1, OnDemandInvariant, PTL

\* Whatever a server gets is the whole request, with every attempt, unless it
\* has parts that are readers (ral, httpx).
THEOREM RequestsAreWhole == AllSpec => []BodyIsWhole
<1>1. AllInv => BodyIsWhole
  BY DEF AllInv, BodyIsWhole, ServeInv
<1> QED BY <1>1, OnDemandInvariant, PTL

\* Once Close of kafkax has returned no message is stored any more, whatever
\* pushes were under way (kafka.go).
THEOREM ClosedIsQuiet == AllSpec => NothingStoredAfterClose
<1>1. AllInv /\ [AllNext]_allVars => [closing = "end" => stored' = stored]_(Pushing!vars)
  BY AllSteps, PushNothingStored DEF AllInv
<1> QED
  BY <1>1, OnDemandInvariant, PTL
  DEF AllSpec, allVars, NothingStoredAfterClose, Pushing!NothingStoredAfterClose
=============================================================================
