------------------------- MODULE ObsOperatorProofs -------------------------
(***************************************************************************)
(* Proofs about the bucket operations, for any keys, any callers and jobs, *)
(* any capacity of the listing channel and any number of retries: an       *)
(* operation that returns without an error has seen all that was there,    *)
(* and, where no job moves objects into what another renames away, nothing *)
(* is lost.                                                                *)
(***************************************************************************)
EXTENDS ObsOperator, WellFoundedInduction, SequenceTheorems, TLAPS

----------------------------------------------------------------------------
(***************************************************************************)
(* The records of a caller and its listing, field by field.                *)
(***************************************************************************)
Objects == objects = [k \in Keys |-> objects[k]]

Calls ==
    /\ call = [c \in Callers |-> call[c]]
    /\ \A c \in Callers : call[c] =
        [at |-> call[c].at, job |-> call[c].job, gone |-> call[c].gone, keys |-> call[c].keys,
         failed |-> call[c].failed, tries |-> call[c].tries, start |-> call[c].start,
         result |-> call[c].result]

Listers ==
    /\ lister = [c \in Callers |-> lister[c]]
    /\ \A c \in Callers : lister[c] =
        [at |-> lister[c].at, dir |-> lister[c].dir, last |-> lister[c].last,
         item |-> lister[c].item, buf |-> lister[c].buf, cancelled |-> lister[c].cancelled]

Items == Keys \cup {Failed}

Types ==
    /\ Objects /\ Calls /\ Listers
    /\ stable = [c \in Callers |-> stable[c]]
    /\ \A c \in Callers :
        /\ lister[c].last \in Nat /\ lister[c].item \in Items /\ lister[c].buf \in Seq(Items)

\* A key has a place in the order of listings, of its own.
LEMMA KeyFacts ==
    /\ \A k \in Keys : Rank(k) \in Nat \ {0} /\ k \in Dirs \ {<<>>}
    /\ \A k, l \in Keys : Rank(k) = Rank(l) => k = l
<1>1. ASSUME NEW k \in Keys PROVE Rank(k) \in DOMAIN KeyOrder /\ KeyOrder[Rank(k)] = k
  <2>1. \E i \in DOMAIN KeyOrder : KeyOrder[i] = k
    BY DEF Keys, Range
  <2> QED BY <2>1 DEF Rank
<1> QED BY <1>1, ObsAssumption

\* Of several keys one comes first.
LEMMA LeastRank ==
    ASSUME NEW S \in SUBSET Keys, S # {}
    PROVE  \E k \in S : \A l \in S : Rank(k) <= Rank(l)
<1> DEFINE T == {Rank(k) : k \in S}
<1>1. T \subseteq Nat /\ T # {}
  BY KeyFacts
<1>2. \E x \in T : \A y \in T : <<y, x>> \notin OpToRel(<, Nat)
  <2> HIDE DEF T
  <2> QED BY <1>1, NatLessThanWellFounded, WFMin
<1>3. PICK x \in T : \A y \in T : <<y, x>> \notin OpToRel(<, Nat)
  BY <1>2
<1> HIDE DEF T
<1>4. ASSUME NEW y \in T PROVE x <= y
  <2>1. x \in Nat /\ y \in Nat /\ <<y, x>> \notin OpToRel(<, Nat)
    BY <1>1, <1>3
  <2>2. ~ (y < x)
    BY <2>1 DEF OpToRel
  <2>3. \A m, n \in Nat : ~ (n < m) => m <= n
    OBVIOUS
  <2> QED BY <2>1, <2>2, <2>3
<1> QED BY <1>4 DEF T

----------------------------------------------------------------------------
\* The initial values are records of these fields.
LEMMA TypesInit == Init => Types
<1> SUFFICES ASSUME Init PROVE Types
  OBVIOUS
<1>1. Objects /\ stable = [c \in Callers |-> stable[c]]
  BY ObsAssumption DEF Init, Objects
<1>2. Calls BY DEF Init, NoCall, Calls
<1>3. Listers BY DEF Init, NoLister, Listers
<1>4. \A c \in Callers :
        /\ lister[c].last \in Nat /\ lister[c].item \in Items /\ lister[c].buf \in Seq(Items)
  <2>1. Failed \in Items /\ Failed = <<>>
    BY DEF Items, Failed
  <2>2. \A c \in Callers : lister[c].last = 0 /\ lister[c].item = <<>> /\ lister[c].buf = <<>>
    BY DEF Init, NoLister
  <2>3. <<>> \in Seq(Items) /\ 0 \in Nat
    OBVIOUS
  <2> QED BY <2>1, <2>2, <2>3, Zenon
<1> QED BY <1>1, <1>2, <1>3, <1>4 DEF Types

(***************************************************************************)
(* What a step does to the records of the caller that takes it.            *)
(***************************************************************************)
CallBecomes(c, at, result, keys, failed) ==
    /\ Calls' /\ \A d \in Callers \ {c} : call'[d] = call[d]
    /\ call'[c].at = at /\ call'[c].result = result
    /\ call'[c].keys = keys /\ call'[c].failed = failed
    /\ call'[c].job = call[c].job /\ call'[c].gone = call[c].gone
    /\ call'[c].start = call[c].start

ListerBecomes(c, at, last, item, buf) ==
    /\ Listers' /\ \A d \in Callers \ {c} : lister'[d] = lister[d]
    /\ lister'[c].at = at /\ lister'[c].last = last
    /\ lister'[c].item = item /\ lister'[c].buf = buf
    /\ lister'[c].dir = lister[c].dir /\ lister'[c].cancelled = lister[c].cancelled

NewLister(c, d) ==
    /\ Listers' /\ \A b \in Callers \ {c} : lister'[b] = lister[b]
    /\ lister'[c].at = "run" /\ lister'[c].last = 0 /\ lister'[c].item = <<>>
    /\ lister'[c].buf = <<>> /\ lister'[c].dir = d /\ lister'[c].cancelled = FALSE

\* What was unchanged and still is.
BucketMoves ==
    /\ Objects' /\ stable' = [c \in Callers |-> stable'[c]]
    /\ \A c \in Callers : \A k \in stable'[c] : k \in stable[c] /\ objects'[k] = objects[k]

LEMMA Gone ==
    ASSUME Calls, NEW c \in Callers, NEW l, Goto(c, l)
    PROVE  CallBecomes(c, l, call[c].result, call[c].keys, call[c].failed)
<1>1. Calls' BY DEF Calls, Goto
<1>2. call'[c] = [call[c] EXCEPT !.at = l] /\ \A d \in Callers \ {c} : call'[d] = call[d]
  BY DEF Calls, Goto
<1> QED BY <1>1, <1>2 DEF Calls, CallBecomes

LEMMA Back ==
    ASSUME Calls, NEW c \in Callers, NEW r, call' = Returned(c, r)
    PROVE  CallBecomes(c, "done", r, call[c].keys, call[c].failed)
<1>1. Calls' BY DEF Calls, Returned
<1>2. /\ call'[c] = [call[c] EXCEPT !.at = "done", !.result = r]
      /\ \A d \in Callers \ {c} : call'[d] = call[d]
  BY DEF Calls, Returned
<1> QED BY <1>1, <1>2 DEF Calls, CallBecomes

LEMMA BackListing ==
    ASSUME Listers, NEW c \in Callers, NEW r, Return(c, r)
    PROVE  /\ Listers' /\ \A d \in Callers \ {c} : lister'[d] = lister[d]
           /\ lister'[c].last = lister[c].last /\ lister'[c].item = lister[c].item
           /\ lister'[c].buf = lister[c].buf /\ lister'[c].at = lister[c].at
           /\ lister'[c].dir = lister[c].dir
<1>1. Listers' BY DEF Listers, Return
<1>2. /\ lister'[c] = [lister[c] EXCEPT !.cancelled = Cancels(Job(c))]
      /\ \A d \in Callers \ {c} : lister'[d] = lister[d]
  BY DEF Listers, Return
<1> QED BY <1>1, <1>2 DEF Listers

LEMMA Gathered ==
    ASSUME Calls, NEW c \in Callers, NEW f, NEW ks,
           call' = [call EXCEPT ![c].failed = f, ![c].keys = ks]
    PROVE  CallBecomes(c, call[c].at, call[c].result, ks, f)
<1>1. Calls' BY DEF Calls
<1>2. /\ call'[c] = [call[c] EXCEPT !.failed = f, !.keys = ks]
      /\ \A d \in Callers \ {c} : call'[d] = call[d]
  BY DEF Calls
<1>3. call'[c] = [call[c] EXCEPT !.failed = f, !.keys = ks]
      => /\ call'[c].failed = f /\ call'[c].keys = ks /\ call'[c].at = call[c].at
         /\ call'[c].result = call[c].result
  BY DEF Calls
<1>4. call'[c] = [call[c] EXCEPT !.failed = f, !.keys = ks]
      => /\ call'[c].job = call[c].job /\ call'[c].gone = call[c].gone
         /\ call'[c].start = call[c].start
  BY DEF Calls
<1> QED BY <1>1, <1>2, <1>3, <1>4, Zenon DEF CallBecomes

LEMMA GatheredKeys ==
    ASSUME Calls, NEW c \in Callers, NEW ks, call' = [call EXCEPT ![c].keys = ks]
    PROVE  CallBecomes(c, call[c].at, call[c].result, ks, call[c].failed)
<1>1. Calls' BY DEF Calls
<1>2. /\ call'[c] = [call[c] EXCEPT !.keys = ks]
      /\ \A d \in Callers \ {c} : call'[d] = call[d]
  BY DEF Calls
<1> QED BY <1>1, <1>2 DEF Calls, CallBecomes

LEMMA Taken ==
    ASSUME Listers, NEW c \in Callers, TakeItem(c)
    PROVE  ListerBecomes(c, lister[c].at, lister[c].last, lister[c].item, Tail(lister[c].buf))
<1>1. Listers' BY DEF Listers, TakeItem
<1>2. /\ lister'[c] = [lister[c] EXCEPT !.buf = Tail(@)]
      /\ \A d \in Callers \ {c} : lister'[d] = lister[d]
  BY DEF Listers, TakeItem
<1> QED BY <1>1, <1>2 DEF Listers, ListerBecomes

LEMMA Fresh ==
    ASSUME Listers, NEW c \in Callers, NEW d, ListObjects(c, d)
    PROVE  NewLister(c, d)
<1>1. /\ lister'[c] = [NoLister EXCEPT !.at = "run", !.dir = d]
      /\ \A b \in Callers \ {c} : lister'[b] = lister[b]
      /\ lister' = [b \in Callers |-> lister'[b]]
  BY DEF Listers, ListObjects
<1> QED BY <1>1 DEF Listers, NewLister, NoLister

\* A write, and a step that writes nothing.
LEMMA Wrote ==
    ASSUME Types, NEW k, NEW v, Store([objects EXCEPT ![k] = v])
    PROVE  BucketMoves
BY DEF Types, Objects, Store, BucketMoves

LEMMA WroteNothing == ASSUME Types, UNCHANGED store PROVE BucketMoves
BY DEF Types, Objects, store, BucketMoves

----------------------------------------------------------------------------
(***************************************************************************)
(* A listing brings all that it has to.                                    *)
(***************************************************************************)

\* Which operation is where.
Places(c) ==
    /\ call[c].at = "list" => Job(c).op \in {"rename", "delete", "download", "listAll", "exist"}
    /\ call[c].at = "copyAll" => Job(c).op = "rename"
    /\ call[c].at = "collect" => Job(c).op \in {"rename", "delete"}
    /\ call[c].at \in {"download", "listAll", "exist"} => Job(c).op = call[c].at
    /\ call[c].at = "removeAll" => Job(c).op \in {"rename", "delete", "removeObjects"}
    /\ call[c].at = "stat" => Job(c).op = "exist"
    /\ call[c].result = "ok" => call[c].at = "done"

Reads(c) == call[c].at \in {"copyAll", "collect", "download", "listAll", "exist"}

Reading(c) == Reads(c) => ~lister[c].cancelled /\ lister[c].dir = Job(c).src

\* The keys whose fate a property asks for are there, and only operations that
\* list a directory have any.
Keeps(c) ==
    /\ \A k \in stable[c] : k \in Under(Job(c).src) /\ objects[k] # None
    /\ Job(c).op = "removeObjects"
         \/ call[c].at \notin {"copyAll", "collect", "download", "listAll", "removeAll", "done"}
       => stable[c] = {}

\* The reader will meet k, or an error, in what the listing still brings.
Pending(c, k) ==
    \/ \E i \in 1..Len(lister[c].buf) : lister[c].buf[i] \in {k, Failed}
    \/ lister[c].at = "send" /\ lister[c].item \in {k, Failed}
    \/ lister[c].at \in {"run", "send"} /\ Rank(k) > lister[c].last

\* The reader has taken k, or an error that it will return.
Settled(c, k) ==
    \/ k \in call[c].keys
    \/ IF call[c].at = "download" THEN IsDir(k) ELSE call[c].failed

Seen(c) ==
    /\ call[c].at \in {"collect", "download", "listAll"} =>
         \A k \in stable[c] : Pending(c, k) \/ Settled(c, k)
    /\ call[c].at = "removeAll" => call[c].failed \/ stable[c] \subseteq call[c].keys
    /\ Complete(c)

ListedOK(c) == Places(c) /\ Reading(c) /\ Keeps(c) /\ (Alive(c) => Seen(c))

\* What a step of c does to the others, and to the types.
Others(c) ==
    /\ Types'
    /\ \A d \in Callers \ {c} :
        /\ call'[d] = call[d] /\ lister'[d] = lister[d]
        /\ \A k \in stable'[d] : k \in stable[d] /\ objects'[k] = objects[k]

\* The others go on as before: what they keep can only become less.
LEMMA OthersKeep ==
    ASSUME NEW c \in Callers, Others(c), NEW d \in Callers \ {c}, ListedOK(d)
    PROVE  ListedOK(d)'
<1>1. call'[d] = call[d] /\ lister'[d] = lister[d]
  BY DEF Others
<1>2. \A k \in stable'[d] : k \in stable[d] /\ objects'[k] = objects[k]
  BY DEF Others
<1>3. (Places(d) /\ Reading(d) /\ Keeps(d))'
  BY <1>1, <1>2 DEF ListedOK, Places, Reading, Reads, Keeps, Job
<1>4. ASSUME Alive(d)' PROVE Seen(d)'
  <2>1. Seen(d) BY <1>1, <1>4 DEF Alive, ListedOK
  <2>2. \A k \in stable'[d] : Pending(d, k) => Pending(d, k)'
    BY <1>1 DEF Pending
  <2>3. \A k \in stable'[d] : Settled(d, k) => Settled(d, k)'
    BY <1>1 DEF Settled
  <2> QED BY <1>1, <1>2, <2>1, <2>2, <2>3 DEF Seen, Complete, Job
<1> QED BY <1>3, <1>4 DEF ListedOK

\* A step of c that leaves the listing, or only takes its head.
LEMMA OthersSame ==
    ASSUME Types, NEW c \in Callers, BucketMoves,
           Calls', \A d \in Callers \ {c} : call'[d] = call[d],
           Listers', \A d \in Callers \ {c} : lister'[d] = lister[d],
           lister'[c].last \in Nat, lister'[c].item \in Items, lister'[c].buf \in Seq(Items)
    PROVE  Others(c)
BY DEF Types, BucketMoves, Others

LEMMA SameLister ==
    ASSUME Types, NEW c \in Callers, UNCHANGED lister
    PROVE  /\ Listers' /\ \A d \in Callers \ {c} : lister'[d] = lister[d]
           /\ lister'[c].last \in Nat /\ lister'[c].item \in Items
           /\ lister'[c].buf \in Seq(Items)
BY DEF Types, Listers

\* A step outside of every listing has nothing to keep.
LEMMA NothingKept ==
    ASSUME NEW c \in Callers, stable'[c] = {}, Places(c)', ~Reads(c)'
    PROVE  ListedOK(c)'
BY DEF ListedOK, Reading, Keeps, Seen, Complete, Settled, Reads

LEMMA StaysEmpty ==
    ASSUME NEW c \in Callers, BucketMoves, stable[c] = {}
    PROVE  stable'[c] = {}
BY DEF BucketMoves

----------------------------------------------------------------------------
\* The effect of a step on the listing of c alone.
LEMMA ListerTypes ==
    ASSUME Types, NEW c \in Callers, NEW at, NEW last \in Nat, NEW item \in Items,
           NEW buf \in Seq(Items), ListerBecomes(c, at, last, item, buf),
           UNCHANGED <<store, call>>
    PROVE  Others(c)
BY WroteNothing, OthersSame DEF ListerBecomes, Types, Calls

\* While the reader reads, the listing changes as a whole: whatever is pending
\* stays so.
LEMMA ListerKeeps ==
    ASSUME Types, NEW c \in Callers, ListedOK(c), NEW at, NEW last, NEW item, NEW buf,
           ListerBecomes(c, at, last, item, buf), UNCHANGED <<store, call>>,
           Alive(c) /\ Reads(c) => \A k \in stable[c] : Pending(c, k) => Pending(c, k)'
    PROVE  ListedOK(c)'
<1>1. call' = call /\ stable' = stable /\ objects' = objects
  BY DEF store
<1>2. (Places(c) /\ Reading(c) /\ Keeps(c))'
  BY <1>1 DEF ListedOK, Places, Reading, Reads, Keeps, Job, ListerBecomes
<1>3. ASSUME Alive(c)' PROVE Seen(c)'
  <2>1. Seen(c) /\ Alive(c) BY <1>1, <1>3 DEF Alive, ListedOK
  <2>2. \A k \in stable[c] : Settled(c, k) => Settled(c, k)'
    BY <1>1 DEF Settled
  <2>3. call[c].at \in {"collect", "download", "listAll"} => Reads(c)
    BY DEF Reads
  <2> QED BY <1>1, <2>1, <2>2, <2>3 DEF Seen, Complete, Job
<1> QED BY <1>2, <1>3 DEF ListedOK

\* The next key is the first of those that are left.
LEMMA NextKey ==
    ASSUME Types, NEW c \in Callers, NextKeys(c) # {}, NEW k,
           k = CHOOSE m \in NextKeys(c) : \A l \in NextKeys(c) : Rank(m) <= Rank(l)
    PROVE  /\ k \in Keys /\ k \in NextKeys(c)
           /\ \A l \in NextKeys(c) : l = k \/ Rank(l) > Rank(k)
<1>1. NextKeys(c) \subseteq Keys
  BY DEF NextKeys, Under
<1>2. \E l \in NextKeys(c) : \A m \in NextKeys(c) : Rank(l) <= Rank(m)
  BY <1>1, LeastRank
<1>3. k \in NextKeys(c) /\ \A l \in NextKeys(c) : Rank(k) <= Rank(l)
  BY <1>2, Zenon
<1> QED BY <1>1, <1>3, KeyFacts

\* What ListNext and ListSend make of the listing.
Finds(c, k) ==
    /\ k \in NextKeys(c) /\ \A l \in NextKeys(c) : l = k \/ Rank(l) > Rank(k)
    /\ ListerBecomes(c, "send", Rank(k), k, lister[c].buf)

LEMMA EndedFields ==
    ASSUME Listers, NEW c \in Callers, NEW buf, lister' = Ended(c, buf)
    PROVE  ListerBecomes(c, "ended", 0, Failed, buf)
<1>1. /\ lister'[c] = [lister[c] EXCEPT !.at = "ended", !.last = 0, !.item = <<>>, !.buf = buf]
      /\ \A d \in Callers \ {c} : lister'[d] = lister[d]
      /\ lister' = [d \in Callers |-> lister'[d]]
  BY DEF Listers, Ended
<1>2. Listers' BY <1>1 DEF Listers
<1> QED BY <1>1, <1>2 DEF Listers, ListerBecomes, Failed

LEMMA ListNextFields ==
    ASSUME Types, NEW c \in Callers, ListNext(c)
    PROVE  /\ lister[c].at = "run" /\ UNCHANGED <<store, call, dropped>>
           /\ \/ ListerBecomes(c, "send", lister[c].last, Failed, lister[c].buf)
              \/ \E k \in Keys : Finds(c, k)
              \/ /\ NextKeys(c) = {}
                 /\ ListerBecomes(c, "ended", 0, Failed, lister[c].buf)
<1>1. Listers BY DEF Types
<1>2. ASSUME lister' = [lister EXCEPT ![c].at = "send", ![c].item = Failed]
      PROVE  ListerBecomes(c, "send", lister[c].last, Failed, lister[c].buf)
  <2>1. Listers' BY <1>1, <1>2 DEF Listers
  <2>2. /\ lister'[c] = [lister[c] EXCEPT !.at = "send", !.item = Failed]
        /\ \A d \in Callers \ {c} : lister'[d] = lister[d]
    BY <1>1, <1>2 DEF Listers
  <2> QED BY <1>1, <2>1, <2>2 DEF Listers, ListerBecomes
<1>3. ASSUME NEW k, lister' = [lister EXCEPT ![c].at = "send", ![c].item = k, ![c].last = Rank(k)]
      PROVE  ListerBecomes(c, "send", Rank(k), k, lister[c].buf)
  <2>1. /\ lister'[c] = [lister[c] EXCEPT !.at = "send", !.item = k, !.last = Rank(k)]
        /\ \A d \in Callers \ {c} : lister'[d] = lister[d]
    BY <1>1, <1>3 DEF Listers
  <2>2. lister' = [d \in Callers |-> lister'[d]]
    BY <1>1, <1>3 DEF Listers
  <2>3. Listers' BY <1>1, <2>1, <2>2 DEF Listers
  <2> QED BY <1>1, <2>1, <2>3 DEF Listers, ListerBecomes
<1>4. ASSUME lister' = Ended(c, lister[c].buf)
      PROVE  ListerBecomes(c, "ended", 0, Failed, lister[c].buf)
  BY <1>1, <1>4, EndedFields
<1>5. ASSUME NextKeys(c) # {}, NEW k,
             k = CHOOSE m \in NextKeys(c) : \A l \in NextKeys(c) : Rank(m) <= Rank(l),
             lister' = [lister EXCEPT ![c].at = "send", ![c].item = k, ![c].last = Rank(k)]
      PROVE  k \in Keys /\ Finds(c, k)
  <2>1. ListerBecomes(c, "send", Rank(k), k, lister[c].buf)
    BY <1>3, <1>5
  <2> QED BY <1>5, <2>1, NextKey DEF Finds
<1> QED BY <1>2, <1>4, <1>5 DEF ListNext

LEMMA ListSendFields ==
    ASSUME Types, NEW c \in Callers, ListSend(c)
    PROVE  /\ lister[c].at = "send" /\ UNCHANGED <<store, call, dropped>>
           /\ \/ /\ lister[c].item = Failed
                 /\ ListerBecomes(c, "ended", 0, Failed, Append(lister[c].buf, Failed))
              \/ /\ lister[c].item # Failed
                 /\ ListerBecomes(c, "run", lister[c].last, Failed,
                                  Append(lister[c].buf, lister[c].item))
              \/ /\ lister[c].cancelled \/ ~Alive(c)
                 /\ ListerBecomes(c, "ended", 0, Failed, lister[c].buf)
<1> DEFINE item == lister[c].item
<1>1. Listers BY DEF Types
<1>2. ASSUME lister' = [lister EXCEPT ![c].at = "run", ![c].item = <<>>,
                                      ![c].buf = Append(@, lister[c].item)]
      PROVE  ListerBecomes(c, "run", lister[c].last, Failed, Append(lister[c].buf, item))
  <2>1. Listers' BY <1>1, <1>2 DEF Listers
  <2>2. /\ lister'[c] = [lister[c] EXCEPT !.at = "run", !.item = <<>>, !.buf = Append(@, item)]
        /\ \A d \in Callers \ {c} : lister'[d] = lister[d]
    BY <1>1, <1>2 DEF Listers
  <2> QED BY <1>1, <2>1, <2>2 DEF Listers, ListerBecomes, Failed
<1>3. ASSUME NEW buf, lister' = Ended(c, buf)
      PROVE  ListerBecomes(c, "ended", 0, Failed, buf)
  BY <1>1, <1>3, EndedFields
<1> QED BY <1>2, <1>3 DEF ListSend

\* What the reader still has to meet, it still has to meet after a step of the
\* listing: the goroutine passes no key by while somebody reads.
LEMMA PendingLasts ==
    ASSUME Types, NEW c \in Callers, ListNext(c) \/ ListSend(c), Alive(c), ~lister[c].cancelled,
           NEW k \in Under(lister[c].dir), objects[k] # None, Pending(c, k)
    PROVE  Pending(c, k)'
<1>1. lister[c].buf \in Seq(Items) /\ lister[c].item \in Items /\ lister[c].last \in Nat
  BY DEF Types
<1>2. Rank(k) > lister[c].last => k \in NextKeys(c)
  BY DEF NextKeys
<1>3. CASE ListNext(c)
  <2>1. CASE ListerBecomes(c, "send", lister[c].last, Failed, lister[c].buf)
    BY <2>1 DEF ListerBecomes, Pending
  <2>2. ASSUME NEW l \in Keys, Finds(c, l) PROVE Pending(c, k)'
    BY <1>2, <1>3, <2>2, ListNextFields DEF Finds, ListerBecomes, Pending
  <2>3. CASE /\ NextKeys(c) = {}
             /\ ListerBecomes(c, "ended", 0, Failed, lister[c].buf)
    BY <1>2, <1>3, <2>3, ListNextFields DEF ListerBecomes, Pending
  <2> QED BY <1>3, <2>1, <2>2, <2>3, ListNextFields
<1>4. CASE ListSend(c)
  <2>1. /\ lister[c].at = "send"
        /\ \/ /\ lister[c].item = Failed
              /\ ListerBecomes(c, "ended", 0, Failed, Append(lister[c].buf, lister[c].item))
           \/ ListerBecomes(c, "run", lister[c].last, Failed,
                            Append(lister[c].buf, lister[c].item))
    BY <1>4, ListSendFields
  <2>2. CASE \E i \in 1..Len(lister[c].buf) : lister[c].buf[i] \in {k, Failed}
    <3>1. lister'[c].buf = Append(lister[c].buf, lister[c].item)
      BY <2>1 DEF ListerBecomes
    <3>2. \A i \in 1..Len(lister[c].buf) :
            /\ i \in 1..Len(Append(lister[c].buf, lister[c].item))
            /\ Append(lister[c].buf, lister[c].item)[i] = lister[c].buf[i]
      BY <1>1
    <3> QED BY <2>2, <3>1, <3>2 DEF Pending
  <2>3. CASE lister[c].item \in {k, Failed}
    <3>1. Append(lister[c].buf, lister[c].item)[Len(lister[c].buf) + 1] = lister[c].item
      BY <1>1
    <3> QED BY <1>1, <2>1, <2>3, <3>1 DEF ListerBecomes, Pending
  <2>4. CASE Rank(k) > lister[c].last /\ lister[c].item # Failed
    BY <2>1, <2>4 DEF ListerBecomes, Pending
  <2> QED BY <2>2, <2>3, <2>4 DEF Pending
<1> QED BY <1>3, <1>4

LEMMA ListsStep ==
    ASSUME Types, NEW c \in Callers, ListedOK(c), Lists(c)
    PROVE  Others(c) /\ ListedOK(c)'
<1>1. PICK at, last, item, buf : ListerBecomes(c, at, last, item, buf) /\ last \in Nat
                                 /\ item \in Items /\ buf \in Seq(Items)
  <2>1. lister[c].buf \in Seq(Items) /\ lister[c].item \in Items /\ lister[c].last \in Nat
    BY DEF Types
  <2>2. Failed \in Items /\ \A k \in Keys : k \in Items /\ Rank(k) \in Nat
    BY KeyFacts DEF Items
  <2>3. Append(lister[c].buf, lister[c].item) \in Seq(Items)
    BY <2>1
  <2>4. CASE ListNext(c)
    BY <2>1, <2>2, <2>4, ListNextFields DEF Finds
  <2>5. CASE ListSend(c)
    <3>1. CASE ListerBecomes(c, "ended", 0, Failed, Append(lister[c].buf, lister[c].item))
      BY <2>2, <2>3, <3>1
    <3>2. CASE ListerBecomes(c, "ended", 0, Failed, lister[c].buf)
      BY <2>1, <2>2, <3>2
    <3>3. CASE ListerBecomes(c, "run", lister[c].last, Failed,
                             Append(lister[c].buf, lister[c].item))
      BY <2>1, <2>2, <2>3, <3>3
    <3> QED BY <2>5, <3>1, <3>2, <3>3, ListSendFields
  <2> QED BY <2>4, <2>5 DEF Lists
<1>2. UNCHANGED <<store, call>>
  BY ListNextFields, ListSendFields DEF Lists
<1>3. Others(c)
  BY <1>1, <1>2, ListerTypes
<1>4. Alive(c) /\ Reads(c) => \A k \in stable[c] : Pending(c, k) => Pending(c, k)'
  BY PendingLasts DEF Lists, ListedOK, Reading, Keeps
<1> QED BY <1>1, <1>2, <1>3, <1>4, ListerKeeps

----------------------------------------------------------------------------
(***************************************************************************)
(* The steps of a caller.                                                  *)
(***************************************************************************)

\* A step that does not touch the listing, and whose caller lists nothing.
LEMMA QuietStep ==
    ASSUME Types, NEW c \in Callers, BucketMoves, stable[c] = {}, UNCHANGED lister,
           Calls', \A d \in Callers \ {c} : call'[d] = call[d],
           Places(c)', ~Reads(c)'
    PROVE  Others(c) /\ ListedOK(c)'
BY SameLister, OthersSame, StaysEmpty, NothingKept

LEMMA GotoStep ==
    ASSUME Types, NEW c \in Callers, ListedOK(c), BucketMoves, stable[c] = {},
           UNCHANGED lister, NEW l, Goto(c, l), call[c].at # "done",
           l = "remove" \/ l = "read" \/ (l = "list" /\ Job(c).op = "exist")
    PROVE  Others(c) /\ ListedOK(c)'
<1>1. CallBecomes(c, l, call[c].result, call[c].keys, call[c].failed)
  BY Gone DEF Types
<1>2. Places(c)' /\ ~Reads(c)'
  BY <1>1 DEF CallBecomes, ListedOK, Places, Reads, Job
<1> QED BY <1>1, <1>2, QuietStep DEF CallBecomes

\* A step at whose end the operation returns.
LEMMA ReturnStep ==
    ASSUME Types, NEW c \in Callers, ListedOK(c), BucketMoves, NEW r, Return(c, r),
           r = "ok" /\ Alive(c) =>
             \/ stable[c] = {}
             \/ Job(c).op = "listAll" /\ stable[c] \subseteq call[c].keys
             \/ Job(c).op = "download" /\ {k \in stable[c] : ~IsDir(k)} \subseteq call[c].keys
    PROVE  Others(c) /\ ListedOK(c)'
<1>1. CallBecomes(c, "done", r, call[c].keys, call[c].failed)
  BY Back DEF Types, Return
<1>2. /\ Listers' /\ \A d \in Callers \ {c} : lister'[d] = lister[d]
      /\ lister'[c].last = lister[c].last /\ lister'[c].item = lister[c].item
      /\ lister'[c].buf = lister[c].buf
  BY BackListing DEF Types
<1>3. Others(c)
  BY <1>1, <1>2, OthersSame DEF CallBecomes, Types
<1>4. \A k \in stable'[c] : k \in stable[c] /\ objects'[k] = objects[k]
  BY DEF BucketMoves
<1>5. Places(c)' /\ Reading(c)'
  BY <1>1 DEF CallBecomes, Places, Reading, Reads
<1>6. Keeps(c)'
  BY <1>1, <1>4 DEF CallBecomes, ListedOK, Keeps, Job
<1>7. ASSUME Alive(c)' PROVE Seen(c)'
  <2>1. Alive(c) BY <1>1, <1>7 DEF CallBecomes, Alive
  <2>2. Complete(c)'
    BY <1>1, <1>4, <2>1 DEF CallBecomes, Complete, Job
  <2> QED BY <1>1, <2>2 DEF Seen, CallBecomes
<1> QED BY <1>3, <1>5, <1>6, <1>7 DEF ListedOK

\* The names of the operations.
LEMMA RequestFacts ==
    \A j \in Requests :
        /\ j.op \in {"rename", "copy", "remove", "get", "delete", "download", "listAll", "exist",
                     "removeObjects", "put", "fput", "mkdir", "upload"}
BY DEF Requests

\* Where each of them begins.
LEMMA FirstSteps ==
    ASSUME NEW j
    PROVE  /\ j.op = "rename" => FirstStep(j) = IF j.dir THEN "list" ELSE "copy"
           /\ j.op \in {"delete", "download", "listAll"} => FirstStep(j) = "list"
           /\ j.op = "exist" => FirstStep(j) = "stat"
           /\ j.op \in {"upload", "put", "fput", "mkdir"} => FirstStep(j) = "put"
           /\ j.op = "removeObjects" => FirstStep(j) = "removeAll"
           /\ j.op \in {"copy", "remove", "get"} => FirstStep(j) = j.op
BY DEF FirstStep

\* What begins is a job of the caller, at an endpoint, or nothing.
LEMMA BeginAsks ==
    ASSUME NEW c \in Callers, Begin(c)
    PROVE  call' = Returned(c, "error") \/ \E j \in Asked(c) : call' = Asks(c, j)
<1>1. CASE \E j \in Jobs[c] : call' = Returned(c, "error")
  BY <1>1
<1>2. ASSUME NEW j \in Jobs[c], NEW e \in GetClient(j.name), call' = Asks(c, Resolved(e, j))
      PROVE  \E i \in Asked(c) : call' = Asks(c, i)
  <2>1. e \in Endpoints
    BY <1>2 DEF GetClient, Registered
  <2>2. Resolved(e, j) \in Asked(c)
    BY <2>1 DEF Asked
  <2> QED BY <1>2, <2>2
<1> QED BY <1>1, <1>2 DEF Begin

LEMMA AsksFields ==
    ASSUME Calls, NEW c \in Callers, NEW j, call' = Asks(c, j)
    PROVE  /\ Calls' /\ \A d \in Callers \ {c} : call'[d] = call[d]
           /\ call'[c].job = j /\ call'[c].at = FirstStep(j)
           /\ call'[c].result = call[c].result /\ call'[c].start = call[c].start
           /\ call'[c].keys = IF j.op = "removeObjects" THEN j.keys ELSE {}
<1> DEFINE ks == IF j.op = "removeObjects" THEN j.keys ELSE {}
           at == FirstStep(j)
<1>1. /\ call'[c] = [call[c] EXCEPT !.job = j, !.at = at, !.keys = ks]
      /\ \A d \in Callers \ {c} : call'[d] = call[d]
      /\ call' = [d \in Callers |-> call'[d]]
  BY DEF Calls, Asks
<1> HIDE DEF ks, at
<1>2. Calls' BY <1>1 DEF Calls
<1>3. /\ call'[c].job = j /\ call'[c].at = at /\ call'[c].result = call[c].result
      /\ call'[c].start = call[c].start /\ call'[c].keys = ks
  BY <1>1 DEF Calls
<1> QED BY <1>1, <1>2, <1>3 DEF ks, at

LEMMA BeginStep ==
    ASSUME Types, NEW c \in Callers, ListedOK(c), Begin(c)
    PROVE  Others(c) /\ ListedOK(c)'
<1>1. BucketMoves /\ UNCHANGED lister
  BY WroteNothing DEF Begin
<1>2. stable[c] = {} /\ call[c].result # "ok"
  BY DEF Begin, ListedOK, Keeps, Places
<1>3. CASE call' = Returned(c, "error")
  <2>1. CallBecomes(c, "done", "error", call[c].keys, call[c].failed)
    BY <1>3, Back DEF Types
  <2>2. Places(c)' /\ ~Reads(c)'
    BY <2>1 DEF CallBecomes, Places, Reads
  <2> QED BY <1>1, <1>2, <2>1, <2>2, QuietStep DEF CallBecomes
<1>4. ASSUME NEW j \in Asked(c), call' = Asks(c, j)
      PROVE  Others(c) /\ ListedOK(c)'
  <2> DEFINE at == FirstStep(j)
  <2>1. Calls' /\ call'[c].job = j /\ call'[c].at = at /\ call'[c].result = call[c].result
        /\ \A d \in Callers \ {c} : call'[d] = call[d]
    BY <1>4, AsksFields DEF Types
  <2>2. j \in Requests /\ Job(c)' = j
    BY <2>1, ObsAssumption DEF Job
  <2>3. /\ at \in {"list", "copy", "stat", "put", "removeAll", "remove", "get"}
        /\ at = "list" => j.op \in {"rename", "delete", "download", "listAll"}
        /\ at = "removeAll" => j.op = "removeObjects"
        /\ at = "stat" => j.op = "exist"
    <3>1. CASE j.op = "rename"
      BY <3>1, FirstSteps
    <3>2. CASE j.op # "rename"
      BY <2>2, <3>2, FirstSteps, RequestFacts
    <3> QED BY <3>1, <3>2
  <2>4. Places(c)' /\ ~Reads(c)'
    <3> HIDE DEF at
    <3> QED BY <1>2, <2>1, <2>2, <2>3 DEF Places, Reads
  <2> QED BY <1>1, <1>2, <2>1, <2>4, QuietStep
<1>5. \/ call' = Returned(c, "error")
      \/ \E j \in Asked(c) : call' = Asks(c, j)
  BY BeginAsks
<1> QED BY <1>3, <1>4, <1>5

LEMMA GiveUpStep ==
    ASSUME Types, NEW c \in Callers, ListedOK(c), GiveUp(c)
    PROVE  Others(c) /\ ListedOK(c)'
<1>1. BucketMoves /\ UNCHANGED <<lister, store>>
  BY WroteNothing DEF GiveUp
<1>2. /\ call'[c] = [call[c] EXCEPT !.gone = TRUE]
      /\ \A d \in Callers \ {c} : call'[d] = call[d]
  BY DEF Types, Calls, GiveUp
<1>3. /\ Calls' /\ call'[c].job = call[c].job /\ call'[c].at = call[c].at
      /\ call'[c].result = call[c].result /\ call'[c].gone = TRUE
  <2>1. Calls' BY DEF Types, Calls, GiveUp
  <2> QED BY <1>2, <2>1 DEF Types, Calls
<1>4. (Places(c) /\ Reading(c) /\ Keeps(c))' /\ ~Alive(c)'
  BY <1>1, <1>3 DEF ListedOK, Places, Reading, Reads, Keeps, Job, Alive, store
<1> QED BY <1>1, <1>2, <1>3, <1>4, SameLister, OthersSame DEF ListedOK

LEMMA StartListingStep ==
    ASSUME Types, NEW c \in Callers, ListedOK(c), StartListing(c)
    PROVE  Others(c) /\ ListedOK(c)'
<1>1. CallBecomes(c, Reader(Job(c)), call[c].result, call[c].keys, call[c].failed)
  BY Gone DEF Types, StartListing
<1>2. NewLister(c, Job(c).src)
  BY Fresh DEF Types, StartListing
<1>3. /\ stable' = [stable EXCEPT ![c] = Unchanged(Job(c))] /\ objects' = objects
      /\ call[c].at = "list"
  BY DEF StartListing
<1>4. stable'[c] = Unchanged(Job(c)) /\ \A d \in Callers \ {c} : stable'[d] = stable[d]
  BY <1>3 DEF Types
<1>5. Others(c)
  <2>1. Objects' /\ stable' = [d \in Callers |-> stable'[d]]
    BY <1>3 DEF Types, Objects
  <2>2. lister'[c].last \in Nat /\ lister'[c].item \in Items /\ lister'[c].buf \in Seq(Items)
    BY <1>2 DEF NewLister, Items, Failed
  <2> QED BY <1>1, <1>2, <1>3, <1>4, <2>1, <2>2
          DEF Types, Others, CallBecomes, NewLister
<1>6. Job(c).op \in {"rename", "delete", "download", "listAll", "exist"} /\ call[c].result # "ok"
  BY <1>3 DEF ListedOK, Places
<1>7. /\ Job(c).op = "rename" => Reader(Job(c)) = "copyAll"
      /\ Job(c).op = "delete" => Reader(Job(c)) = "collect"
      /\ Job(c).op \in {"download", "listAll", "exist"} => Reader(Job(c)) = Job(c).op
  BY DEF Reader
<1>8. Places(c)' /\ Reading(c)' /\ Reads(c)'
  BY <1>1, <1>2, <1>6, <1>7 DEF CallBecomes, NewLister, Places, Reading, Reads, Job
<1>9. Unchanged(Job(c)) = IF Job(c).op = "exist" THEN {}
                          ELSE {k \in Under(Job(c).src) : objects[k] # None}
  BY DEF Unchanged
<1>10. Keeps(c)'
  BY <1>1, <1>3, <1>4, <1>6, <1>7, <1>9 DEF CallBecomes, Keeps, Job
<1>11. \A k \in stable'[c] : Pending(c, k)'
  <2>1. \A k \in stable'[c] : Rank(k) > 0
    BY <1>4, <1>9, KeyFacts DEF Under
  <2> QED BY <1>2, <2>1 DEF NewLister, Pending
<1>12. Seen(c)'
  BY <1>1, <1>6, <1>7, <1>11 DEF Seen, Complete, CallBecomes, Job
<1> QED BY <1>5, <1>8, <1>10, <1>12 DEF ListedOK

LEMMA TakePending ==
    ASSUME Types, NEW c \in Callers, Arrived(c), TakeItem(c), NEW k, Pending(c, k),
           Item(c) \notin {k, Failed}
    PROVE  Pending(c, k)'
<1>1. ListerBecomes(c, lister[c].at, lister[c].last, lister[c].item, Tail(lister[c].buf))
  BY Taken DEF Types
<1>2. lister[c].buf \in Seq(Items) /\ lister[c].buf # <<>>
  BY DEF Types, Arrived
<1>3. ASSUME NEW i \in 1..Len(lister[c].buf), lister[c].buf[i] \in {k, Failed}
      PROVE  Pending(c, k)'
  <2>1. i # 1 BY <1>2, <1>3 DEF Item
  <2>2. i - 1 \in 1..Len(Tail(lister[c].buf)) /\ Tail(lister[c].buf)[i - 1] = lister[c].buf[i]
    BY <1>2, <2>1
  <2> QED BY <1>1, <1>3, <2>2 DEF ListerBecomes, Pending
<1>4. CASE \/ lister[c].at = "send" /\ lister[c].item \in {k, Failed}
           \/ lister[c].at \in {"run", "send"} /\ Rank(k) > lister[c].last
  BY <1>1, <1>4 DEF ListerBecomes, Pending
<1> QED BY <1>3, <1>4 DEF Pending

\* The head of a listing is taken: it is settled, or nobody asks for it.
LEMMA TakeStep ==
    ASSUME Types, NEW c \in Callers, ListedOK(c), BucketMoves, Arrived(c), TakeItem(c),
           NEW ks, NEW f, CallBecomes(c, call[c].at, call[c].result, ks, f),
           call[c].keys \subseteq ks, call[c].failed => f,
           call[c].at \in {"copyAll", "collect", "download", "listAll"},
           call[c].at # "copyAll" =>
             \A k \in stable[c] : Item(c) \in {k, Failed} => Settled(c, k)'
    PROVE  Others(c) /\ ListedOK(c)'
<1>1. ListerBecomes(c, lister[c].at, lister[c].last, lister[c].item, Tail(lister[c].buf))
  BY Taken DEF Types
<1>2. lister[c].buf \in Seq(Items) /\ lister[c].buf # <<>>
  BY DEF Types, Arrived
<1>3. Others(c)
  <2>1. Tail(lister[c].buf) \in Seq(Items)
    BY <1>2
  <2>2. lister[c].last \in Nat /\ lister[c].item \in Items
    BY DEF Types
  <2> QED BY <1>1, <2>1, <2>2, OthersSame DEF CallBecomes, ListerBecomes
<1>4. \A k \in stable'[c] : k \in stable[c] /\ objects'[k] = objects[k]
  BY DEF BucketMoves
<1>5. Places(c)' /\ Reading(c)' /\ Keeps(c)'
  BY <1>1, <1>4 DEF CallBecomes, ListerBecomes, ListedOK, Places, Reading, Reads, Keeps, Job
<1>6. ASSUME NEW k \in stable[c], call[c].at # "copyAll", Pending(c, k) \/ Settled(c, k)
      PROVE  Pending(c, k)' \/ Settled(c, k)'
  <2>1. CASE Settled(c, k)
    BY <2>1 DEF Settled, CallBecomes
  <2>2. CASE Item(c) \in {k, Failed}
    BY <1>6, <2>2
  <2> QED BY <1>6, <2>1, <2>2, TakePending
<1>7. ASSUME Alive(c)' PROVE Seen(c)'
  <2>1. Seen(c) BY <1>7 DEF Alive, CallBecomes, ListedOK
  <2>2. call[c].result # "ok" BY DEF ListedOK, Places
  <2> QED BY <1>4, <1>6, <2>1, <2>2 DEF Seen, Complete, CallBecomes
<1> QED BY <1>3, <1>5, <1>7 DEF ListedOK

\* At its end a listing owes nothing: all is settled.
LEMMA AllSettled ==
    ASSUME NEW c \in Callers, ListedOK(c), Alive(c), Listed(c),
           call[c].at \in {"collect", "download", "listAll"}
    PROVE  \A k \in stable[c] : Settled(c, k)
BY DEF ListedOK, Seen, Listed, Pending

LEMMA RenameOneStep ==
    ASSUME Types, NEW c \in Callers, ListedOK(c), RenameOne(c)
    PROVE  Others(c) /\ ListedOK(c)'
<1>1. call[c].at = "copy" /\ stable[c] = {}
  BY DEF RenameOne, ListedOK, Keeps
<1>2. BucketMoves
  BY Wrote, WroteNothing DEF RenameOne, CopyObject, store
<1>3. CASE Return(c, "ok") \/ Return(c, "error")
  BY <1>1, <1>2, <1>3, ReturnStep
<1>4. CASE Goto(c, "remove") /\ UNCHANGED lister
  BY <1>1, <1>2, <1>4, GotoStep
<1> QED BY <1>3, <1>4 DEF RenameOne

LEMMA RemoveOneStep ==
    ASSUME Types, NEW c \in Callers, ListedOK(c), RemoveOne(c)
    PROVE  Others(c) /\ ListedOK(c)'
<1>1. call[c].at = "remove" /\ stable[c] = {}
  BY DEF RemoveOne, ListedOK, Keeps
<1>2. BucketMoves
  BY Wrote, WroteNothing DEF RemoveOne, store
<1> QED BY <1>1, <1>2, ReturnStep DEF RemoveOne

\* The records of the caller do not change.
LEMMA CallStays ==
    ASSUME Types, NEW c \in Callers, UNCHANGED call
    PROVE  CallBecomes(c, call[c].at, call[c].result, call[c].keys, call[c].failed)
BY DEF Types, Calls, CallBecomes

LEMMA RenameItemStep ==
    ASSUME Types, NEW c \in Callers, ListedOK(c), RenameItem(c)
    PROVE  Others(c) /\ ListedOK(c)'
<1>1. call[c].at = "copyAll" /\ Arrived(c)
  BY DEF RenameItem
<1>2. BucketMoves
  BY Wrote, WroteNothing DEF RenameItem, CopyObject, store
<1>3. CASE Return(c, "error")
  BY <1>2, <1>3, ReturnStep
<1>4. CASE TakeItem(c) /\ UNCHANGED call
  BY <1>1, <1>2, <1>4, CallStays, TakeStep
<1> QED BY <1>3, <1>4 DEF RenameItem

\* The rename goes on as the deletion of another directory, which begins.
LEMMA AnotherFields ==
    ASSUME Calls, NEW c \in Callers, NEW d, DeletesAnother(c, d)
    PROVE  /\ Calls' /\ \A b \in Callers \ {c} : call'[b] = call[b]
           /\ call'[c].at = "collect" /\ call'[c].result = call[c].result
           /\ call'[c].keys = call[c].keys /\ call'[c].start = call[c].start
           /\ call'[c].job.op = "delete" /\ call'[c].job.src = d
<1>1. PICK j : /\ j.op = "delete" /\ j.src = d
               /\ call' = [call EXCEPT ![c].at = "collect", ![c].job = j]
  BY DEF Calls, DeletesAnother
<1>2. /\ call'[c] = [call[c] EXCEPT !.at = "collect", !.job = j]
      /\ \A b \in Callers \ {c} : call'[b] = call[b]
      /\ call' = [b \in Callers |-> call'[b]]
  BY <1>1 DEF Calls
<1>3. Calls' BY <1>2 DEF Calls
<1>4. /\ call'[c].at = "collect" /\ call'[c].job = j /\ call'[c].result = call[c].result
      /\ call'[c].keys = call[c].keys /\ call'[c].start = call[c].start
  BY <1>2 DEF Calls
<1> QED BY <1>1, <1>2, <1>3, <1>4, Zenon

LEMMA DeletesAnotherStep ==
    ASSUME Types, NEW c \in Callers, ListedOK(c), NEW d, ListObjects(c, d),
           DeletesAnother(c, d), UNCHANGED objects, call[c].at = "copyAll"
    PROVE  Others(c) /\ ListedOK(c)'
<1>1. /\ Calls' /\ \A b \in Callers \ {c} : call'[b] = call[b]
      /\ call'[c].at = "collect" /\ call'[c].result = call[c].result
      /\ Job(c)'.op = "delete" /\ Job(c)'.src = d
  BY AnotherFields DEF Types, Job
<1>2. NewLister(c, d) BY Fresh DEF Types
<1>3. /\ stable' = [b \in Callers |-> stable'[b]]
      /\ stable'[c] = {k \in Under(d) : objects[k] # None}
      /\ \A b \in Callers \ {c} : stable'[b] = stable[b]
  BY DEF Types, DeletesAnother
<1>4. Others(c)
  <2>1. Objects' BY DEF Types, Objects
  <2>2. lister'[c].last \in Nat /\ lister'[c].item \in Items /\ lister'[c].buf \in Seq(Items)
    BY <1>2 DEF NewLister, Items, Failed
  <2> QED BY <1>1, <1>2, <1>3, <2>1, <2>2 DEF Types, Others, NewLister
<1>5. call[c].result # "ok" BY DEF ListedOK, Places
<1>6. Places(c)' /\ Reading(c)' /\ Keeps(c)'
  BY <1>1, <1>2, <1>3, <1>5 DEF NewLister, Places, Reading, Reads, Keeps, Job
<1>7. \A k \in stable'[c] : Pending(c, k)'
  BY <1>2, <1>3, KeyFacts DEF NewLister, Pending, Under
<1>8. Seen(c)'
  BY <1>1, <1>5, <1>7 DEF Seen, Complete
<1> QED BY <1>4, <1>6, <1>8 DEF ListedOK

LEMMA RenameDeleteStep ==
    ASSUME Types, NEW c \in Callers, ListedOK(c), RenameDelete(c)
    PROVE  Others(c) /\ ListedOK(c)'
<1>1. call[c].at = "copyAll" /\ UNCHANGED objects
  BY DEF RenameDelete
<1>2. ASSUME UNCHANGED stable PROVE BucketMoves
  BY <1>1, <1>2, WroteNothing DEF store
<1>3. CASE Return(c, "error") /\ UNCHANGED stable
  BY <1>2, <1>3, ReturnStep
<1>4. CASE Goto(c, "collect") /\ ListObjects(c, Job(c).src) /\ UNCHANGED stable
  <2>1. /\ CallBecomes(c, "collect", call[c].result, call[c].keys, call[c].failed)
        /\ NewLister(c, Job(c).src)
    BY <1>4, Gone, Fresh DEF Types
  <2>2. stable' = stable /\ objects' = objects
    BY <1>1, <1>4
  <2>3. Others(c)
    <3>1. lister'[c].last \in Nat /\ lister'[c].item \in Items /\ lister'[c].buf \in Seq(Items)
      BY <2>1 DEF NewLister, Items, Failed
    <3> QED BY <1>2, <1>4, <2>1, <3>1, OthersSame DEF CallBecomes, NewLister
  <2>4. Places(c)' /\ Reading(c)' /\ Keeps(c)'
    BY <1>1, <2>1, <2>2 DEF CallBecomes, NewLister, ListedOK, Places, Reading, Reads, Keeps, Job
  <2>5. \A k \in stable[c] : Rank(k) > 0
    BY KeyFacts DEF ListedOK, Keeps, Under
  <2>6. Seen(c)'
    BY <1>1, <2>1, <2>2, <2>5
    DEF CallBecomes, NewLister, ListedOK, Places, Seen, Complete, Pending
  <2> QED BY <2>3, <2>4, <2>6 DEF ListedOK
<1>5. ASSUME NEW d, ListObjects(c, d), DeletesAnother(c, d)
      PROVE  Others(c) /\ ListedOK(c)'
  BY <1>1, <1>5, DeletesAnotherStep
<1> QED BY <1>3, <1>4, <1>5 DEF RenameDelete

LEMMA CollectStep ==
    ASSUME Types, NEW c \in Callers, ListedOK(c), Collect(c)
    PROVE  Others(c) /\ ListedOK(c)'
<1> DEFINE f == call[c].failed \/ Item(c) = Failed
           ks == call[c].keys \cup ({Item(c)} \ {Failed})
<1>1. call[c].at = "collect" /\ Arrived(c) /\ TakeItem(c)
  BY DEF Collect
<1>2. BucketMoves
  BY WroteNothing DEF Collect
<1>3. CallBecomes(c, call[c].at, call[c].result, ks, f)
  BY Gathered DEF Types, Collect
<1>4. \A k \in stable[c] : Item(c) \in {k, Failed} => Settled(c, k)'
  BY <1>1, <1>3 DEF CallBecomes, Settled
<1>5. call[c].failed => f
  OBVIOUS
<1> QED
  <2> HIDE DEF f
  <2> QED BY <1>1, <1>2, <1>3, <1>4, <1>5, TakeStep

LEMMA ListAllObjectsStep ==
    ASSUME Types, NEW c \in Callers, ListedOK(c), ListAllObjects(c)
    PROVE  Others(c) /\ ListedOK(c)'
<1> DEFINE f == call[c].failed \/ Item(c) = Failed
           ks == call[c].keys \cup ({Item(c)} \ {Failed})
<1>1. call[c].at = "listAll" /\ BucketMoves
  BY WroteNothing DEF ListAllObjects
<1>2. CASE /\ Arrived(c) /\ TakeItem(c)
           /\ call' = [call EXCEPT ![c].failed = f, ![c].keys = ks]
  <2>1. CallBecomes(c, call[c].at, call[c].result, ks, f)
    BY <1>2, Gathered DEF Types
  <2>2. \A k \in stable[c] : Item(c) \in {k, Failed} => Settled(c, k)'
    BY <1>1, <2>1 DEF CallBecomes, Settled
  <2>3. call[c].failed => f
    OBVIOUS
  <2> HIDE DEF f
  <2> QED BY <1>1, <1>2, <2>1, <2>2, <2>3, TakeStep
<1>3. CASE Listed(c) /\ Return(c, IF call[c].failed THEN "error" ELSE "ok")
  <2>1. Alive(c) => \A k \in stable[c] : Settled(c, k)
    BY <1>1, <1>3, AllSettled
  <2>2. CASE call[c].failed
    BY <1>1, <1>3, <2>2, ReturnStep
  <2>3. CASE ~call[c].failed
    <3>1. Alive(c) => stable[c] \subseteq call[c].keys
      BY <1>1, <2>1, <2>3 DEF Settled
    <3>2. Job(c).op = "listAll" /\ Return(c, "ok")
      BY <1>1, <1>3, <2>3 DEF ListedOK, Places
    <3> QED BY <1>1, <3>1, <3>2, ReturnStep
  <2> QED BY <2>2, <2>3
<1> QED BY <1>2, <1>3 DEF ListAllObjects

LEMMA CollectedStep ==
    ASSUME Types, NEW c \in Callers, ListedOK(c), Collected(c)
    PROVE  Others(c) /\ ListedOK(c)'
<1>1. call[c].at = "collect" /\ Listed(c) /\ UNCHANGED store
  BY DEF Collected
<1>2. BucketMoves
  BY <1>1, WroteNothing
<1>3. Alive(c) => \A k \in stable[c] : k \in call[c].keys \/ call[c].failed
  BY <1>1, AllSettled DEF Settled
<1>4. CASE Return(c, "error")
  BY <1>2, <1>4, ReturnStep
<1>5. CASE ~call[c].failed /\ call[c].keys = {} /\ Return(c, "ok")
  <2>1. Alive(c) => stable[c] = {}
    BY <1>3, <1>5
  <2> QED BY <1>2, <1>5, <2>1, ReturnStep
<1>6. CASE Goto(c, "removeAll") /\ UNCHANGED lister
  <2>1. CallBecomes(c, "removeAll", call[c].result, call[c].keys, call[c].failed)
    BY <1>6, Gone DEF Types
  <2>2. Others(c)
    BY <1>2, <1>6, <2>1, SameLister, OthersSame DEF CallBecomes
  <2>3. stable' = stable /\ objects' = objects
    BY <1>1 DEF store
  <2>4. Places(c)' /\ Reading(c)' /\ Keeps(c)'
    BY <1>1, <2>1, <2>3 DEF CallBecomes, ListedOK, Places, Reading, Reads, Keeps, Job
  <2>5. Alive(c)' => Seen(c)'
    BY <1>1, <1>3, <2>1, <2>3 DEF CallBecomes, Alive, Seen, Complete, ListedOK, Places
  <2> QED BY <2>2, <2>4, <2>5 DEF ListedOK
<1> QED BY <1>4, <1>5, <1>6 DEF Collected

LEMMA RemoveNextStep ==
    ASSUME Types, NEW c \in Callers, ListedOK(c), RemoveNext(c)
    PROVE  Others(c) /\ ListedOK(c)'
<1>1. call[c].at = "removeAll" /\ UNCHANGED lister
  BY DEF RemoveNext
<1>2. call[c].result # "ok"
  BY <1>1 DEF ListedOK, Places
<1>3. ASSUME NEW ks, NEW f, CallBecomes(c, "removeAll", call[c].result, ks, f), BucketMoves,
             Alive(c) => \/ f \/ stable'[c] \subseteq ks
                         \/ ~(call[c].failed \/ stable[c] \subseteq call[c].keys)
      PROVE  Others(c) /\ ListedOK(c)'
  <2>1. Others(c)
    BY <1>1, <1>3, SameLister, OthersSame DEF CallBecomes
  <2>2. \A k \in stable'[c] : k \in stable[c] /\ objects'[k] = objects[k]
    BY <1>3 DEF BucketMoves
  <2>3. Places(c)' /\ Reading(c)' /\ Keeps(c)'
    BY <1>1, <1>3, <2>2 DEF CallBecomes, ListedOK, Places, Reading, Reads, Keeps, Job
  <2>4. Alive(c)' => Seen(c)'
    BY <1>1, <1>2, <1>3 DEF CallBecomes, Alive, Seen, Complete, ListedOK
  <2> QED BY <2>1, <2>3, <2>4 DEF ListedOK
<1>4. ASSUME NEW k, Store([objects EXCEPT ![k] = None]),
             call' = [call EXCEPT ![c].keys = @ \ {k}]
      PROVE  Others(c) /\ ListedOK(c)'
  <2>1. CallBecomes(c, "removeAll", call[c].result, call[c].keys \ {k}, call[c].failed)
    BY <1>1, <1>4, GatheredKeys DEF Types
  <2>2. BucketMoves BY <1>4, Wrote
  <2>3. k \notin stable'[c]
    BY <1>4 DEF Types, Objects, Store, ListedOK, Keeps, Under
  <2>4. stable'[c] \subseteq stable[c]
    BY <2>2 DEF BucketMoves
  <2> QED BY <1>3, <2>1, <2>2, <2>3, <2>4
<1>5. ASSUME NEW ks, call' = [call EXCEPT ![c].failed = TRUE, ![c].keys = ks], UNCHANGED store
      PROVE  Others(c) /\ ListedOK(c)'
  <2>1. CallBecomes(c, "removeAll", call[c].result, ks, TRUE) /\ BucketMoves
    BY <1>1, <1>5, Gathered, WroteNothing DEF Types
  <2> QED BY <1>3, <2>1
<1>6. ASSUME ~Alive(c), call' = [call EXCEPT ![c].keys = {}], UNCHANGED store
      PROVE  Others(c) /\ ListedOK(c)'
  <2>1. CallBecomes(c, "removeAll", call[c].result, {}, call[c].failed) /\ BucketMoves
    BY <1>1, <1>6, GatheredKeys, WroteNothing DEF Types
  <2> QED BY <1>3, <1>6, <2>1
<1> QED BY <1>4, <1>5, <1>6 DEF RemoveNext

LEMMA RemovedAllStep ==
    ASSUME Types, NEW c \in Callers, ListedOK(c), RemovedAll(c)
    PROVE  Others(c) /\ ListedOK(c)'
<1>1. call[c].at = "removeAll" /\ call[c].keys = {} /\ BucketMoves
  BY WroteNothing DEF RemovedAll
<1>2. CASE call[c].failed
  BY <1>1, <1>2, ReturnStep DEF RemovedAll
<1>3. CASE ~call[c].failed
  <2>1. Alive(c) => stable[c] = {}
    BY <1>1, <1>3 DEF ListedOK, Seen
  <2> QED BY <1>1, <1>3, <2>1, ReturnStep DEF RemovedAll
<1> QED BY <1>2, <1>3

LEMMA StatStep ==
    ASSUME Types, NEW c \in Callers, ListedOK(c), Stat(c)
    PROVE  Others(c) /\ ListedOK(c)'
<1>1. call[c].at = "stat" /\ stable[c] = {} /\ Job(c).op = "exist" /\ BucketMoves
  BY WroteNothing DEF Stat, ListedOK, Keeps, Places
<1>2. CASE Return(c, "yes")
  BY <1>1, <1>2, ReturnStep
<1>3. CASE Goto(c, "list") /\ UNCHANGED lister
  BY <1>1, <1>3, GotoStep
<1> QED BY <1>2, <1>3 DEF Stat

LEMMA ExistStep ==
    ASSUME Types, NEW c \in Callers, ListedOK(c), Exist(c)
    PROVE  Others(c) /\ ListedOK(c)'
<1>1. BucketMoves
  BY WroteNothing DEF Exist
<1>2. PICK r \in {"error", "yes", "no"} : Return(c, r)
  BY DEF Exist
<1>3. r # "ok" BY <1>2
<1> QED BY <1>1, <1>2, <1>3, ReturnStep

LEMMA DownloadStep ==
    ASSUME Types, NEW c \in Callers, ListedOK(c), Download(c)
    PROVE  Others(c) /\ ListedOK(c)'
<1>1. call[c].at = "download" /\ BucketMoves
  BY WroteNothing DEF Download
<1>2. CASE Return(c, "error")
  BY <1>1, <1>2, ReturnStep
<1>3. CASE Arrived(c) /\ Item(c) # Failed /\ IsDir(Item(c)) /\ TakeItem(c) /\ UNCHANGED call
  <2>1. CallBecomes(c, call[c].at, call[c].result, call[c].keys, call[c].failed)
    BY <1>3, CallStays
  <2>2. \A k \in stable[c] : Item(c) \in {k, Failed} => Settled(c, k)'
    BY <1>1, <1>3, <2>1 DEF CallBecomes, Settled
  <2> QED BY <1>1, <1>3, <2>1, <2>2, TakeStep
<1>4. CASE /\ Arrived(c) /\ Item(c) # Failed /\ TakeItem(c)
           /\ call' = [call EXCEPT ![c].keys = @ \cup {Item(c)}]
  <2>1. CallBecomes(c, call[c].at, call[c].result, call[c].keys \cup {Item(c)}, call[c].failed)
    BY <1>4, GatheredKeys DEF Types
  <2>2. \A k \in stable[c] : Item(c) \in {k, Failed} => Settled(c, k)'
    BY <1>1, <1>4, <2>1 DEF CallBecomes, Settled
  <2> QED BY <1>1, <1>4, <2>1, <2>2, TakeStep
<1>5. CASE Listed(c) /\ Return(c, "ok")
  <2>1. Alive(c) => \A k \in stable[c] : IsDir(k) \/ k \in call[c].keys
    BY <1>1, <1>5, AllSettled DEF Settled
  <2>2. Job(c).op = "download"
    BY <1>1 DEF ListedOK, Places
  <2>3. Alive(c) => {k \in stable[c] : ~IsDir(k)} \subseteq call[c].keys
    BY <2>1
  <2> QED BY <1>1, <1>5, <2>2, <2>3, ReturnStep
<1> QED BY <1>2, <1>3, <1>4, <1>5 DEF Download

LEMMA GetObjectStep ==
    ASSUME Types, NEW c \in Callers, ListedOK(c), GetObject(c) \/ FGetObject(c)
    PROVE  Others(c) /\ ListedOK(c)'
<1>1. call[c].at \in {"get", "read"} /\ stable[c] = {} /\ BucketMoves
  BY WroteNothing DEF GetObject, FGetObject, ListedOK, Keeps
<1>2. CASE Return(c, "ok") \/ Return(c, "error")
  BY <1>1, <1>2, ReturnStep
<1>3. CASE Goto(c, "read") /\ UNCHANGED lister
  BY <1>1, <1>3, GotoStep
<1> QED BY <1>2, <1>3 DEF GetObject, FGetObject

\* An upload is tried again, returns, or goes on with the next file.
LEMMA AgainCalls ==
    ASSUME Calls, NEW c \in Callers, call' = Again(c)
    PROVE  /\ Calls' /\ \A d \in Callers \ {c} : call'[d] = call[d]
           /\ call'[c].job = call[c].job /\ call'[c].gone = call[c].gone
           /\ \/ call'[c].at = "done"
              \/ call'[c].at = "backoff" /\ call'[c].result = call[c].result
<1>1. CASE call' = Returned(c, "error")
  <2>1. CallBecomes(c, "done", "error", call[c].keys, call[c].failed)
    BY <1>1, Back
  <2> QED BY <2>1 DEF CallBecomes
<1>2. CASE call' = [call EXCEPT ![c].at = "backoff", ![c].start = FALSE, ![c].tries = @ + 1]
  <2>1. /\ call'[c] = [call[c] EXCEPT !.at = "backoff", !.start = FALSE, !.tries = @ + 1]
        /\ \A d \in Callers \ {c} : call'[d] = call[d]
    BY <1>2 DEF Calls
  <2>2. call' = [d \in Callers |-> call'[d]]
    BY <1>2 DEF Calls
  <2> QED BY ZenonT(60), <2>1, <2>2 DEF Calls
<1> QED BY <1>1, <1>2 DEF Again

LEMMA NextFile ==
    ASSUME Calls, NEW c \in Callers,
           call' = [call EXCEPT ![c].job.src = Head(Job(c).more), ![c].job.more = Tail(@)]
    PROVE  /\ Calls' /\ \A d \in Callers \ {c} : call'[d] = call[d]
           /\ call'[c].at = call[c].at /\ call'[c].result = call[c].result
           /\ call'[c].gone = call[c].gone /\ call'[c].start = call[c].start
           /\ call'[c].job = [call[c].job EXCEPT !.src = Head(Job(c).more), !.more = Tail(@)]
<1>1. PICK j : j = [call[c].job EXCEPT !.src = Head(Job(c).more), !.more = Tail(@)]
  OBVIOUS
<1>2. /\ call'[c] = [call[c] EXCEPT !.job = j]
      /\ \A d \in Callers \ {c} : call'[d] = call[d]
      /\ call' = [d \in Callers |-> call'[d]]
  BY ZenonT(60), <1>1 DEF Calls
<1>3. Calls'
  BY ZenonT(60), <1>2 DEF Calls
<1>4. call'[c].job = j /\ call'[c].at = call[c].at /\ call'[c].result = call[c].result
  BY ZenonT(60), <1>2 DEF Calls
<1>5. call'[c].gone = call[c].gone /\ call'[c].start = call[c].start
  BY ZenonT(60), <1>2 DEF Calls
<1> QED BY <1>1, <1>2, <1>3, <1>4, <1>5

Uploads(c) == PutObject(c) \/ FPutObject(c) \/ CreateDirectory(c) \/ FPutDirectory(c)

LEMMA UploadStep ==
    ASSUME Types, NEW c \in Callers, ListedOK(c), Uploads(c)
    PROVE  Others(c) /\ ListedOK(c)'
<1>1. call[c].at = "put" /\ UNCHANGED lister
  BY DEF Uploads, PutObject, FPutObject, CreateDirectory, FPutDirectory
<1>2. stable[c] = {} /\ call[c].result # "ok"
  BY <1>1 DEF ListedOK, Keeps, Places
<1>3. BucketMoves
  BY Wrote, WroteNothing
  DEF Uploads, PutObject, FPutObject, CreateDirectory, FPutDirectory, Attempt, store
<1>4. \/ call' = Returned(c, "ok") \/ call' = Returned(c, "error") \/ call' = Again(c)
      \/ call' = [call EXCEPT ![c].job.src = Head(Job(c).more), ![c].job.more = Tail(@)]
  <2> USE DEF Attempt
  <2>1. CASE PutObject(c)
    BY <2>1 DEF PutObject
  <2>2. CASE FPutObject(c)
    BY <2>2 DEF FPutObject
  <2>3. CASE CreateDirectory(c)
    BY <2>3 DEF CreateDirectory
  <2>4. CASE FPutDirectory(c)
    BY <2>4 DEF FPutDirectory
  <2> QED BY <2>1, <2>2, <2>3, <2>4 DEF Uploads
<1>5. /\ Calls' /\ \A d \in Callers \ {c} : call'[d] = call[d]
      /\ \/ call'[c].at = "done"
         \/ call'[c].at \in {"put", "backoff"} /\ call'[c].result = call[c].result
  <2>1. Calls
    BY DEF Types
  <2>2. CASE call' = Again(c)
    BY <2>1, <2>2, AgainCalls
  <2>3. CASE call' = [call EXCEPT ![c].job.src = Head(Job(c).more), ![c].job.more = Tail(@)]
    BY <1>1, <2>1, <2>3, NextFile
  <2>4. ASSUME NEW x \in {"ok", "error"}, call' = Returned(c, x)
        PROVE  Calls' /\ call'[c].at = "done" /\ \A d \in Callers \ {c} : call'[d] = call[d]
    <3>1. CallBecomes(c, "done", x, call[c].keys, call[c].failed)
      BY <2>1, <2>4, Back
    <3> QED BY <3>1 DEF CallBecomes
  <2> QED BY <1>4, <2>2, <2>3, <2>4
<1>6. Places(c)' /\ ~Reads(c)'
  BY <1>2, <1>5 DEF Places, Reads
<1> QED BY <1>1, <1>2, <1>3, <1>5, <1>6, QuietStep

LEMMA RewindStep ==
    ASSUME Types, NEW c \in Callers, ListedOK(c), Rewind(c)
    PROVE  Others(c) /\ ListedOK(c)'
<1>1. call[c].at = "backoff" /\ UNCHANGED lister /\ BucketMoves
  BY WroteNothing DEF Rewind
<1>2. stable[c] = {} /\ call[c].result # "ok"
  BY <1>1 DEF ListedOK, Keeps, Places
<1>3. CASE call' = Returned(c, "error")
  <2>1. CallBecomes(c, "done", "error", call[c].keys, call[c].failed)
    BY <1>3, Back DEF Types
  <2>2. Places(c)' /\ ~Reads(c)'
    BY <2>1 DEF CallBecomes, Places, Reads
  <2> QED BY <1>1, <1>2, <2>1, <2>2, QuietStep DEF CallBecomes
<1>4. CASE call' = [call EXCEPT ![c].at = "put", ![c].start = TRUE]
  <2>1. Calls' BY <1>4 DEF Types, Calls
  <2>2. /\ call'[c] = [call[c] EXCEPT !.at = "put", !.start = TRUE]
        /\ \A d \in Callers \ {c} : call'[d] = call[d]
    BY <1>4 DEF Types, Calls
  <2>3. call'[c].at = "put" /\ call'[c].result = call[c].result
    BY <2>2 DEF Types, Calls
  <2>4. Places(c)' /\ ~Reads(c)'
    BY <1>2, <2>3 DEF Places, Reads
  <2> QED BY <1>1, <1>2, <2>1, <2>2, <2>4, QuietStep
<1> QED BY <1>3, <1>4 DEF Rewind

----------------------------------------------------------------------------
ListedInv == Types /\ \A c \in Callers : ListedOK(c)

LEMMA ListedInit == Init => ListedInv
<1> SUFFICES ASSUME Init PROVE ListedInv
  OBVIOUS
<1>1. Types BY TypesInit
<1>2. ASSUME NEW c \in Callers PROVE ListedOK(c)
  <2>1. /\ call[c].at = "idle" /\ call[c].result = "none" /\ stable[c] = {}
        /\ Job(c).op = "none"
    BY DEF Init, NoCall, Job
  <2> QED BY <2>1 DEF ListedOK, Places, Reading, Reads, Keeps, Seen, Complete
<1> QED BY <1>1, <1>2 DEF ListedInv

LEMMA GoesStep ==
    ASSUME Types, NEW c \in Callers, ListedOK(c), Goes(c)
    PROVE  Others(c) /\ ListedOK(c)'
BY StartListingStep, RenameOneStep, RemoveOneStep, RenameItemStep, RenameDeleteStep,
   CollectStep, CollectedStep, RemoveNextStep, RemovedAllStep, StatStep, ExistStep,
   DownloadStep, ListAllObjectsStep, UploadStep, RewindStep, GetObjectStep
DEF Goes, Uploads

LEMMA ListedStep == ListedInv /\ [Next]_vars => ListedInv'
<1> SUFFICES ASSUME ListedInv, [Next]_vars PROVE ListedInv'
  OBVIOUS
<1>1. ASSUME NEW c \in Callers, Begin(c) \/ GiveUp(c) \/ Goes(c) \/ Lists(c)
      PROVE  ListedInv'
  <2>1. Others(c) /\ ListedOK(c)'
    BY <1>1, BeginStep, GiveUpStep, GoesStep, ListsStep DEF ListedInv
  <2>2. \A d \in Callers \ {c} : ListedOK(d)'
    BY <2>1, OthersKeep DEF ListedInv
  <2> QED BY <2>1, <2>2 DEF ListedInv, Others
<1>2. CASE UNCHANGED <<objects, stable, call, lister>>
  <2>1. Types'
    BY <1>2 DEF ListedInv, Types, Objects, Calls, Listers
  <2>2. ASSUME NEW c \in Callers PROVE ListedOK(c)'
    <3>1. ListedOK(c) BY DEF ListedInv
    <3>2. (Places(c) /\ Reading(c) /\ Keeps(c))'
      BY <1>2, <3>1 DEF ListedOK, Places, Reading, Reads, Keeps, Job
    <3>3. \A k : (Pending(c, k)' <=> Pending(c, k)) /\ (Settled(c, k)' <=> Settled(c, k))
      BY <1>2 DEF Pending, Settled
    <3>4. Alive(c)' => Seen(c)'
      BY <1>2, <3>1, <3>3 DEF ListedOK, Alive, Seen, Complete, Job
    <3> QED BY <3>2, <3>4 DEF ListedOK
  <2> QED BY <2>1, <2>2 DEF ListedInv
<1>3. ASSUME NEW n \in Names, RemoveClient(n) \/ \E e \in Endpoints : RegisterClient(n, e)
      PROVE  ListedInv'
  BY <1>2, <1>3 DEF RegisterClient, RemoveClient, store
<1>4. CASE Close \/ UNCHANGED vars
  BY <1>2, <1>4 DEF Close, vars, store
<1> QED BY <1>1, <1>3, <1>4 DEF Next

\* The inductive invariant holds in every reachable state.
THEOREM ListedInductive == Spec => []ListedInv
BY ListedInit, ListedStep, PTL DEF Spec

\* An operation of a caller that did not give up and that returns "ok" has
\* collected, downloaded or removed whatever stayed in the directory from the
\* beginning of its listing on (obs.go:309-342, 665-694, 730-747, 831-934),
\* however failures, writes and other callers interleave.
THEOREM EverythingIsListed == Spec => []AllListedWhileAlive
<1>1. ListedInv => AllListedWhileAlive
  BY DEF ListedInv, ListedOK, Seen, AllListedWhileAlive
<1> QED BY <1>1, ListedInductive, PTL

----------------------------------------------------------------------------
(***************************************************************************)
(* Nothing is lost.  What moves where.                                     *)
(***************************************************************************)

\* Only what a request names is moved, copied, removed or written, and a
\* listing brings what is under its directory.
MovesOK(c) ==
    /\ call[c].at \in {"stat", "list", "copyAll", "collect", "removeAll", "copy", "remove"} =>
         Job(c) \in Asked(c) \/ Job(c).op = "delete"
    /\ call[c].at = "copy" => Job(c).op = "copy" \/ (Job(c).op = "rename" /\ ~Job(c).dir)
    /\ call[c].at = "remove" /\ Job(c).op = "rename" => ~Job(c).dir
    /\ call[c].at \in {"list", "copyAll", "collect", "removeAll"} /\ Job(c).op = "rename" =>
         Job(c).dir
    /\ call[c].at \in {"stat", "list", "copyAll"} => call[c].keys = {}
    /\ call[c].at \in {"collect", "removeAll"} /\ Job(c).op = "rename" =>
         call[c].keys \subseteq Under(Job(c).src)
    /\ call[c].at \in {"put", "backoff"} =>
         Job(c) \in Requests /\ Job(c).op \in {"put", "fput", "mkdir", "upload"}
    /\ call[c].at \in {"idle", "put"} => call[c].start

Brings(c) ==
    /\ \A i \in 1..Len(lister[c].buf) : lister[c].buf[i] \in Under(lister[c].dir) \cup {Failed}
    /\ lister[c].at = "send" => lister[c].item \in Under(lister[c].dir) \cup {Failed}

\* A content of the beginning that nobody has to care for any more: it was
\* overwritten or deleted on demand, or lies where no rename removes it.
Safe(k) ==
    \/ Stored[k] \in {None} \cup dropped
    \/ \E l \in Keys \ Removed : objects[l] = Stored[k]

\* An object where it was at the beginning.
Intact(k) == ~IsDir(k) /\ objects[k] = Stored[k] /\ Stored[k] # None

Kept(k) ==
    /\ IsDir(k) \/ Safe(k) \/ objects[k] = Stored[k]
    /\ objects[k] # Torn

\* What a rename has copied, or is still to meet, before it removes the source.
Copied(c) ==
    Alive(c) /\ Job(c).op = "rename" =>
        /\ call[c].at = "remove" /\ Intact(Job(c).src) => Safe(Job(c).src)
        /\ call[c].at = "copyAll" =>
             \A k \in Under(Job(c).src) : Intact(k) => Pending(c, k) \/ Safe(k)
        /\ call[c].at \in {"collect", "removeAll"} =>
             \A k \in Under(Job(c).src) : Intact(k) => Safe(k)

LostOK(c) == MovesOK(c) /\ Brings(c) /\ Copied(c)
LostInv == (\A c \in Callers : LostOK(c)) /\ \A k \in Keys : Kept(k)

\* What an operation may be asked for.
LEMMA MoveFacts ==
    \A j \in Requests :
        /\ j.op = "rename" /\ j.dir => j.src \in Dirs
        /\ j.op = "rename" /\ ~j.dir => j.src \in Keys /\ j.dst \in Keys
        /\ j.op = "copy" => j.src \in Keys /\ j.dst \in Keys
        /\ j.op \in {"put", "fput", "mkdir", "upload"} => j.src \in Keys /\ j.content \in Contents
BY DEF Requests

\* The next file of an upload.
LEMMA NextUpload ==
    ASSUME NEW j \in Requests, j.op = "upload", j.more # <<>>
    PROVE  /\ [j EXCEPT !.src = Head(j.more), !.more = Tail(j.more)] \in Requests
           /\ [j EXCEPT !.src = Head(j.more), !.more = Tail(j.more)].op = "upload"
<1>1. j \in [op : {"upload"}, name : ClientNames, src : Keys, more : Seq(Keys),
             content : Contents]
  BY DEF Requests
<1>2. Head(j.more) \in Keys /\ Tail(j.more) \in Seq(Keys)
  BY <1>1
<1>3. [j EXCEPT !.src = Head(j.more), !.more = Tail(j.more)] \in
        [op : {"upload"}, name : ClientNames, src : Keys, more : Seq(Keys), content : Contents]
  BY <1>1, <1>2
<1> QED BY <1>3 DEF Requests

\* What a rename removes, and where it copies to.
LEMMA RenameFacts ==
    ASSUME Apart, NEW c \in Callers, NEW j \in Asked(c)
    PROVE  /\ j.op = "rename" /\ j.dir => Under(j.src) \subseteq Removed
           /\ j.op = "rename" /\ ~j.dir => j.src \in Removed
           /\ j.op = "rename" /\ j.dir =>
                \A k \in Under(j.src) \ {MarkerOf(j.src)} :
                    Moved(k, j.src, j.dst) \in Keys \ Removed
           /\ j.op = "copy" \/ (j.op = "rename" /\ ~j.dir) => j.dst \in Keys \ Removed
<1>1. j \in Requests BY ObsAssumption
<1>2. j.op = "rename" => RemovedBy(j) \subseteq Removed
  BY DEF Removed
<1> QED BY <1>1, <1>2, MoveFacts DEF Apart, RemovedBy

LEMMA MarkerFacts ==
    ASSUME NEW d \in Dirs
    PROVE  MarkerOf(d) # Failed /\ IsDir(MarkerOf(d))
<1> DEFINE S == STRING \cup {Marker}
<1>1. d \in Seq(S) BY DEF Dirs
<1>2. Marker \in S OBVIOUS
<1> HIDE DEF S
<1> QED BY <1>1, <1>2, AppendProperties DEF MarkerOf, IsDir, Failed

----------------------------------------------------------------------------
\* How a step of a caller touches its listing.
LEMMA ListerMoves ==
    ASSUME NEW c \in Callers, Goes(c)
    PROVE  \/ UNCHANGED lister
           \/ \E r : Return(c, r)
           \/ Arrived(c) /\ TakeItem(c)
           \/ \E d : ListObjects(c, d)
<1>1. ASSUME StartListing(c) \/ RenameOne(c) \/ RemoveOne(c) \/ RenameItem(c) \/ RenameDelete(c)
      PROVE  \/ UNCHANGED lister
             \/ \E r : Return(c, r)
             \/ Arrived(c) /\ TakeItem(c)
             \/ \E d : ListObjects(c, d)
  BY <1>1, Zenon DEF StartListing, RenameOne, RemoveOne, RenameItem, RenameDelete
<1>2. ASSUME Collect(c) \/ Collected(c) \/ RemoveNext(c) \/ RemovedAll(c) \/ Stat(c) \/ Exist(c)
      PROVE  UNCHANGED lister \/ (\E r : Return(c, r)) \/ (Arrived(c) /\ TakeItem(c))
  BY <1>2, Zenon DEF Collect, Collected, RemoveNext, RemovedAll, Stat, Exist
<1>3. ASSUME Download(c) \/ ListAllObjects(c) \/ Rewind(c) \/ GetObject(c) \/ FGetObject(c)
      PROVE  UNCHANGED lister \/ (\E r : Return(c, r)) \/ (Arrived(c) /\ TakeItem(c))
  BY <1>3, Zenon DEF Download, ListAllObjects, Rewind, GetObject, FGetObject
<1>4. ASSUME Uploads(c) PROVE UNCHANGED lister
  BY <1>4 DEF Uploads, PutObject, FPutObject, CreateDirectory, FPutDirectory
<1> QED BY <1>1, <1>2, <1>3, <1>4 DEF Goes, Uploads

\* A listing brings only what is under its directory.
LEMMA BringsStep ==
    ASSUME Types, NEW c \in Callers, Brings(c), Goes(c) \/ Lists(c) \/ UNCHANGED lister
    PROVE  Brings(c)'
<1>1. lister[c].buf \in Seq(Items) /\ lister[c].item \in Items /\ lister[c].last \in Nat
  BY DEF Types
<1>2. CASE UNCHANGED lister
  BY <1>2 DEF Brings
<1>3. CASE \E r : Return(c, r)
  BY <1>3, BackListing DEF Types, Brings
<1>4. CASE Arrived(c) /\ TakeItem(c)
  <2>1. ListerBecomes(c, lister[c].at, lister[c].last, lister[c].item, Tail(lister[c].buf))
    BY <1>4, Taken DEF Types
  <2>2. \A i \in 1..Len(Tail(lister[c].buf)) :
            i + 1 \in 1..Len(lister[c].buf) /\ Tail(lister[c].buf)[i] = lister[c].buf[i + 1]
    BY <1>1, <1>4 DEF Arrived
  <2> QED BY <2>1, <2>2 DEF ListerBecomes, Brings
<1>5. CASE \E d : ListObjects(c, d)
  <2>1. lister'[c].buf = <<>> /\ lister'[c].at = "run"
    BY <1>5, Fresh DEF Types, NewLister
  <2> QED BY <2>1 DEF Brings
<1>6. CASE ListNext(c)
  <2>1. \A k \in NextKeys(c) : k \in Under(lister[c].dir)
    BY DEF NextKeys
  <2> QED BY <1>6, <2>1, ListNextFields DEF Finds, ListerBecomes, Brings
<1>7. CASE ListSend(c)
  <2>1. /\ \A i \in 1..Len(lister[c].buf) :
               Append(lister[c].buf, lister[c].item)[i] = lister[c].buf[i]
        /\ Len(Append(lister[c].buf, lister[c].item)) = Len(lister[c].buf) + 1
        /\ Append(lister[c].buf, lister[c].item)[Len(lister[c].buf) + 1] = lister[c].item
        /\ Len(lister[c].buf) \in Nat
    BY <1>1
  <2>2. lister[c].at = "send"
    BY <1>7, ListSendFields
  <2>3. ASSUME NEW at \in {"run", "ended"}, NEW last,
               ListerBecomes(c, at, last, Failed, Append(lister[c].buf, lister[c].item))
        PROVE  Brings(c)'
    BY <2>1, <2>2, <2>3 DEF ListerBecomes, Brings
  <2>4. CASE ListerBecomes(c, "ended", 0, Failed, lister[c].buf)
    BY <2>4 DEF ListerBecomes, Brings
  <2> QED BY <1>7, <2>3, <2>4, ListSendFields
<1> QED BY <1>2, <1>3, <1>4, <1>5, <1>6, <1>7, ListerMoves DEF Lists
----------------------------------------------------------------------------
\* What a step of c makes of its own call, for what a rename may remove.
LEMMA MovesReturn ==
    ASSUME Calls, NEW c \in Callers, NEW r, Return(c, r) \/ call' = Returned(c, r)
    PROVE  MovesOK(c)' /\ Copied(c)'
<1>1. call'[c].at = "done"
  BY Back DEF CallBecomes, Return
<1> QED BY <1>1 DEF MovesOK, Copied

LEMMA MovesStay ==
    ASSUME NEW c \in Callers, MovesOK(c), NEW r, NEW ks, NEW f,
           CallBecomes(c, call[c].at, r, ks, f), ks = call[c].keys \/ call[c].at = "download"
             \/ call[c].at = "listAll"
    PROVE  MovesOK(c)'
BY DEF CallBecomes, MovesOK, Job

LEMMA MovesBegin ==
    ASSUME Types, NEW c \in Callers, MovesOK(c), Begin(c)
    PROVE  MovesOK(c)' /\ Copied(c)'
<1>1. CASE call' = Returned(c, "error")
  BY <1>1, MovesReturn DEF Types
<1>2. SUFFICES ASSUME NEW j \in Asked(c), call' = Asks(c, j)
               PROVE  MovesOK(c)' /\ Copied(c)'
  BY <1>1, BeginAsks
<1>3. /\ call'[c].job = j /\ call'[c].at = FirstStep(j) /\ call'[c].start = call[c].start
      /\ call'[c].keys = IF j.op = "removeObjects" THEN j.keys ELSE {}
  BY <1>2, AsksFields DEF Types
<1>4. call[c].start /\ j \in Requests /\ j \in Asked(c)
  BY ObsAssumption DEF Begin, MovesOK
<1>5. /\ j.op = "rename" => FirstStep(j) = IF j.dir THEN "list" ELSE "copy"
      /\ j.op \in {"delete", "download", "listAll"} => FirstStep(j) = "list"
      /\ j.op = "exist" => FirstStep(j) = "stat"
      /\ j.op \in {"upload", "put", "fput", "mkdir"} => FirstStep(j) = "put"
      /\ j.op = "removeObjects" => FirstStep(j) = "removeAll"
      /\ j.op \in {"copy", "remove", "get"} => FirstStep(j) = j.op
  BY FirstSteps
<1>6. j.op \in {"rename", "copy", "remove", "get", "delete", "download", "listAll", "exist",
                "removeObjects", "put", "fput", "mkdir", "upload"}
  BY <1>4, RequestFacts
<1>7. MovesOK(c)'
  BY <1>3, <1>4, <1>5, <1>6 DEF MovesOK, Job
<1>8. Copied(c)'
  BY <1>3, <1>5, <1>6 DEF Copied, Job
<1> QED BY <1>7, <1>8

LEMMA MovesGiveUp ==
    ASSUME Types, NEW c \in Callers, MovesOK(c), GiveUp(c)
    PROVE  MovesOK(c)' /\ Copied(c)'
<1>1. call'[c] = [call[c] EXCEPT !.gone = TRUE]
  BY DEF Types, Calls, GiveUp
<1>2. /\ call'[c].job = call[c].job /\ call'[c].at = call[c].at /\ call'[c].keys = call[c].keys
      /\ call'[c].gone = TRUE /\ call'[c].start = call[c].start
  BY <1>1 DEF Types, Calls
<1> QED BY <1>2 DEF MovesOK, Copied, Alive, Job

\* An upload goes on, is tried again or returns.
LEMMA MovesUpload ==
    ASSUME Types, NEW c \in Callers, MovesOK(c), Uploads(c) \/ Rewind(c)
    PROVE  MovesOK(c)' /\ Copied(c)'
<1>1. Calls BY DEF Types
<1>2. call[c].at \in {"put", "backoff"}
  BY DEF Uploads, PutObject, FPutObject, CreateDirectory, FPutDirectory, Rewind
<1>3. Job(c) \in Requests /\ Job(c).op \in {"put", "fput", "mkdir", "upload"}
  BY <1>2 DEF MovesOK
<1>4. CASE call' = Returned(c, "ok") \/ call' = Returned(c, "error")
  BY <1>1, <1>4, MovesReturn
<1>5. CASE call' = Again(c)
  <2>1. call'[c].job = call[c].job /\ call'[c].at \in {"done", "backoff"}
    BY SMTT(30), <1>1, <1>5, AgainCalls
  <2> QED BY <1>3, <2>1 DEF MovesOK, Copied, Job
<1>6. CASE /\ call[c].at = "put" /\ Job(c).op = "upload" /\ Job(c).more # <<>>
           /\ call' = [call EXCEPT ![c].job.src = Head(Job(c).more), ![c].job.more = Tail(@)]
  <2>1. /\ call'[c].at = "put" /\ call'[c].start = call[c].start
        /\ call'[c].job = [call[c].job EXCEPT !.src = Head(Job(c).more), !.more = Tail(@)]
    BY <1>1, <1>6, NextFile
  <2>2. call'[c].job \in Requests /\ call'[c].job.op = "upload"
    BY <1>3, <1>6, <2>1, NextUpload DEF Job
  <2> QED BY <1>6, <2>1, <2>2 DEF MovesOK, Copied, Job
<1>7. CASE call' = [call EXCEPT ![c].at = "put", ![c].start = TRUE]
  <2>1. call'[c] = [call[c] EXCEPT !.at = "put", !.start = TRUE]
    BY <1>1, <1>7 DEF Calls
  <2>2. call'[c].at = "put" /\ call'[c].start = TRUE /\ call'[c].job = call[c].job
    BY <1>1, <2>1 DEF Calls
  <2> QED BY <1>3, <2>2 DEF MovesOK, Copied, Job
<1>8. ASSUME Uploads(c)
      PROVE  \/ call' = Returned(c, "ok") \/ call' = Returned(c, "error") \/ call' = Again(c)
             \/ /\ call[c].at = "put" /\ Job(c).op = "upload" /\ Job(c).more # <<>>
                /\ call' = [call EXCEPT ![c].job.src = Head(Job(c).more), ![c].job.more = Tail(@)]
  BY <1>8 DEF Uploads, PutObject, FPutObject, CreateDirectory, FPutDirectory, Attempt
<1> QED BY <1>4, <1>5, <1>6, <1>7, <1>8 DEF Rewind
----------------------------------------------------------------------------
(***************************************************************************)
(* What a step does to the objects: one that it replaces was asked for, or *)
(* is safe, and none comes back to where a rename removes.                 *)
(***************************************************************************)
Fate ==
    /\ dropped \subseteq dropped'
    /\ \A l \in Keys :
        /\ \/ objects'[l] = objects[l]
           \/ objects[l] \in {None} \cup dropped'
           \/ l \in Removed /\ (Intact(l) => Safe(l))
        /\ l \in Removed /\ objects'[l] = Stored[l] =>
             objects[l] = Stored[l] \/ Stored[l] = None
        /\ objects'[l] # Torn

AllKept == \A k \in Keys : Kept(k)

LEMMA FateOfNothing == AllKept /\ UNCHANGED <<objects, dropped>> => Fate
BY DEF AllKept, Kept, Fate

LEMMA FateOfWrite ==
    ASSUME Types, AllKept, NEW l, NEW v, Store([objects EXCEPT ![l] = v]),
           dropped \subseteq dropped', v # Torn,
           \/ v = objects[l] \/ objects[l] \in {None} \cup dropped'
           \/ l \in Removed /\ (Intact(l) => Safe(l)),
           l \in Removed => v # Stored[l] \/ Stored[l] = None
    PROVE  Fate
<1>1. \A k \in Keys : objects'[k] = IF k = l THEN v ELSE objects[k]
  BY DEF Types, Objects, Store
<1> QED BY <1>1 DEF AllKept, Kept, Fate

LEMMA SafeLasts == ASSUME Fate, NEW k, Safe(k) PROVE Safe(k)'
BY DEF Fate, Safe

LEMMA KeptLasts == ASSUME Fate, AllKept PROVE AllKept'
<1>1. ASSUME NEW k \in Keys PROVE Kept(k)'
  <2>1. Kept(k) BY DEF AllKept
  <2>2. CASE Safe(k)
    BY <2>2, SafeLasts DEF Fate, Kept
  <2>3. CASE objects[k] = Stored[k] /\ ~IsDir(k) /\ ~Safe(k)
    <3>1. objects[k] \in {None} \cup dropped' => Safe(k)'
      BY <2>3 DEF Safe
    <3>2. Intact(k) BY <2>3 DEF Intact, Safe
    <3> QED BY <2>3, <3>1, <3>2 DEF Fate, Kept
  <2>4. CASE IsDir(k)
    BY <2>4 DEF Fate, Kept
  <2> QED BY <2>1, <2>2, <2>3, <2>4 DEF Kept
<1> QED BY <1>1 DEF AllKept

LEMMA IntactBefore ==
    ASSUME Fate, NEW k \in Keys, k \in Removed, Intact(k)'
    PROVE  Intact(k)
BY DEF Fate, Intact

\* Every step leaves what another caller has copied, or is to meet.
LEMMA OthersCopied ==
    ASSUME Apart, Fate, NEW d \in Callers, LostOK(d), UNCHANGED <<call[d], lister[d]>>
    PROVE  LostOK(d)'
<1>1. MovesOK(d)' /\ Brings(d)'
  BY DEF LostOK, MovesOK, Brings, Job
<1>2. \A k : Pending(d, k) => Pending(d, k)'
  BY DEF Pending
<1>3. ASSUME Alive(d), Job(d).op = "rename", NEW k \in Under(Job(d).src), Intact(k)',
             call[d].at \in {"copyAll", "collect", "removeAll"}
      PROVE  Intact(k)
  <2>1. Job(d) \in Asked(d) /\ Job(d).dir
    BY <1>3 DEF LostOK, MovesOK
  <2>2. k \in Removed BY <1>3, <2>1, RenameFacts
  <2> QED BY <1>3, <2>2, IntactBefore DEF Under
<1>4. ASSUME Alive(d), Job(d).op = "rename", call[d].at = "remove", NEW k, k = Job(d).src,
             Intact(k)'
      PROVE  Safe(k)'
  <2>1. Job(d) \in Asked(d) /\ ~Job(d).dir
    BY <1>4 DEF LostOK, MovesOK
  <2>2. Job(d) \in Requests
    BY <2>1, ObsAssumption
  <2>3. k \in Removed
    BY <1>4, <2>1, RenameFacts
  <2>4. k \in Keys
    BY <1>4, <2>1, <2>2, MoveFacts
  <2>5. Intact(k)
    BY <1>4, <2>3, <2>4, IntactBefore
  <2>6. Safe(k)
    BY <1>4, <2>5 DEF LostOK, Copied
  <2> QED BY <2>6, SafeLasts
<1>5. Copied(d)'
  <2>1. call'[d] = call[d] /\ Copied(d)
    BY DEF LostOK
  <2>2. PICK k : k = Job(d).src
    OBVIOUS
  <2>3. Alive(d) /\ Job(d).op = "rename" /\ call[d].at = "remove" /\ Intact(k)' => Safe(k)'
    BY <1>4, <2>2
  <2>4. (Intact(Job(d).src)' <=> Intact(k)') /\ (Safe(Job(d).src)' <=> Safe(k)')
    BY <2>1, <2>2 DEF Intact, Safe, Job
  <2> QED BY <1>2, <1>3, <2>1, <2>3, <2>4, SafeLasts DEF Copied, Alive, Job
<1> QED BY <1>1, <1>5 DEF LostOK

\* What the steps of c rely on, and what they bring about.
Before(c) == Types /\ ListedOK(c) /\ LostOK(c) /\ AllKept
After(c) == Fate /\ MovesOK(c)' /\ Copied(c)'

LEMMA ReturnAfter ==
    ASSUME NEW c \in Callers, Before(c), Fate, NEW r, Return(c, r) \/ call' = Returned(c, r)
    PROVE  After(c)
BY MovesReturn DEF Before, Types, After

\* What is still safe while c goes on.
LEMMA StillSafe ==
    ASSUME Apart, NEW c \in Callers, Before(c), Fate, Job(c) \in Asked(c), Job(c).op = "rename",
           Job(c).dir, NEW k \in Under(Job(c).src), Intact(k)'
    PROVE  Intact(k) /\ (Safe(k) => Safe(k)')
BY RenameFacts, IntactBefore, SafeLasts DEF Under

LEMMA CopyFate ==
    ASSUME NEW c \in Callers, Before(c), NEW k \in Keys, NEW l \in Keys \ Removed,
           CopyObject(c, k, l)
    PROVE  /\ Fate /\ Alive(c) /\ objects[k] # None
           /\ objects' = [objects EXCEPT ![l] = objects[k]]
<1>1. objects[k] # Torn
  BY DEF Before, AllKept, Kept
<1>2. objects[k] = objects[l] \/ objects[l] \in {None} \cup dropped'
  BY DEF CopyObject, Overwritten
<1>3. dropped \subseteq dropped' /\ Store([objects EXCEPT ![l] = objects[k]])
  BY DEF CopyObject
<1>4. Fate
  <2>1. Types /\ AllKept BY DEF Before
  <2> QED BY <1>1, <1>2, <1>3, <2>1, FateOfWrite
<1> QED BY <1>4 DEF CopyObject, Store

LEMMA RenameOneAfter ==
    ASSUME Apart, NEW c \in Callers, Before(c), RenameOne(c)
    PROVE  After(c)
<1>1. call[c].at = "copy" /\ Types /\ AllKept
  BY DEF RenameOne, Before
<1>2. /\ Job(c) \in Asked(c) /\ Job(c) \in Requests
      /\ Job(c).op = "copy" \/ (Job(c).op = "rename" /\ ~Job(c).dir)
  BY <1>1, ObsAssumption DEF Before, LostOK, MovesOK
<1>3. Job(c).src \in Keys /\ Job(c).dst \in Keys \ Removed
  BY <1>2, MoveFacts, RenameFacts
<1>4. CASE Return(c, "error") /\ UNCHANGED <<store, dropped>>
  BY <1>1, <1>4, ReturnAfter, FateOfNothing DEF store
<1>5. CASE CopyObject(c, Job(c).src, Job(c).dst) /\ Return(c, "ok")
  BY <1>3, <1>5, CopyFate, ReturnAfter
<1>6. CASE CopyObject(c, Job(c).src, Job(c).dst) /\ Job(c).op # "copy" /\ Goto(c, "remove")
  <2>1. Fate /\ objects' = [objects EXCEPT ![Job(c).dst] = objects[Job(c).src]]
    BY <1>3, <1>6, CopyFate
  <2>2. CallBecomes(c, "remove", call[c].result, call[c].keys, call[c].failed)
    BY <1>1, <1>6, Gone DEF Types
  <2>3. Job(c).src \in Removed
    BY <1>2, <1>6, RenameFacts
  <2>4. objects'[Job(c).src] = objects[Job(c).src] /\ objects'[Job(c).dst] = objects[Job(c).src]
    BY <1>1, <1>3, <2>1, <2>3 DEF Types, Objects
  <2>5. Intact(Job(c).src)' => Safe(Job(c).src)'
    BY <1>3, <2>2, <2>4 DEF Intact, Safe, CallBecomes, Job
  <2>6. MovesOK(c)'
    BY <1>2, <1>6, <2>2 DEF CallBecomes, MovesOK, Job
  <2>7. Copied(c)'
    BY <2>2, <2>5 DEF CallBecomes, Copied
  <2> QED BY <2>1, <2>6, <2>7 DEF After
<1> QED BY <1>4, <1>5, <1>6 DEF RenameOne
LEMMA RemoveOneAfter ==
    ASSUME Apart, NEW c \in Callers, Before(c), RemoveOne(c)
    PROVE  After(c)
<1>1. call[c].at = "remove" /\ Types /\ AllKept
  BY DEF RemoveOne, Before
<1>2. CASE Return(c, "error") /\ UNCHANGED <<store, dropped>>
  BY <1>1, <1>2, ReturnAfter, FateOfNothing DEF store
<1>3. CASE /\ Alive(c) /\ Store([objects EXCEPT ![Job(c).src] = None])
           /\ dropped' = dropped \cup OnDemand(c, Job(c).src)
           /\ Return(c, "ok")
  <2>1. \/ objects[Job(c).src] \in {None} \cup dropped'
        \/ Job(c).src \in Removed /\ (Intact(Job(c).src) => Safe(Job(c).src))
    <3>1. CASE Job(c).op = "rename"
      <4>1. Job(c) \in Asked(c) /\ ~Job(c).dir
        BY <1>1, <3>1 DEF Before, LostOK, MovesOK
      <4>2. Job(c).src \in Removed
        BY <1>1, <3>1, <4>1, RenameFacts
      <4> QED BY <1>1, <1>3, <3>1, <4>2 DEF Before, LostOK, Copied
    <3>2. CASE Job(c).op # "rename"
      BY <1>3, <3>2 DEF OnDemand, Overwritten
    <3> QED BY <3>1, <3>2
  <2>2. None # Torn /\ \A l \in Keys : Stored[l] = None \/ None # Stored[l]
    BY ObsAssumption
  <2>3. dropped \subseteq dropped' /\ Store([objects EXCEPT ![Job(c).src] = None])
    BY <1>3
  <2>4. Fate
    BY <1>1, <2>1, <2>2, <2>3, FateOfWrite
  <2> QED BY <1>3, <2>4, ReturnAfter
<1> QED BY <1>2, <1>3 DEF RemoveOne

LEMMA StartListingAfter ==
    ASSUME Apart, NEW c \in Callers, Before(c), StartListing(c)
    PROVE  After(c)
<1>1. call[c].at = "list" /\ Types /\ AllKept /\ UNCHANGED <<objects, dropped>>
  BY DEF StartListing, Before
<1>2. Fate BY <1>1, FateOfNothing
<1>3. CallBecomes(c, Reader(Job(c)), call[c].result, call[c].keys, call[c].failed)
  BY <1>1, Gone DEF Types, StartListing
<1>4. lister'[c].at = "run" /\ lister'[c].last = 0
  BY <1>1, Fresh DEF Types, StartListing, NewLister
<1>5. /\ Job(c) \in Asked(c) \/ Job(c).op = "delete"
      /\ (Job(c).op = "rename" => Job(c).dir) /\ call[c].keys = {}
      /\ Job(c).op \in {"rename", "delete", "download", "listAll", "exist"}
  BY <1>1 DEF Before, LostOK, MovesOK, ListedOK, Places
<1>6. /\ Job(c).op = "rename" => Reader(Job(c)) = "copyAll"
      /\ Job(c).op = "delete" => Reader(Job(c)) = "collect"
      /\ Job(c).op \in {"download", "listAll", "exist"} => Reader(Job(c)) = Job(c).op
  BY DEF Reader
<1>7. MovesOK(c)'
  BY <1>3, <1>5, <1>6 DEF CallBecomes, MovesOK, Job
<1>8. \A k \in Keys : Pending(c, k)'
  BY <1>4, KeyFacts DEF Pending
<1>9. Copied(c)'
  BY <1>3, <1>5, <1>6, <1>8 DEF CallBecomes, Copied, Job, Under
<1> QED BY <1>2, <1>7, <1>9 DEF After

\* What a reader takes is under the directory it reads.
LEMMA ItemUnder ==
    ASSUME NEW c \in Callers, Before(c), Arrived(c), Reads(c)
    PROVE  Item(c) \in Under(Job(c).src) \cup {Failed}
<1>1. lister[c].buf \in Seq(Items) /\ lister[c].buf # <<>>
  BY DEF Before, Types, Arrived
<1>2. 1 \in 1..Len(lister[c].buf) /\ Item(c) = lister[c].buf[1]
  BY <1>1 DEF Item
<1>3. Item(c) \in Under(lister[c].dir) \cup {Failed}
  BY <1>2 DEF Before, LostOK, Brings
<1> QED BY <1>3 DEF Before, ListedOK, Reading

\* Another object of a directory is copied, or its marker is left out.
LEMMA RenameItemAfter ==
    ASSUME Apart, NEW c \in Callers, Before(c), RenameItem(c)
    PROVE  After(c)
<1>1. call[c].at = "copyAll" /\ Arrived(c) /\ Types /\ AllKept /\ ListedOK(c)
  BY DEF RenameItem, Before
<1>2. Job(c) \in Asked(c) /\ Job(c) \in Requests /\ Job(c).op = "rename" /\ Job(c).dir
  BY <1>1, ObsAssumption DEF Before, LostOK, MovesOK, ListedOK, Places
<1>3. Job(c).src \in Dirs /\ lister[c].dir = Job(c).src
  BY <1>1, <1>2, MoveFacts DEF ListedOK, Reading, Reads
<1>4. CASE Return(c, "error") /\ UNCHANGED <<store, dropped>>
  BY <1>1, <1>4, ReturnAfter, FateOfNothing DEF store
<1>5. ASSUME TakeItem(c), UNCHANGED call, Fate, Item(c) # Failed,
             ASSUME NEW k \in Under(Job(c).src), k = Item(c), Intact(k)' PROVE Safe(k)'
      PROVE  After(c)
  <2>1. CallBecomes(c, call[c].at, call[c].result, call[c].keys, call[c].failed)
    BY <1>1, <1>5, CallStays
  <2>2. MovesOK(c)'
    BY <2>1, MovesStay DEF Before, LostOK
  <2>3. ASSUME NEW k \in Under(Job(c).src), Intact(k)', Alive(c)
        PROVE  Pending(c, k)' \/ Safe(k)'
    <3>1. Intact(k) /\ (Safe(k) => Safe(k)')
      BY <1>2, <1>5, <2>3, StillSafe
    <3>2. Pending(c, k) \/ Safe(k)
      BY <1>1, <1>2, <2>3, <3>1 DEF Before, LostOK, Copied
    <3>3. CASE Item(c) = k
      BY <1>5, <2>3, <3>3
    <3>4. CASE Item(c) # k
      <4>1. Pending(c, k) => Pending(c, k)'
        BY <1>1, <1>5, <3>4, TakePending
      <4> QED BY <3>1, <3>2, <4>1
    <3> QED BY <3>3, <3>4
  <2>4. Copied(c)'
    BY <1>1, <2>1, <2>3 DEF CallBecomes, Copied, Alive, Job
  <2> QED BY <1>5, <2>2, <2>4 DEF After
<1>6. CASE Item(c) = MarkerOf(Job(c).src) /\ TakeItem(c) /\ UNCHANGED <<store, call, dropped>>
  <2>1. Item(c) # Failed /\ IsDir(Item(c))
    BY <1>3, <1>6, MarkerFacts
  <2>2. Fate BY <1>1, <1>6, FateOfNothing DEF store
  <2>3. ASSUME NEW k \in Under(Job(c).src), k = Item(c), Intact(k)' PROVE Safe(k)'
    BY <2>1, <2>3 DEF Intact
  <2> QED BY <1>5, <1>6, <2>1, <2>2, <2>3
<1>7. CASE /\ Item(c) \notin {Failed, MarkerOf(Job(c).src)}
           /\ CopyObject(c, Item(c), Moved(Item(c), Job(c).src, Job(c).dst))
           /\ TakeItem(c) /\ UNCHANGED call
  <2>1. Item(c) \in Under(Job(c).src) /\ Item(c) \in Keys
    BY <1>1, <1>7, ItemUnder DEF Reads, Under
  <2> DEFINE l == Moved(Item(c), Job(c).src, Job(c).dst)
  <2>2. l \in Keys \ Removed
    BY <1>2, <1>7, <2>1, RenameFacts
  <2>3. Fate /\ objects' = [objects EXCEPT ![l] = objects[Item(c)]]
    <3> HIDE DEF l
    <3> QED BY <1>7, <2>1, <2>2, CopyFate DEF l
  <2>4. objects'[l] = objects[Item(c)]
    <3> HIDE DEF l
    <3> QED BY <1>1, <2>2, <2>3 DEF Types, Objects
  <2>5. ASSUME NEW k \in Under(Job(c).src), k = Item(c), Intact(k)' PROVE Safe(k)'
    <3>1. Intact(k)
      BY <1>2, <2>3, <2>5, StillSafe
    <3> HIDE DEF l
    <3> QED BY <2>2, <2>4, <2>5, <3>1 DEF Intact, Safe
  <2> QED BY <1>5, <1>7, <2>3, <2>5
<1> QED BY <1>4, <1>6, <1>7 DEF RenameItem

LEMMA RenameDeleteAfter ==
    ASSUME Apart, NEW c \in Callers, Before(c), RenameDelete(c)
    PROVE  After(c)
<1>1. call[c].at = "copyAll" /\ Listed(c) /\ Types /\ AllKept /\ UNCHANGED <<objects, dropped>>
  BY DEF RenameDelete, Before
<1>2. Fate BY <1>1, FateOfNothing
<1>3. /\ Job(c) \in Asked(c) /\ Job(c).op = "rename" /\ Job(c).dir /\ call[c].keys = {}
  BY <1>1 DEF Before, LostOK, MovesOK, ListedOK, Places
<1>4. CASE Return(c, "error")
  BY <1>2, <1>4, ReturnAfter
<1>5. CASE Goto(c, "collect")
  <2>1. CallBecomes(c, "collect", call[c].result, call[c].keys, call[c].failed)
    BY <1>1, <1>5, Gone DEF Types
  <2>2. MovesOK(c)'
    BY <1>3, <2>1 DEF CallBecomes, MovesOK, Job
  <2>3. ASSUME NEW k \in Under(Job(c).src), Intact(k)', Alive(c) PROVE Safe(k)'
    <3>1. Intact(k) /\ (Safe(k) => Safe(k)')
      BY <1>2, <1>3, <2>3, StillSafe
    <3>2. ~Pending(c, k)
      BY <1>1 DEF Listed, Pending
    <3> QED BY <1>1, <1>3, <2>3, <3>1, <3>2 DEF Before, LostOK, Copied
  <2>4. Copied(c)'
    BY <2>1, <2>3 DEF CallBecomes, Copied, Alive, Job
  <2> QED BY <1>2, <2>2, <2>4 DEF After
<1>6. ASSUME NEW d, DeletesAnother(c, d) PROVE After(c)
  <2>1. /\ call'[c].at = "collect" /\ call'[c].start = call[c].start
        /\ Job(c)'.op = "delete"
    BY <1>1, <1>6, AnotherFields DEF Types, Job
  <2> QED BY <1>2, <2>1 DEF After, MovesOK, Copied
<1> QED BY <1>4, <1>5, <1>6 DEF RenameDelete
----------------------------------------------------------------------------
\* What is removed stays copied, whatever has happened to it since.
LEMMA CopiedLasts ==
    ASSUME Apart, NEW c \in Callers, Before(c), Fate,
           call[c].at \in {"collect", "removeAll"}, NEW at \in {"collect", "removeAll"},
           NEW r, NEW ks, NEW f, CallBecomes(c, at, r, ks, f)
    PROVE  Copied(c)'
<1>1. ASSUME Alive(c), Job(c).op = "rename", NEW k \in Under(Job(c).src), Intact(k)'
      PROVE  Safe(k)'
  <2>1. Job(c) \in Asked(c) /\ Job(c).dir
    BY <1>1 DEF Before, LostOK, MovesOK
  <2>2. Intact(k) /\ (Safe(k) => Safe(k)')
    BY <1>1, <2>1, StillSafe
  <2> QED BY <1>1, <2>2 DEF Before, LostOK, Copied
<1> QED BY <1>1 DEF CallBecomes, Copied, Alive, Job

LEMMA CollectAfter ==
    ASSUME Apart, NEW c \in Callers, Before(c), Collect(c) \/ Collected(c)
    PROVE  After(c)
<1>1. call[c].at = "collect" /\ Types /\ AllKept /\ UNCHANGED <<objects, dropped>>
  BY DEF Collect, Collected, Before, store
<1>2. Fate BY <1>1, FateOfNothing
<1>3. MovesOK(c) BY DEF Before, LostOK
<1>4. CASE \E r : Return(c, r)
  BY <1>2, <1>4, ReturnAfter
<1>5. CASE Goto(c, "removeAll")
  <2>1. CallBecomes(c, "removeAll", call[c].result, call[c].keys, call[c].failed)
    BY <1>1, <1>5, Gone DEF Types
  <2>2. MovesOK(c)'
    BY <1>1, <1>3, <2>1 DEF CallBecomes, MovesOK, Job
  <2> QED BY <1>1, <1>2, <2>1, <2>2, CopiedLasts DEF After
<1>6. CASE Collect(c)
  <2> DEFINE f == call[c].failed \/ Item(c) = Failed
             ks == call[c].keys \cup ({Item(c)} \ {Failed})
  <2>1. CallBecomes(c, "collect", call[c].result, ks, f)
    BY <1>1, <1>6, Gathered DEF Types, Collect
  <2>2. Item(c) \in Under(Job(c).src) \cup {Failed}
    BY <1>1, <1>6, ItemUnder DEF Collect, Reads
  <2>3. MovesOK(c)'
    BY <1>1, <1>3, <2>1, <2>2 DEF CallBecomes, MovesOK, Job
  <2> HIDE DEF f, ks
  <2> QED BY <1>1, <1>2, <2>1, <2>3, CopiedLasts DEF After
<1> QED BY <1>4, <1>5, <1>6 DEF Collected

LEMMA RemoveNextAfter ==
    ASSUME Apart, NEW c \in Callers, Before(c), RemoveNext(c)
    PROVE  After(c)
<1>1. call[c].at = "removeAll" /\ call[c].keys # {} /\ Types /\ AllKept /\ MovesOK(c)
  BY DEF RemoveNext, Before, LostOK
<1>2. Calls BY <1>1 DEF Types
<1>3. ASSUME Fate, NEW ks \in SUBSET call[c].keys, NEW f,
             CallBecomes(c, "removeAll", call[c].result, ks, f)
      PROVE  After(c)
  <2>1. MovesOK(c)'
    BY <1>1, <1>3 DEF CallBecomes, MovesOK, Job
  <2>2. Copied(c)'
    BY <1>1, <1>3, CopiedLasts
  <2> QED BY <1>3, <2>1, <2>2 DEF After
<1>4. ASSUME NEW k, Job(c).op = "rename" => k \in call[c].keys,
             Alive(c), Store([objects EXCEPT ![k] = None]),
             call' = [call EXCEPT ![c].keys = @ \ {k}],
             dropped' = dropped \cup OnDemand(c, k)
      PROVE  After(c)
  <2>1. CallBecomes(c, "removeAll", call[c].result, call[c].keys \ {k}, call[c].failed)
    BY <1>1, <1>2, <1>4, GatheredKeys
  <2>2. \/ objects[k] \in {None} \cup dropped'
        \/ k \in Removed /\ (Intact(k) => Safe(k))
    <3>1. CASE Job(c).op = "rename"
      <4>1. Job(c) \in Asked(c) /\ Job(c).dir /\ call[c].keys \subseteq Under(Job(c).src)
        BY <1>1, <3>1 DEF MovesOK
      <4>2. k \in Under(Job(c).src) /\ k \in Removed
        BY <1>4, <3>1, <4>1, RenameFacts
      <4> QED BY <1>1, <1>4, <3>1, <4>2 DEF Before, LostOK, Copied
    <3>2. CASE Job(c).op # "rename"
      BY <1>4, <3>2 DEF OnDemand, Overwritten
    <3> QED BY <3>1, <3>2
  <2>3. None # Torn /\ \A l \in Keys : Stored[l] = None \/ None # Stored[l]
    BY ObsAssumption
  <2>4. Fate
    BY <1>1, <1>4, <2>2, <2>3, FateOfWrite
  <2> QED BY <1>3, <2>1, <2>4
<1>5. ASSUME NEW ks \in SUBSET call[c].keys,
             \/ call' = [call EXCEPT ![c].failed = TRUE, ![c].keys = ks]
             \/ call' = [call EXCEPT ![c].keys = ks],
             UNCHANGED <<store, dropped>>
      PROVE  After(c)
  <2>1. Fate BY <1>1, <1>5, FateOfNothing DEF store
  <2>2. PICK f : CallBecomes(c, "removeAll", call[c].result, ks, f)
    BY <1>1, <1>2, <1>5, Gathered, GatheredKeys
  <2> QED BY <1>3, <2>1, <2>2
<1>6. PICK k : /\ k = CHOOSE m \in call[c].keys : \A l \in call[c].keys : Rank(m) <= Rank(l)
               /\ \/ /\ Alive(c) /\ Store([objects EXCEPT ![k] = None])
                     /\ call' = [call EXCEPT ![c].keys = @ \ {k}]
                     /\ dropped' = dropped \cup OnDemand(c, k)
                  \/ /\ call' = [call EXCEPT ![c].failed = TRUE, ![c].keys = @ \ {k}]
                     /\ UNCHANGED <<store, dropped>>
                  \/ /\ call' = [call EXCEPT ![c].keys = {}]
                     /\ UNCHANGED <<store, dropped>>
  BY DEF RemoveNext
<1>7. Job(c).op = "rename" => k \in call[c].keys
  <2>1. ASSUME Job(c).op = "rename" PROVE k \in call[c].keys
    <3>1. call[c].keys \in SUBSET Keys
      BY <1>1, <2>1 DEF MovesOK, Under
    <3>2. \E m \in call[c].keys : \A l \in call[c].keys : Rank(m) <= Rank(l)
      BY <1>1, <3>1, LeastRank
    <3> QED BY <1>6, <3>2, Zenon
  <2> QED BY <2>1
<1>8. call[c].keys \ {k} \in SUBSET call[c].keys /\ {} \in SUBSET call[c].keys
  OBVIOUS
<1>9. CASE /\ Alive(c) /\ Store([objects EXCEPT ![k] = None])
           /\ call' = [call EXCEPT ![c].keys = @ \ {k}]
           /\ dropped' = dropped \cup OnDemand(c, k)
  BY <1>4, <1>7, <1>9
<1>10. CASE UNCHANGED <<store, dropped>> /\
            \/ call' = [call EXCEPT ![c].failed = TRUE, ![c].keys = @ \ {k}]
            \/ call' = [call EXCEPT ![c].keys = {}]
  <2>1. CASE call' = [call EXCEPT ![c].failed = TRUE, ![c].keys = call[c].keys \ {k}]
    BY <1>5, <1>8, <1>10, <2>1
  <2>2. CASE call' = [call EXCEPT ![c].keys = {}]
    BY <1>5, <1>8, <1>10, <2>2
  <2>3. (call' = [call EXCEPT ![c].failed = TRUE, ![c].keys = @ \ {k}])
        => (call' = [call EXCEPT ![c].failed = TRUE, ![c].keys = call[c].keys \ {k}])
    BY <1>2 DEF Calls
  <2> QED BY <1>10, <2>1, <2>2, <2>3
<1> QED BY <1>6, <1>9, <1>10

\* Operations that move nothing: they read, or return.
LEMMA ReadAfter ==
    ASSUME NEW c \in Callers, Before(c),
           \/ RemovedAll(c) \/ Stat(c) \/ Exist(c) \/ Download(c) \/ ListAllObjects(c)
           \/ GetObject(c) \/ FGetObject(c)
    PROVE  After(c)
<1>1. UNCHANGED <<objects, dropped>> /\ AllKept /\ Types /\ MovesOK(c) /\ ListedOK(c)
  BY DEF RemovedAll, Stat, Exist, Download, ListAllObjects, GetObject, FGetObject, Before,
         LostOK, store
<1>2. Fate BY <1>1, FateOfNothing
<1>3. Calls BY <1>1 DEF Types
<1>4. CASE \E r : Return(c, r)
  BY <1>2, <1>4, ReturnAfter
<1>5. ASSUME NEW at, NEW r, NEW ks, NEW f, CallBecomes(c, at, r, ks, f), MovesOK(c)',
             at \notin {"remove", "copyAll", "collect", "removeAll"}
      PROVE  After(c)
  <2>1. Copied(c)' BY <1>5 DEF CallBecomes, Copied
  <2> QED BY <1>2, <1>5, <2>1 DEF After
<1>6. CASE call[c].at = "stat" /\ Goto(c, "list")
  <2>1. CallBecomes(c, "list", call[c].result, call[c].keys, call[c].failed)
    BY <1>3, <1>6, Gone
  <2>2. Job(c).op = "exist"
    BY <1>1, <1>6 DEF ListedOK, Places
  <2>3. MovesOK(c)'
    BY <1>1, <1>6, <2>1, <2>2 DEF CallBecomes, MovesOK, Job
  <2> QED BY <1>5, <2>1, <2>3
<1>7. CASE call[c].at = "get" /\ Goto(c, "read")
  <2>1. CallBecomes(c, "read", call[c].result, call[c].keys, call[c].failed)
    BY <1>3, <1>7, Gone
  <2>2. MovesOK(c)'
    BY <2>1 DEF CallBecomes, MovesOK
  <2> QED BY <1>5, <2>1, <2>2
<1>8. CASE /\ call[c].at \in {"download", "listAll"}
           /\ \/ UNCHANGED call
              \/ \E ks : call' = [call EXCEPT ![c].keys = ks]
              \/ \E ks, f : call' = [call EXCEPT ![c].failed = f, ![c].keys = ks]
  <2>1. PICK ks, f : CallBecomes(c, call[c].at, call[c].result, ks, f)
    BY <1>1, <1>3, <1>8, CallStays, Gathered, GatheredKeys
  <2>2. MovesOK(c)'
    BY <1>1, <1>8, <2>1, MovesStay
  <2> QED BY <1>5, <1>8, <2>1, <2>2
<1>9. ASSUME Download(c) PROVE After(c)
  <2>1. CASE call' = [call EXCEPT ![c].keys = @ \cup {Item(c)}]
    <3>1. call' = [call EXCEPT ![c].keys = call[c].keys \cup {Item(c)}]
      BY <1>3, <2>1 DEF Calls
    <3> QED BY <1>8, <1>9, <3>1 DEF Download
  <2> QED BY <1>4, <1>8, <1>9, <2>1 DEF Download
<1>10. ASSUME ListAllObjects(c) PROVE After(c)
  <2>1. CASE call' = [call EXCEPT ![c].failed = @ \/ Item(c) = Failed,
                                  ![c].keys = @ \cup ({Item(c)} \ {Failed})]
    <3>1. call' = [call EXCEPT ![c].failed = call[c].failed \/ Item(c) = Failed,
                               ![c].keys = call[c].keys \cup ({Item(c)} \ {Failed})]
      BY <1>3, <2>1 DEF Calls
    <3> QED BY <1>8, <1>10, <3>1 DEF ListAllObjects
  <2> QED BY <1>4, <1>10, <2>1 DEF ListAllObjects
<1> QED BY <1>4, <1>6, <1>7, <1>9, <1>10 DEF RemovedAll, Stat, Exist, GetObject, FGetObject
\* An upload replaces an object with something new, all of it.
LEMMA UploadFate ==
    ASSUME NEW c \in Callers, Before(c), Uploads(c)
    PROVE  Fate
<1>1. call[c].at = "put" /\ Types /\ AllKept
  BY DEF Uploads, PutObject, FPutObject, CreateDirectory, FPutDirectory, Before
<1>2. Job(c) \in Requests /\ Job(c).op \in {"put", "fput", "mkdir", "upload"} /\ call[c].start
  BY <1>1 DEF Before, LostOK, MovesOK
<1>3. Job(c).src \in Keys /\ Content(c) \in Contents
  BY <1>2, MoveFacts DEF Content
<1>4. CASE UNCHANGED <<store, dropped>>
  BY <1>1, <1>4, FateOfNothing DEF store
<1>5. CASE /\ Store([objects EXCEPT ![Job(c).src] = Content(c)])
           /\ dropped' = dropped \cup (Overwritten(Job(c).src) \ {Content(c)})
  <2>1. Content(c) # Torn
    BY <1>3, ObsAssumption
  <2>2. Stored[Job(c).src] \in Range(Stored)
    <3>1. Job(c).src \in DOMAIN Stored
      BY <1>3, ObsAssumption
    <3> QED BY <3>1 DEF Range
  <2>3. Content(c) # Stored[Job(c).src]
    BY <1>3, <2>2, ObsAssumption
  <2>4. Content(c) = objects[Job(c).src] \/ objects[Job(c).src] \in {None} \cup dropped'
    BY <1>5 DEF Overwritten
  <2> QED BY <1>1, <1>5, <2>1, <2>3, <2>4, FateOfWrite
<1> QED BY <1>4, <1>5
        DEF Uploads, PutObject, FPutObject, CreateDirectory, FPutDirectory, Attempt

LEMMA UploadAfter ==
    ASSUME NEW c \in Callers, Before(c), Uploads(c) \/ Rewind(c)
    PROVE  After(c)
<1>1. Rewind(c) => Fate
  BY FateOfNothing DEF Rewind, Before, store
<1>2. MovesOK(c)' /\ Copied(c)'
  BY MovesUpload DEF Before, LostOK
<1> QED BY <1>1, <1>2, UploadFate DEF After

LEMMA BeginAfter ==
    ASSUME NEW c \in Callers, Before(c), Begin(c) \/ GiveUp(c)
    PROVE  After(c)
<1>1. Fate
  BY Zenon, FateOfNothing DEF Begin, GiveUp, Before, store
<1>2. MovesOK(c)' /\ Copied(c)'
  <2>1. Types /\ MovesOK(c) /\ ListedOK(c)
    BY DEF Before, LostOK
  <2>2. CASE Begin(c)
    BY <2>1, <2>2, MovesBegin
  <2>3. CASE GiveUp(c)
    BY <2>1, <2>3, MovesGiveUp DEF Before, LostOK
  <2> QED BY <2>2, <2>3
<1> QED BY <1>1, <1>2 DEF After

\* A listing passes nothing by that a rename has to copy.
LEMMA ListsAfter ==
    ASSUME NEW c \in Callers, Before(c), Lists(c)
    PROVE  After(c)
<1>1. UNCHANGED <<store, call, dropped>> /\ Types
  BY ListNextFields, ListSendFields DEF Lists, Before
<1>2. Fate
  BY <1>1, FateOfNothing DEF Before, store
<1>3. MovesOK(c)'
  BY <1>1 DEF Before, LostOK, MovesOK, Job
<1>4. \A k : (Intact(k)' <=> Intact(k)) /\ (Safe(k)' <=> Safe(k))
  BY <1>1 DEF Intact, Safe, store
<1>5. ASSUME Alive(c), call[c].at = "copyAll", NEW k \in Under(Job(c).src), Intact(k),
             Pending(c, k)
      PROVE  Pending(c, k)'
  <2>1. lister[c].dir = Job(c).src /\ ~lister[c].cancelled
    BY <1>5 DEF Before, ListedOK, Reading, Reads
  <2> QED BY <1>1, <1>5, <2>1, PendingLasts DEF Lists, Intact
<1>6. Copied(c)'
  <2>1. Job(c)' = Job(c) /\ (Alive(c)' <=> Alive(c)) /\ call' = call
    BY <1>1 DEF Job, Alive
  <2>2. Intact(Job(c).src)' <=> Intact(Job(c).src)
    BY <1>1 DEF Intact, Job, store
  <2>3. Safe(Job(c).src)' <=> Safe(Job(c).src)
    BY <1>1 DEF Safe, Job, store
  <2> QED BY <1>4, <1>5, <2>1, <2>2, <2>3 DEF Before, LostOK, Copied
<1> QED BY <1>2, <1>3, <1>6 DEF After

LEMMA StepAfter ==
    ASSUME Apart, NEW c \in Callers, Before(c), Begin(c) \/ GiveUp(c) \/ Goes(c) \/ Lists(c)
    PROVE  After(c)
BY RenameOneAfter, RemoveOneAfter, StartListingAfter, RenameItemAfter, RenameDeleteAfter,
   CollectAfter, RemoveNextAfter, ReadAfter, UploadAfter, BeginAfter, ListsAfter
DEF Goes, Uploads

----------------------------------------------------------------------------
LEMMA LostInit == Init => LostInv
<1> SUFFICES ASSUME Init PROVE LostInv
  OBVIOUS
<1>1. ASSUME NEW c \in Callers PROVE LostOK(c)
  <2>1. call[c].at = "idle" /\ call[c].start = TRUE /\ Job(c).op = "none"
    BY DEF Init, NoCall, Job
  <2>2. lister[c].at = "none" /\ lister[c].buf = <<>>
    BY DEF Init, NoLister
  <2> QED BY <2>1, <2>2 DEF LostOK, MovesOK, Brings, Copied
<1>2. ASSUME NEW k \in Keys PROVE Kept(k)
  <2>1. k \in DOMAIN Stored /\ objects[k] = Stored[k]
    BY ObsAssumption DEF Init
  <2>2. Stored[k] \in Range(Stored)
    BY <2>1 DEF Range
  <2> QED BY <2>1, <2>2, ObsAssumption DEF Kept
<1> QED BY <1>1, <1>2 DEF LostInv

LEMMA LostStep ==
    ASSUME Apart, ListedInv, LostInv, [Next]_vars
    PROVE  LostInv'
<1>1. AllKept BY DEF LostInv, AllKept
<1>2. ASSUME NEW c \in Callers, Begin(c) \/ GiveUp(c) \/ Goes(c) \/ Lists(c)
      PROVE  LostInv'
  <2>1. Before(c)
    BY <1>1 DEF Before, ListedInv, LostInv
  <2>2. After(c)
    BY <1>2, <2>1, StepAfter
  <2>3. Brings(c)'
    <3>1. Begin(c) \/ GiveUp(c) => UNCHANGED lister
      BY Zenon DEF Begin, GiveUp
    <3> QED BY Zenon, <1>2, <2>1, <3>1, BringsStep DEF Before, LostOK
  <2>4. Others(c)
    BY <1>2, BeginStep, GiveUpStep, GoesStep, ListsStep DEF ListedInv
  <2>5. \A d \in Callers \ {c} : LostOK(d)'
    BY <2>2, <2>4, OthersCopied DEF After, Others, LostInv
  <2>6. AllKept'
    BY <1>1, <2>2, KeptLasts DEF After
  <2> QED BY <2>2, <2>3, <2>5, <2>6 DEF After, LostOK, LostInv, AllKept
<1>3. CASE UNCHANGED <<objects, dropped, call, lister>>
  <2>1. Fate BY <1>1, <1>3, FateOfNothing
  <2>2. \A d \in Callers : LostOK(d)'
    BY <1>3, <2>1, OthersCopied DEF LostInv
  <2>3. AllKept' BY <1>1, <2>1, KeptLasts
  <2> QED BY <2>2, <2>3 DEF LostInv, AllKept
<1>4. ASSUME NEW n \in Names, RemoveClient(n) \/ \E e \in Endpoints : RegisterClient(n, e)
      PROVE  LostInv'
  BY <1>3, <1>4 DEF RegisterClient, RemoveClient, store
<1>5. CASE Close \/ UNCHANGED vars
  BY <1>3, <1>5 DEF Close, vars, store
<1> QED BY <1>2, <1>4, <1>5 DEF Next

\* Where no job moves an object into what a rename removes, RenameObject and the
\* other operations (obs.go:268-292, 539-694) lose no object however they fail,
\* are cancelled and interleave: each content of the beginning is in the bucket,
\* or was overwritten or deleted on demand, and none lacks its beginning.  What a
\* rename deletes elsewhere than it copied from (obs.go:639-665) counts as deleted
\* on demand; nothing is claimed of it.
THEOREM NoObjectIsLost == ASSUME Apart PROVE Spec => []NothingLost
<1>1. LostInv => NothingLost
  <2> SUFFICES ASSUME LostInv, NEW k \in Keys
               PROVE  /\ Stored[k] \in {None} \cup dropped \/ Has(Stored[k]) \/ IsDir(k)
                      /\ objects[k] # Torn
    BY DEF NothingLost
  <2>1. Kept(k) BY DEF LostInv
  <2> QED BY <2>1 DEF Kept, Safe, Has
<1>2. ListedInv /\ LostInv /\ [Next]_vars => LostInv'
  BY LostStep
<1> QED BY <1>1, <1>2, LostInit, ListedInductive, PTL DEF Spec
=============================================================================
