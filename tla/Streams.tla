------------------------------ MODULE Streams ------------------------------
(***************************************************************************)
(* A pipeline of src/streams: a source, stages of goroutines joined by     *)
(* channels, and the terminal operation the caller waits in.               *)
(*                                                                         *)
(* Channel i lies between stage i and stage i+1; stage 0 is the source,    *)
(* the terminal operation reads the last channel.  An item offered on an   *)
(* unbuffered channel stays in the channel, and its sender in "wait",      *)
(* until somebody takes it.  What the caller's functions do depends on the *)
(* item: a filter keeps Kept, a function called with an item of Bad        *)
(* panics, and a predicate holds of Hit.                                   *)
(***************************************************************************)
EXTENDS Naturals, Sequences, FiniteSets, SequencesExt

CONSTANTS
    Items,     \* what the source delivers, in order
    Others,    \* what the stream given to Concat delivers
    Kept, Bad, Hit,
    Bound,     \* the argument of Limit and Skip
    Workers,   \* goroutines of a stage of a parallel stream (2 * NumCPU)
    Plans      \* pipelines: [source, stages, terminal, parallel]

Depth == 2     \* the most stages of a plan

VARIABLES
    plan,      \* the pipeline that runs
    chan,      \* items in channel i
    closed,    \* channel i is closed
    at,        \* where the goroutine of stage i is
    count,     \* items stage i has counted
    seen,      \* items stage i has met
    held,      \* the item the coordinator of a Walk has taken
    worker,    \* the goroutines a Walk may start, one per place in pool
    term,      \* the terminal operation: reading, returned or stuck
    result,    \* what it has received
    clearing   \* the goroutine that runs clear: none, running or ended

vars == <<plan, chan, closed, at, count, seen, held, worker, term, result, clearing>>

\* Mutant of Places: a sequential stream may use several goroutines too.
PlacesUnlimited(i) == 1..Workers

Height == Len(plan.stages)
Kind(i) == plan.stages[i]
Stages == 1..Height
Spawning(i) == Kind(i) \in {"walk", "forEach"}
Places(i) == IF plan.parallel THEN 1..Workers ELSE 1..1

\* The channels of Call, Concat, Limit, Skip and Distinct are unbuffered.
Buffered(i) == i > 0 /\ Kind(i) = "walk"
HasRoom(i) == Len(chan[i]) < (IF Buffered(i) THEN Cardinality(Places(i)) ELSE 1)

Idle == [item |-> 0, at |-> "idle"]

\* Of fills its channel and closes it, Call starts a goroutine.
Init ==
    /\ plan \in Plans
    /\ LET of == plan.source = "of" IN
       /\ chan = [i \in 0..Depth |-> IF i = 0 /\ of THEN Items ELSE <<>>]
       /\ closed = [i \in 0..Depth |-> i = 0 /\ of]
       /\ at = [i \in 0..Depth |-> IF i > Len(plan.stages) \/ (i = 0 /\ of) THEN "ended" ELSE "read"]
    /\ count = [i \in 0..Depth |-> 0]
    /\ seen = [i \in 0..Depth |-> <<>>]
    /\ held = [i \in 0..Depth |-> 0]
    /\ worker = [i \in 0..Depth |-> [k \in 1..Workers |-> Idle]]
    /\ term = "reading" /\ result = <<>> /\ clearing = "none"

----------------------------------------------------------------------------
(***************************************************************************)
(* Channels.                                                               *)
(***************************************************************************)
Ready(i) == chan[i] # <<>>
Drained(i) == closed[i] /\ chan[i] = <<>>
Take(i) == chan' = [chan EXCEPT ![i] = Tail(@)]
Pass(i, x) == chan' = [chan EXCEPT ![i - 1] = Tail(@), ![i] = Append(@, x)]
Goto(i, l) == at' = [at EXCEPT ![i] = l]
Shut(i) == closed' = [closed EXCEPT ![i] = TRUE] /\ Goto(i, "ended")

workers == <<held, worker>>
caller == <<term, result, clearing>>

\* The receiver has taken the item a goroutine was sending.
Sent(i) ==
    /\ at[i] = "wait" /\ chan[i] = <<>>
    /\ Goto(i, "read")
    /\ UNCHANGED <<plan, chan, closed, count, seen, workers, caller>>

\* The goroutine of Call sends the items and closes the channel.
Produce ==
    /\ at[0] = "read"
    /\ IF count[0] < Len(Items)
       THEN /\ chan' = [chan EXCEPT ![0] = <<Items[count[0] + 1]>>]
            /\ count' = [count EXCEPT ![0] = @ + 1]
            /\ Goto(0, "wait") /\ UNCHANGED closed
       ELSE Shut(0) /\ UNCHANGED <<chan, count>>
    /\ UNCHANGED <<plan, seen, workers, caller>>

----------------------------------------------------------------------------
(***************************************************************************)
(* The stages that are one goroutine.                                      *)
(***************************************************************************)

\* range ends.
StageEnds(i) ==
    /\ Kind(i) \in {"limit", "skip", "distinct"}
    /\ at[i] = "read" /\ Drained(i - 1)
    /\ Shut(i)
    /\ UNCHANGED <<plan, chan, count, seen, workers, caller>>

\* Limit reads one item more than it passes on, and breaks.
Limit(i) ==
    /\ Kind(i) = "limit" /\ at[i] = "read" /\ Ready(i - 1)
    /\ IF count[i] < Bound
       THEN /\ Pass(i, Head(chan[i - 1])) /\ Goto(i, "wait") /\ UNCHANGED closed
            /\ count' = [count EXCEPT ![i] = @ + 1]
       ELSE Take(i - 1) /\ Shut(i) /\ UNCHANGED count
    /\ UNCHANGED <<plan, seen, workers, caller>>

Skip(i) ==
    /\ Kind(i) = "skip" /\ at[i] = "read" /\ Ready(i - 1)
    /\ IF count[i] < Bound
       THEN Take(i - 1) /\ UNCHANGED at /\ count' = [count EXCEPT ![i] = @ + 1]
       ELSE Pass(i, Head(chan[i - 1])) /\ Goto(i, "wait") /\ UNCHANGED count
    /\ UNCHANGED <<plan, closed, seen, workers, caller>>

\* The panic of a caller's function ends the goroutine of Distinct, whose
\* deferred close runs; GoSafe recovers.
Distinct(i) ==
    /\ Kind(i) = "distinct" /\ at[i] = "read" /\ Ready(i - 1)
    /\ LET x == Head(chan[i - 1]) IN
       IF x \in Bad THEN Take(i - 1) /\ Shut(i) /\ UNCHANGED seen
       ELSE /\ UNCHANGED closed
            /\ IF Contains(seen[i], x)
               THEN Take(i - 1) /\ UNCHANGED <<at, seen>>
               ELSE /\ Pass(i, x) /\ Goto(i, "wait")
                    /\ seen' = [seen EXCEPT ![i] = Append(@, x)]
    /\ UNCHANGED <<plan, count, workers, caller>>

\* Concat passes on its own items, then those of the other stream.
Concat(i) ==
    /\ Kind(i) = "concat" /\ at[i] = "read"
    /\ \/ /\ Ready(i - 1)
          /\ Pass(i, Head(chan[i - 1])) /\ Goto(i, "wait") /\ UNCHANGED <<closed, count>>
       \/ /\ Drained(i - 1) /\ count[i] < Len(Others)
          /\ chan' = [chan EXCEPT ![i] = <<Others[count[i] + 1]>>]
          /\ count' = [count EXCEPT ![i] = @ + 1]
          /\ Goto(i, "wait") /\ UNCHANGED closed
       \/ /\ Drained(i - 1) /\ count[i] = Len(Others)
          /\ Shut(i) /\ UNCHANGED <<chan, count>>
    /\ UNCHANGED <<plan, seen, workers, caller>>

\* Reverse (Sorted, Map and FlatMap alike) reads everything, in the caller,
\* and makes a stream of it with Of.
Collected(i) ==
    /\ Kind(i) = "reverse" /\ at[i] = "read" /\ Ready(i - 1)
    /\ seen' = [seen EXCEPT ![i] = Append(@, Head(chan[i - 1]))]
    /\ Take(i - 1)
    /\ UNCHANGED <<plan, closed, at, count, workers, caller>>

ReverseEnds(i) ==
    /\ Kind(i) = "reverse" /\ at[i] = "read" /\ Drained(i - 1)
    /\ chan' = [chan EXCEPT ![i] = Reverse(seen[i])]
    /\ Shut(i)
    /\ UNCHANGED <<plan, count, seen, workers, caller>>

OneGoroutine(i) ==
    Sent(i) \/ StageEnds(i) \/ Limit(i) \/ Skip(i) \/ Distinct(i) \/ Concat(i)
    \/ Collected(i) \/ ReverseEnds(i)

----------------------------------------------------------------------------
(***************************************************************************)
(* walkLimited (Walk, Filter, Peek) and ForEach: a coordinator that starts *)
(* a goroutine per item, at most as many as pool has places.               *)
(***************************************************************************)
WalkTake(i) ==
    /\ Spawning(i) /\ at[i] = "read" /\ Ready(i - 1)
    /\ held' = [held EXCEPT ![i] = Head(chan[i - 1])]
    /\ Take(i - 1) /\ Goto(i, "spawn")
    /\ UNCHANGED <<plan, closed, count, seen, worker, caller>>

\* pool <- struct{}{} and GoSafe.
WalkSpawn(i, k) ==
    /\ at[i] = "spawn" /\ worker[i][k].at = "idle"
    /\ worker' = [worker EXCEPT ![i][k] = [item |-> held[i], at |-> "run"]]
    /\ Goto(i, "read")
    /\ UNCHANGED <<plan, chan, closed, count, seen, held, caller>>

\* The caller's function: it keeps the item, drops it, or panics.
WorkerRun(i, k) ==
    LET x == worker[i][k].item
        keeps == x \notin Bad /\ (Kind(i) = "forEach" \/ x \in Kept) IN
    /\ worker[i][k].at = "run"
    /\ worker' = [worker EXCEPT ![i][k].at = "done"]
    /\ CASE keeps /\ Kind(i) = "walk" ->
              HasRoom(i) /\ chan' = [chan EXCEPT ![i] = Append(@, x)] /\ UNCHANGED result
         [] keeps /\ Kind(i) = "forEach" -> result' = Append(result, x) /\ UNCHANGED chan
         [] OTHER -> UNCHANGED <<chan, result>>
    /\ UNCHANGED <<plan, closed, at, count, seen, held, term, clearing>>

\* After wg.Done: <-pool.
WorkerLeave(i, k) ==
    /\ worker[i][k].at = "done"
    /\ worker' = [worker EXCEPT ![i][k] = Idle]
    /\ UNCHANGED <<plan, chan, closed, at, count, seen, held, caller>>

\* wg.Wait and close(pipe); ForEach returns to its caller instead.
WalkEnds(i) ==
    /\ Spawning(i) /\ at[i] = "read" /\ Drained(i - 1)
    /\ \A k \in Places(i) : worker[i][k].at # "run"
    /\ Shut(i)
    /\ term' = IF Kind(i) = "forEach" THEN "returned" ELSE term
    /\ UNCHANGED <<plan, chan, count, seen, workers, result, clearing>>

Walk(i) ==
    \/ WalkTake(i) \/ WalkEnds(i)
    \/ \E k \in Places(i) : WalkSpawn(i, k) \/ WorkerRun(i, k) \/ WorkerLeave(i, k)

----------------------------------------------------------------------------
(***************************************************************************)
(* Terminal operations.                                                    *)
(***************************************************************************)
Reading == term = "reading" /\ plan.terminal # "none"

\* ToSlice, Collect, Count, Max and Reduce read everything.
ReadAll ==
    /\ Reading /\ plan.terminal = "slice" /\ Ready(Height)
    /\ result' = Append(result, Head(chan[Height]))
    /\ Take(Height)
    /\ UNCHANGED <<plan, closed, at, count, seen, workers, term, clearing>>

ReadEnds ==
    /\ Reading /\ Drained(Height)
    /\ term' = "returned"
    /\ UNCHANGED <<plan, chan, closed, at, count, seen, workers, result, clearing>>

\* Mutant of FindFirst: the rest of the stream is left where it is.
FindFirstLeaves ==
    /\ Reading /\ plan.terminal = "first" /\ Ready(Height)
    /\ result' = <<Head(chan[Height])>>
    /\ Take(Height)
    /\ term' = "returned" /\ UNCHANGED clearing
    /\ UNCHANGED <<plan, closed, at, count, seen, workers>>

\* FindFirst takes an item and leaves the rest to clear.
FindFirst ==
    /\ Reading /\ plan.terminal = "first" /\ Ready(Height)
    /\ result' = <<Head(chan[Height])>>
    /\ Take(Height)
    /\ term' = "returned" /\ clearing' = "running"
    /\ UNCHANGED <<plan, closed, at, count, seen, workers>>

\* The goroutine of AnyMatch (AllMatch, NoneMatch) tests items until one
\* decides; if the predicate panics, nobody sends on flag.
Match ==
    /\ Reading /\ plan.terminal = "match" /\ Ready(Height)
    /\ LET x == Head(chan[Height]) IN
       /\ term' = IF x \in Bad THEN "stuck" ELSE IF x \in Hit THEN "returned" ELSE term
       /\ clearing' = IF x \in Hit \ Bad THEN "running" ELSE clearing
       /\ result' = Append(result, x)
    /\ Take(Height)
    /\ UNCHANGED <<plan, closed, at, count, seen, workers>>

Clear ==
    /\ clearing = "running"
    /\ \/ Ready(Height) /\ Take(Height) /\ UNCHANGED clearing
       \/ Drained(Height) /\ clearing' = "ended" /\ UNCHANGED chan
    /\ UNCHANGED <<plan, closed, at, count, seen, workers, term, result>>

Terminal == ReadAll \/ ReadEnds \/ FindFirst \/ Match

----------------------------------------------------------------------------
Next == Produce \/ Sent(0) \/ Terminal \/ Clear \/ \E i \in Stages : OneGoroutine(i) \/ Walk(i)

Spec == Init /\ [][Next]_vars

----------------------------------------------------------------------------
(***************************************************************************)
(* Properties.                                                             *)
(***************************************************************************)

\* What a stage makes of the items s, as its documentation says.
UpTo(s, n) == SubSeq(s, 1, IF n < Len(s) THEN n ELSE Len(s))
FirstBad(s) == SelectInSeq(s, LAMBDA x : x \in Bad)
Unique(s) ==
    LET first == {k \in DOMAIN s : \A j \in 1..k - 1 : s[j] # s[k]}
        kth[n \in Nat] == CHOOSE k \in first : Cardinality({j \in first : j < k}) = n
    IN  [n \in 1..Cardinality(first) |-> s[kth[n - 1]]]
Effect(kind, s) ==
    CASE kind = "walk"     -> SelectSeq(s, LAMBDA x : x \in Kept \ Bad)
      [] kind = "forEach"  -> SelectSeq(s, LAMBDA x : x \notin Bad)
      [] kind = "limit"    -> UpTo(s, Bound)
      [] kind = "skip"     -> SubSeq(s, Bound + 1, Len(s))
      [] kind = "distinct" -> Unique(IF FirstBad(s) = 0 THEN s ELSE UpTo(s, FirstBad(s) - 1))
      [] kind = "concat"   -> s \o Others
      [] kind = "reverse"  -> Reverse(s)

Meaning ==
    LET after[i \in 0..Height] == IF i = 0 THEN Items ELSE Effect(Kind(i), after[i - 1])
    IN  after[Height]

Occurrences(s, x) == Cardinality({k \in DOMAIN s : s[k] = x})
SameItems(s, t) == \A x \in Range(s) \cup Range(t) : Occurrences(s, x) = Occurrences(t, x)

\* Stages whose result does not depend on the order of their items.
Unordered == \A i \in Stages : Kind(i) \in {"walk", "forEach", "concat", "reverse"}

\* The result is the one the stages stand for: the same items in the same
\* order in a sequential stream, although every item of a Walk has a
\* goroutine of its own, and the same items when a parallel stream returns
\* (wg.Wait comes before close(pipe)).
ResultIsRight ==
    /\ ~plan.parallel => IsPrefix(result, Meaning)
    /\ term = "returned" =>
         CASE plan.terminal \in {"slice", "none"} ->
                (IF plan.parallel THEN Unordered => SameItems(result, Meaning)
                 ELSE result = Meaning)
           [] plan.terminal = "first" -> ~plan.parallel => (result = <<>> <=> Meaning = <<>>)
           [] plan.terminal = "match" -> 
                ~plan.parallel /\ (\A x \in Range(Meaning) : x \notin Hit) => result = Meaning

\* Stage i has stopped reading for good although its upstream may go on.
Quits(i) ==
    IF i > Height THEN term = "stuck"
    ELSE at[i] = "ended" /\ (Kind(i) = "limit" \/ (Kind(i) = "distinct" /\ Range(Items) \cap Bad # {}))

\* Goroutines go on until none of them can: every step takes an item, starts
\* or ends a goroutine or closes a channel, so that is what every run comes to.
Quiet == ~ENABLED Next

\* Then the caller has its answer, unless a predicate panicked: AnyMatch then
\* waits for ever for a flag nobody sends.  And no goroutine of the pipeline
\* stays behind, blocked on a channel nobody reads or writes: FindFirst and the
\* matchers drain the rest.  Below Limit, which breaks without draining, and
\* below a stage that a panic ended, the goroutines do stay; that is what
\* Quits allows.
GoroutinesEnd ==
    Quiet =>
        /\ term # "reading"
        /\ \A i \in 0..Depth : at[i] = "ended" \/ \E j \in i + 1..Height + 1 : Quits(j)
=============================================================================
