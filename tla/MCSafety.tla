------------------------------ MODULE MCSafety ------------------------------
(***************************************************************************)
(* Instances for TLC of the parts that need no fairness: what becomes of   *)
(* messages and values on their way through the consumers of a Kafka group *)
(* (KafkaConsume), the bodies and queues of RabbitMQ (RmqBodies), the      *)
(* stages of a stream (Streams, every pipeline of up to two stages) and a  *)
(* pattern of jodatime (JodaTime), the databases services create when they *)
(* start and the requests they make to Elasticsearch (Services), and the   *)
(* searches built for it (EsSearch).                                       *)
(* They share no state, so a behaviour is one of a single part; the others *)
(* stay as they began, and RmqBodies, Streams, JodaTime and EsSearch keep  *)
(* their state in the same variables, s1 to s12.                           *)
(***************************************************************************)
EXTENDS KafkaConsume, Services, Integers, TLC

CONSTANTS
    Parts,
    Queues, MaxCalls   \* RmqBodies

VARIABLES part, s1, s2, s3, s4, s5, s6, s7, s8, s9, s10, s11, s12

shared == <<s1, s2, s3, s4, s5, s6, s7, s8, s9, s10, s11, s12>>

Bodies == INSTANCE RmqBodies WITH
    ArgNames <- {"x-max-length", "x-message-ttl"}, MaxUses <- 2,
    body <- s1, asked <- s2, exchanges <- s3, queues <- s4, bindings <- s5, deadKey <- s6,
    waiting <- s7, wanted <- s8, bound <- s9, sent <- s10, calls <- s11, uses <- s12

StageKinds == {"walk", "limit", "skip", "distinct", "concat", "reverse"}
Chains == {<<>>} \cup [1..1 -> StageKinds] \cup [1..2 -> StageKinds]
ForEachChains == {Append(s, "forEach") : s \in {c \in Chains : Len(c) < 2}}
Pipelines ==
    [source : {"of", "call"}, parallel : BOOLEAN, stages : Chains,
     terminal : {"slice", "first", "match"}]
    \cup
    [source : {"of", "call"}, parallel : BOOLEAN, stages : ForEachChains, terminal : {"none"}]

Stream == INSTANCE Streams WITH
    Items <- <<1, 2, 3, 1>>, Others <- <<2>>, Kept <- {1, 3}, Bad <- {3}, Hit <- {2},
    Bound <- 1, Workers <- 2, Plans <- Pipelines,
    plan <- s1, chan <- s2, closed <- s3, at <- s4, count <- s5, seen <- s6, held <- s7,
    worker <- s8, term <- s9, result <- s10, clearing <- s11

Patterns ==
    {"yyyy-MM-dd HH:mm:ss.SSS", "yyyyMMddHHmmss", "yy/M/d h:m:s a", "EEE, dd MMM yyyy hh:mm a Z",
     "EEEE d MMMM y ZZ", "YYYY-MM-dd'T'HH:mm:ss.SSSZZ", "x.M.d. H 'o''clock'", "dd.MM.yy HH.mm",
     "d 'at' h a", "ss.S", "ss,SS", "MMM d", "hh:mma", "''yy", "'abc", "aa",
     "yyyy_d", "HH.mm.ss.dd", "HHmmssSSS", "Ms", "dH", "'5'd", "D DD w ww", "e ee E",
     "k kk K KK", "z ZZZ G C", "MMMMM", "ddd yyyyy SSSS ZZZZ EEEEE"}

\* A leap day just after midnight, the last second of a year west of
\* Greenwich, noon, and a morning at an offset of a quarter of an hour.
DateOf(y, m, d, yd, w, wd, h, mi, s, ms, off, z) ==
    [year |-> y, month |-> m, day |-> d, yearDay |-> yd, week |-> w, weekday |-> wd,
     hour |-> h, minute |-> mi, second |-> s, milli |-> ms, offset |-> off, zone |-> z, zoneID |-> z]
Dates ==
    {DateOf(2024, 2, 29, 60, 9, 4, 0, 5, 7, 7, 480, "HKT"),
     DateOf(1999, 12, 31, 365, 52, 5, 23, 59, 59, 999, -210, "NST"),
     DateOf(2068, 9, 1, 245, 35, 6, 12, 0, 10, 50, 0, "GMT"),
     DateOf(2005, 5, 11, 131, 19, 3, 11, 30, 0, 120, 345, "NPT")}

Joda == INSTANCE JodaTime WITH
    pattern <- s1, date <- s2, pos <- s3, out <- s4, layout <- s5, phase <- s6, rest <- s7,
    parsed <- s8, ok <- s9, seen <- s10

\* Databases of two servers.
TwoServers == {<<"s1", "d">>, <<"s1", "e">>, <<"s2", "d">>}

Search == INSTANCE EsSearch WITH
    MaxAsked <- 4, heap <- s1, query <- s2, lastErr <- s3, boolQ <- s4, search <- s5,
    searchErr <- s6, log <- s7, sent <- s8

Unused == "unused"

\* The parts begin, the services as simply as they can unless they run.
AllInit ==
    /\ part \in Parts
    /\ Init
    \* e1 runs in p1 for <<"s1", "d">>: the names stand for any others
    /\ process \in [EnsureCalls -> EnsureProcesses] /\ process["e1"] = "p1"
    /\ target \in [EnsureCalls -> EnsurePlaces] /\ target["e1"] = <<"s1", "d">>
    /\ part # "ensure" =>
         /\ process["e2"] = "p2" /\ target["e2"] = <<"s2", "d">>
         /\ dialect = Ensure!MySQL /\ schema = {} /\ databases = {}
    /\ part # "es" => docs = <<>>
    /\ Ensure!Init /\ Es!Init
    /\ \/ part = "bodies" /\ Bodies!Init
       \/ part = "stream" /\ Stream!Init /\ s12 = Unused
       \/ part = "joda" /\ Joda!Init /\ s11 = Unused /\ s12 = Unused
       \/ part = "search" /\ Search!Init
          /\ s9 = Unused /\ s10 = Unused /\ s11 = Unused /\ s12 = Unused
       \/ part \in {"kafka", "ensure", "es"}
          /\ s1 = Unused /\ s2 = Unused /\ s3 = Unused /\ s4 = Unused
          /\ s5 = Unused /\ s6 = Unused /\ s7 = Unused /\ s8 = Unused
          /\ s9 = Unused /\ s10 = Unused /\ s11 = Unused /\ s12 = Unused

\* The callers, the documents and, while there are none, the indices are alike:
\* the names in the first call stand for any others.
FirstCall(o) ==
    /\ o.name # "none"
    /\ docs = <<>> => o.index = "i1"
    /\ o.items # <<>> => o.items[1].doc = "d1"

\* So are the queues and the arguments of the bodies: of two that the first body
\* does not name, it names the first.
Named(asked) ==
    {asked.queue, asked.key} \cup DOMAIN asked.bindings \cup DOMAIN asked.args
        \cup UNION {asked.args[q] : q \in DOMAIN asked.args} \cup asked.own
FirstNames(asked, next) ==
    \A n \in {<<"q1", "q2">>, <<"x-max-length", "x-message-ttl">>} :
        n[1] \notin Named(asked) /\ n[2] \notin Named(asked) => n[2] \notin Named(next)

AllNext ==
    \/ /\ part = "kafka" /\ UNCHANGED <<part, shared, ensureVars, esVars>>
       /\ Next
    \/ /\ part = "ensure" /\ UNCHANGED <<part, shared, vars, esVars>>
       /\ Ensure!Next
    \/ /\ part = "es" /\ UNCHANGED <<part, shared, vars, ensureVars>>
       /\ Es!Next /\ (esCalls = 0 => FirstCall(op'["a1"]))
    \/ /\ part \in {"bodies", "stream", "joda", "search"}
       /\ UNCHANGED <<part, vars, ensureVars, esVars>>
       /\ \/ part = "bodies" /\ Bodies!Next /\ (s12 = 0 => FirstNames(s2, s2'))
          \/ part = "stream" /\ Stream!Next /\ UNCHANGED s12
          \/ part = "joda" /\ Joda!Next /\ UNCHANGED <<s11, s12>>
          \/ part = "search" /\ Search!Next /\ UNCHANGED <<s9, s10, s11, s12>>

AllSpec == AllInit /\ [][AllNext]_<<part, shared, vars, ensureVars, esVars>>

----------------------------------------------------------------------------
\* The properties of the other parts, each where its part runs.
BodiesArrive ==
    /\ [](part = "bodies" => Bodies!ArgumentsArrive)
    /\ [][part = "bodies" => Bodies!PushArrives]_shared
BindingsAreMade == Bodies!BindingsAreMade
PipelineEnds == part = "stream" => Stream!ResultIsRight /\ Stream!GoroutinesEnd
FormattedIsParsed == part = "joda" => Joda!FormattedIsParsed
SearchIsAsked == part = "search" => Search!SearchIsAsked
=============================================================================
