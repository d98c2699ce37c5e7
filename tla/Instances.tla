----------------------------- MODULE Instances -----------------------------
(***************************************************************************)
(* What the process keeps one of, found by a name: the database pools of   *)
(* src/gormx/db.go, the client, collections and repositories of src/mongo, *)
(* the jobs of src/cron, and the value of a bufferx.Once.  All are made on *)
(* demand by goroutines that may meet; what is made holds connections or   *)
(* runs until it is closed, so it must not get out of reach.               *)
(*                                                                         *)
(* The areas share nothing; a behaviour is one of a single area.           *)
(***************************************************************************)
EXTENDS Naturals

CONSTANTS
    Callers,
    Names,
    None,
    MaxMade      \* what may be made in a behaviour: things are numbered

\* The assumption on the constants.
InstanceParameters == None \notin Nat \cup Callers /\ Names # {} /\ MaxMade \in Nat

VARIABLES
    area,        \* "gormx", "mongo", "cron" or "once"
    kept,        \* dbMap, collections and repositories, jobMap: name -> thing
    live,        \* things that are open, connected or scheduled
    made,        \* how many things have been made
    holder,      \* operatorMu of mongo, m of a Once
    operator,    \* the client of mongo, the value of a Once (or None)
    done,        \* done of a Once
    at, name, mine,   \* of each caller: where it is, its name, what it has made
    replaced,    \* things that were overwritten while callers overlapped (history)
    stray,       \* pools that gorm opened and the code never gets hold of
    results      \* what callers of a Once or of a collection have got (history)

vars == <<area, kept, live, made, holder, operator, done, at, name, mine, replaced, stray, results>>
single == <<holder, operator, done>>
history == <<replaced, stray, results>>

Init ==
    /\ area \in {"gormx", "mongo", "cron", "once"}
    /\ kept = [n \in Names |-> None] /\ live = {} /\ made = 0
    /\ holder = None /\ operator = None /\ done = FALSE
    /\ at = [c \in Callers |-> "idle"]
    /\ name = [c \in Callers |-> CHOOSE n \in Names : TRUE]
    /\ mine = [c \in Callers |-> None]
    /\ replaced = {} /\ stray = {} /\ results = {}

Goto(c, l) == at' = [at EXCEPT ![c] = l]
Call(c, l) ==
    /\ at[c] = "idle" /\ Goto(c, l)
    /\ \E n \in Names : name' = [name EXCEPT ![c] = n]
    /\ UNCHANGED <<area, kept, live, made, single, mine, history>>
Make(c) ==
    /\ made < MaxMade
    /\ made' = made + 1 /\ mine' = [mine EXCEPT ![c] = made + 1]
Kept(c) == kept[name[c]]
Keep(c, t) == kept' = [kept EXCEPT ![name[c]] = t]

----------------------------------------------------------------------------
(***************************************************************************)
(* gormx                                                                   *)
(***************************************************************************)
InitConfig(c) == area = "gormx" /\ Call(c, "load")

\* A pool that is known is used; without a DSN or a dialect there is none.
InitLoad(c) ==
    /\ at[c] = "load"
    /\ \/ Goto(c, "idle")
       \/ Kept(c) = None /\ Goto(c, "open")
    /\ UNCHANGED <<area, kept, live, made, single, name, mine, history>>

\* gorm.Open leaves the pool open when it cannot ping the database.
InitOpen(c) ==
    /\ at[c] = "open"
    /\ \/ Goto(c, "idle") /\ UNCHANGED <<live, made, mine, stray>>
       \/ /\ Make(c) /\ live' = live \cup {made + 1}
          /\ \/ Goto(c, "resolver") /\ UNCHANGED stray
             \/ Goto(c, "idle") /\ stray' = stray \cup {made + 1}
    /\ UNCHANGED <<area, kept, single, name, replaced, results>>

\* dbresolver opens the pools of the sources and replicas (as one thing here), if
\* any are configured; when it fails at one of them InitConfig closes its own.
InitReplicas(c) ==
    /\ at[c] = "resolver"
    /\ \E opened \in {{}, {made + 1}} :
        /\ made' = IF opened = {} THEN made ELSE made + 1
        /\ made' <= MaxMade
        /\ stray' = stray \cup opened
        /\ \/ Goto(c, "store") /\ live' = live \cup opened
           \/ Goto(c, "idle") /\ live' = (live \ {mine[c]}) \cup opened
    /\ UNCHANGED <<area, kept, single, name, mine, replaced, results>>

InitStore(c) ==
    /\ at[c] = "store"
    /\ Keep(c, mine[c]) /\ replaced' = replaced \cup ({Kept(c)} \ {None})
    /\ Goto(c, "idle")
    /\ UNCHANGED <<area, live, made, single, name, mine, stray, results>>

\* Close takes the pool out of the map before it closes it; those of its sources
\* and replicas stay open.
Close(c) ==
    /\ area = "gormx" /\ at[c] = "idle"
    /\ \E n \in Names :
         /\ kept[n] # None
         /\ kept' = [kept EXCEPT ![n] = None] /\ mine' = [mine EXCEPT ![c] = kept[n]]
    /\ Goto(c, "close")
    /\ UNCHANGED <<area, live, made, single, name, history>>

Closed(c) ==
    /\ at[c] = "close"
    /\ live' = live \ {mine[c]} /\ Goto(c, "idle")
    /\ UNCHANGED <<area, kept, made, single, name, mine, history>>

----------------------------------------------------------------------------
(***************************************************************************)
(* mongo: InitMongoOperator under operatorMu, the collections without it.  *)
(***************************************************************************)
InitMongo(c) ==
    /\ area = "mongo" /\ at[c] = "idle" /\ holder = None
    /\ holder' = c /\ Goto(c, "connect")
    /\ UNCHANGED <<area, kept, live, made, operator, done, name, mine, history>>

Connect(c) ==
    /\ at[c] = "connect"
    /\ \/ /\ operator = None
          /\ Make(c) /\ live' = live \cup {made + 1}
          /\ Goto(c, "ping") /\ UNCHANGED holder
       \/ /\ holder' = None /\ Goto(c, "idle")    \* there is one, or it fails
          /\ UNCHANGED <<live, made, mine>>
    /\ UNCHANGED <<area, kept, operator, done, name, history>>

\* A client that does not answer is disconnected, so that the next call may try.
Ping(c) ==
    /\ at[c] = "ping"
    /\ \/ operator' = mine[c] /\ UNCHANGED live
       \/ live' = live \ {mine[c]} /\ UNCHANGED operator
    /\ holder' = None /\ Goto(c, "idle")
    /\ UNCHANGED <<area, kept, made, done, name, mine, history>>

\* GetCollection and GetRepository: GetOperator panics without a client.
GetCollection(c) == area = "mongo" /\ holder = None /\ operator # None /\ Call(c, "find")

Find(c) ==
    /\ at[c] = "find"
    /\ IF Kept(c) = None
       THEN Make(c) /\ Goto(c, "keep") /\ UNCHANGED results
       ELSE /\ results' = results \cup {<<name[c], Kept(c)>>}
            /\ Goto(c, "idle") /\ UNCHANGED <<made, mine>>
    /\ UNCHANGED <<area, kept, live, single, name, replaced, stray>>

KeepFound(c) ==
    /\ at[c] = "keep"
    /\ Keep(c, mine[c]) /\ results' = results \cup {<<name[c], mine[c]>>}
    /\ Goto(c, "idle")
    /\ UNCHANGED <<area, live, made, single, name, mine, replaced, stray>>

----------------------------------------------------------------------------
(***************************************************************************)
(* cron: a job is scheduled first and then stored under its name.          *)
(***************************************************************************)
RegisterJob(c) == area = "cron" /\ Call(c, "schedule")

AddJob(c) ==
    /\ at[c] = "schedule"
    /\ \/ Goto(c, "idle") /\ UNCHANGED <<live, made, mine>>      \* the spec is refused
       \/ Make(c) /\ live' = live \cup {made + 1} /\ Goto(c, "storeJob")
    /\ UNCHANGED <<area, kept, single, name, history>>

StoreJob(c) ==
    /\ at[c] = "storeJob"
    /\ Keep(c, mine[c]) /\ replaced' = replaced \cup ({Kept(c)} \ {None})
    /\ Goto(c, "idle")
    /\ UNCHANGED <<area, live, made, single, name, mine, stray, results>>

RemoveCronJob(c) ==
    /\ area = "cron" /\ at[c] = "idle"
    /\ \E n \in Names :
         /\ kept[n] # None
         /\ kept' = [kept EXCEPT ![n] = None] /\ mine' = [mine EXCEPT ![c] = kept[n]]
    /\ Goto(c, "close")
    /\ UNCHANGED <<area, live, made, single, name, history>>

----------------------------------------------------------------------------
(***************************************************************************)
(* bufferx.Once.  None is the value before f has returned, and for good    *)
(* after f has panicked.                                                   *)
(***************************************************************************)
Do(c) ==
    /\ area = "once" /\ at[c] = "idle"
    /\ IF done THEN results' = results \cup {operator} /\ UNCHANGED at
       ELSE Goto(c, "slow") /\ UNCHANGED results
    /\ UNCHANGED <<area, kept, live, made, single, name, mine, replaced, stray>>

Slow(c) ==
    /\ at[c] = "slow" /\ holder = None
    /\ \/ done /\ Goto(c, "got") /\ UNCHANGED <<made, mine, holder>>
       \/ ~done /\ Make(c) /\ holder' = c /\ Goto(c, "f")
    /\ UNCHANGED <<area, kept, live, operator, done, name, history>>

\* f returns or panics; done is set and the mutex given back either way.
FReturns(c) ==
    /\ at[c] = "f"
    /\ \/ operator' = mine[c] /\ Goto(c, "got")
       \/ Goto(c, "idle") /\ UNCHANGED operator
    /\ done' = TRUE /\ holder' = None
    /\ UNCHANGED <<area, kept, live, made, name, mine, history>>

Got(c) ==
    /\ at[c] = "got"
    /\ results' = results \cup {operator} /\ Goto(c, "idle")
    /\ UNCHANGED <<area, kept, live, made, single, name, mine, replaced, stray>>

----------------------------------------------------------------------------
Next ==
    \E c \in Callers :
        \/ InitConfig(c) \/ InitLoad(c) \/ InitOpen(c) \/ InitReplicas(c) \/ InitStore(c)
        \/ Close(c) \/ Closed(c)
        \/ InitMongo(c) \/ Connect(c) \/ Ping(c) \/ GetCollection(c) \/ Find(c) \/ KeepFound(c)
        \/ RegisterJob(c) \/ AddJob(c) \/ StoreJob(c) \/ RemoveCronJob(c)
        \/ Do(c) \/ Slow(c) \/ FReturns(c) \/ Got(c)

Spec == Init /\ [][Next]_vars

----------------------------------------------------------------------------
(***************************************************************************)
(* Properties.                                                             *)
(***************************************************************************)
TypeOK ==
    /\ kept \in [Names -> 1..made \cup {None}] /\ live \subseteq 1..made
    /\ holder \in Callers \cup {None} /\ operator \in 1..made \cup {None}

\* Whatever is open, connected or scheduled can still be closed: it is found by
\* its name, or somebody is at it.  Exceptions are a pool or a job that another
\* InitConfig or RegisterJob of the same name has replaced, and the pools that
\* nothing in the code closes, although Close says "close database": those of
\* sources and replicas, and one that could not be pinged.  And what is found by
\* its name is open.
Busy(c) == at[c] \in {"resolver", "store", "close", "ping", "storeJob"}
InReach ==
    /\ \A t \in live \ (replaced \cup stray) :
         \/ t = operator \/ \E n \in Names : kept[n] = t
         \/ \E c \in Callers : mine[c] = t /\ Busy(c)
    /\ area \in {"gormx", "cron"} => \A n \in Names : kept[n] \in live \cup {None}

\* f runs once, and whoever returns from Do has what f returned, or nothing
\* when it panicked.
OnceRuns == area = "once" => made <= 1 /\ \A r, s \in results : r = s

\* "获取特定类型的Repository单例" (the one repository of its type): callers of
\* GetRepository, or GetCollection, with the same name get the same one.
Singleton == area = "mongo" => \A r, s \in results : r[1] = s[1] => r = s
=============================================================================
