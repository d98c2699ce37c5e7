--------------------------- MODULE EnsureDatabase ---------------------------
(***************************************************************************)
(* migrate.EnsureDatabase (src/gormx/migrate/migrate.go): before the       *)
(* migrations a service creates its database, over a connection to the     *)
(* server, and a schema in it, over a connection to the database.  Both    *)
(* connections are pools that gormx keeps under fixed names in each        *)
(* process.  Several services start at once; a statement may fail, or take *)
(* effect although its reply is lost.                                      *)
(***************************************************************************)
EXTENDS FiniteSets

CONSTANTS
    Calls,
    Processes,
    Places,         \* databases: pairs of a server and a name
    Nobody

\* Nobody is no call.
EnsureParameters == Nobody \notin Calls /\ \A x \in Places : x = <<x[1], x[2]>>

\* What the dialects can do: create a database, with a statement that accepts
\* an existing one, and create a schema.
Postgres  == [creates |-> TRUE, guarded |-> FALSE, schemas |-> TRUE, file |-> FALSE]
MySQL     == [creates |-> TRUE, guarded |-> TRUE, schemas |-> FALSE, file |-> FALSE]
SQLServer == [creates |-> TRUE, guarded |-> FALSE, schemas |-> FALSE, file |-> FALSE]
Oracle    == [creates |-> FALSE, guarded |-> FALSE, schemas |-> FALSE, file |-> FALSE]
DM        == [creates |-> FALSE, guarded |-> FALSE, schemas |-> FALSE, file |-> FALSE]
SQLite    == [creates |-> FALSE, guarded |-> FALSE, schemas |-> FALSE, file |-> TRUE]

DialectRegistry == {Postgres, MySQL, SQLServer, Oracle, DM, SQLite}

EnsureDB == "__ensure_db__"
EnsureSchema == "__ensure_schema__"
Names == {EnsureDB, EnsureSchema}

VARIABLES
    dialect,           \* of the servers
    process, target,   \* of each call: where it runs, its database
    schema,            \* the calls whose connection names a schema
    databases,         \* at the servers
    schemas,           \* databases with the schema
    registry,          \* dbMap of each process: the pool of each name
    open,              \* open pools, by the call that opened them and their name
    ensurePc,
    stage,             \* the connection a call is busy with
    pool,              \* the pool InitConfig gave to a call
    created, failed,   \* the calls that return created and an error
    overlapped         \* calls that met another one in their process (history)

callVars == <<dialect, process, target, schema>>
vars == <<callVars, databases, schemas, registry, open, ensurePc, stage, pool, created, failed, overlapped>>

Init ==
    /\ dialect \in DialectRegistry
    /\ process \in [Calls -> Processes] /\ target \in [Calls -> Places] /\ schema \in SUBSET Calls
    /\ databases \in SUBSET Places /\ schemas = {}
    /\ registry = [p \in Processes |-> [n \in Names |-> Nobody]]
    /\ open = {}
    /\ ensurePc = [c \in Calls |-> "idle"]
    /\ stage = [c \in Calls |-> EnsureDB]
    /\ pool = [c \in Calls |-> Nobody]
    /\ created = {} /\ failed = {} /\ overlapped = {}

Goto(c, l) == ensurePc' = [ensurePc EXCEPT ![c] = l]
Running == {c \in Calls : ensurePc[c] \notin {"idle", "done"}}

\* A file of SQLite needs nothing; other dialects that create no database
\* return ErrAutoCreateUnsupported.
Start(c) ==
    /\ ensurePc[c] = "idle"
    /\ LET met == {d \in Running : process[d] = process[c]} IN
       overlapped' = IF met = {} THEN overlapped ELSE overlapped \cup met \cup {c}
    /\ Goto(c, IF dialect.creates THEN "load" ELSE "done")
    /\ failed' = IF dialect.creates \/ dialect.file THEN failed ELSE failed \cup {c}
    /\ UNCHANGED <<callVars, databases, schemas, registry, open, stage, pool, created>>

----------------------------------------------------------------------------
(***************************************************************************)
(* gormx.InitConfig under one of the names, and gormx.Close.               *)
(***************************************************************************)
InUse(c) == registry[process[c]][stage[c]]
FirstUse(c) == Goto(c, IF stage[c] = EnsureDB THEN "check" ELSE "exec")

InitLoad(c) ==
    /\ ensurePc[c] = "load"
    /\ pool' = [pool EXCEPT ![c] = InUse(c)]
    /\ IF InUse(c) = Nobody THEN Goto(c, "open") ELSE FirstUse(c)
    /\ UNCHANGED <<callVars, databases, schemas, registry, open, stage, created, failed, overlapped>>

\* Without a connection the call ends; the deferred Close of the admin pool
\* runs if it was there.
InitOpen(c) ==
    /\ ensurePc[c] = "open"
    /\ \/ /\ stage[c] = EnsureSchema => target[c] \in databases
          /\ open' = open \cup {<<c, stage[c]>>}
          /\ Goto(c, "store") /\ UNCHANGED <<failed, stage>>
       \/ /\ failed' = failed \cup {c}
          /\ IF stage[c] = EnsureDB THEN Goto(c, "done") /\ UNCHANGED stage
             ELSE Goto(c, "close") /\ stage' = [stage EXCEPT ![c] = EnsureDB]
          /\ UNCHANGED open
    /\ UNCHANGED <<callVars, databases, schemas, registry, pool, created, overlapped>>

InitStore(c) ==
    /\ ensurePc[c] = "store"
    /\ registry' = [registry EXCEPT ![process[c]][stage[c]] = c]
    /\ pool' = [pool EXCEPT ![c] = c]
    /\ FirstUse(c)
    /\ UNCHANGED <<callVars, databases, schemas, open, stage, created, failed, overlapped>>

\* Mutant of Close: the name is left in dbMap.
CloseKeepsName(c) ==
    /\ ensurePc[c] = "close"
    /\ open' = open \ {<<InUse(c), stage[c]>>}
    /\ stage' = [stage EXCEPT ![c] = EnsureDB]
    /\ Goto(c, IF stage[c] = EnsureDB THEN "done" ELSE "close")
    /\ UNCHANGED <<callVars, databases, schemas, registry, pool, created, failed, overlapped>>

\* The pool under the name is taken out of dbMap and closed, whoever opened it.
Close(c) ==
    /\ ensurePc[c] = "close"
    /\ registry' = [registry EXCEPT ![process[c]][stage[c]] = Nobody]
    /\ open' = open \ {<<InUse(c), stage[c]>>}
    /\ stage' = [stage EXCEPT ![c] = EnsureDB]
    /\ Goto(c, IF stage[c] = EnsureDB THEN "done" ELSE "close")
    /\ UNCHANGED <<callVars, databases, schemas, pool, created, failed, overlapped>>

----------------------------------------------------------------------------
(***************************************************************************)
(* The statements.  They go to the server, or the database, of the call    *)
(* that opened the pool.                                                   *)
(***************************************************************************)
Answers(c) == <<pool[c], stage[c]>> \in open
At(c) == IF stage[c] = EnsureDB THEN <<target[pool[c]][1], target[c][2]>> ELSE target[pool[c]]

\* The call goes on to the schema, or ends.
Continue(c) ==
    IF dialect.schemas /\ c \in schema
    THEN Goto(c, "load") /\ stage' = [stage EXCEPT ![c] = EnsureSchema]
    ELSE Goto(c, "close") /\ UNCHANGED stage

\* dbExists: a query that fails finds no database.
Check(c) ==
    /\ ensurePc[c] = "check"
    /\ \/ Answers(c) /\ At(c) \in databases /\ Continue(c)
       \/ Goto(c, "create") /\ UNCHANGED stage
    /\ UNCHANGED <<callVars, databases, schemas, registry, open, pool, created, failed, overlapped>>

\* Mutant of Create: an error of the statement is taken for an existing database.
CreateIgnoresError(c) ==
    /\ ensurePc[c] = "create"
    /\ Continue(c)
    /\ \/ Answers(c) /\ databases' = databases \cup {At(c)} /\ created' = created \cup {c}
       \/ UNCHANGED <<databases, created>>
    /\ UNCHANGED <<callVars, schemas, registry, open, pool, failed, overlapped>>

Create(c) ==
    /\ ensurePc[c] = "create"
    /\ \/ /\ Answers(c) /\ (At(c) \in databases => dialect.guarded)
          /\ databases' = databases \cup {At(c)}
          /\ created' = created \cup {c}
          /\ Continue(c) /\ UNCHANGED failed
       \/ /\ failed' = failed \cup {c}
          /\ Goto(c, "close")
          /\ databases' \in {databases} \cup (IF Answers(c) THEN {databases \cup {At(c)}} ELSE {})
          /\ UNCHANGED <<stage, created>>
    /\ UNCHANGED <<callVars, schemas, registry, open, pool, overlapped>>

\* ensureDatabaseSchema: CREATE SCHEMA IF NOT EXISTS.
CreateSchema(c) ==
    /\ ensurePc[c] = "exec"
    /\ \/ Answers(c) /\ schemas' = schemas \cup {At(c)} /\ UNCHANGED failed
       \/ /\ failed' = failed \cup {c}
          /\ schemas' \in {schemas} \cup (IF Answers(c) THEN {schemas \cup {At(c)}} ELSE {})
    /\ Goto(c, "close")
    /\ UNCHANGED <<callVars, databases, registry, open, stage, pool, created, overlapped>>

Next ==
    \E c \in Calls :
        \/ Start(c) \/ InitLoad(c) \/ InitOpen(c) \/ InitStore(c) \/ Close(c)
        \/ Check(c) \/ Create(c) \/ CreateSchema(c)

Spec == Init /\ [][Next]_vars

----------------------------------------------------------------------------
(***************************************************************************)
(* Properties.                                                             *)
(***************************************************************************)

\* A call that returns no error has its database and, where it asked for one
\* and the dialect knows schemas, its schema, whatever other processes do at
\* the same time.
Exists ==
    \A c \in Calls \ (failed \cup overlapped) :
        ensurePc[c] = "done" /\ ~dialect.file =>
            /\ target[c] \in databases
            /\ dialect.schemas /\ c \in schema => target[c] \in schemas

\* One call at most is told that it created a database; with MySQL, whose
\* statement accepts an existing one, several may be.
CreatedOnce ==
    ~dialect.guarded =>
        \A c, d \in created \ overlapped : c # d => target[c] # target[d]

\* The pools are temporary: when no call of a process runs, none is registered
\* or open.
PoolsAreTemporary ==
    \A c \in Calls :
        ensurePc[c] = "done" /\ (\A d \in Running : process[d] # process[c]) =>
            /\ \A n \in Names : registry[process[c]][n] = Nobody
            /\ c \notin overlapped => \A n \in Names : <<c, n>> \notin open

\* What EnsureDatabase returns is true, and it leaves no pool behind.  Calls
\* that overlap in one process are excepted: they share the fixed names, so one
\* may use the pool of the other, which leads to another server, or have its
\* own closed or lost.
Ensured == Exists /\ CreatedOnce /\ PoolsAreTemporary
=============================================================================
