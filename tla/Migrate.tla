------------------------------ MODULE Migrate ------------------------------
(***************************************************************************)
(* migrate.Run (src/gormx/migrate/migrate.go): loading the migration       *)
(* files, choosing the ones to execute, executing each in a transaction    *)
(* and recording its version, first the DDL directory, then the seeds.     *)
(* Instances of the service run it at start-up, under the lock that        *)
(* MigrationLock specifies; a process may end at any point.  During a      *)
(* deployment the instances are of different releases, each with the files *)
(* its own image holds.                                                    *)
(*                                                                         *)
(* A migration file is a sequence of objects it creates.  Creating an      *)
(* object that exists is the "already exists" error that                   *)
(* IsIdempotentSkippable recognises.  Versions are numbers; 0 is the empty *)
(* version.                                                                *)
(***************************************************************************)
EXTENDS Naturals, Sequences, FiniteSets, Functions

CONSTANTS
    Instances,
    DDLDir, SeedDir,     \* the .sql files of each instance's two directories
    Leftover,            \* objects somebody created by hand
    TransactionalDDL     \* a rollback undoes DDL (PostgreSQL), or every DDL
                         \* statement commits (MySQL, Oracle)

Kinds == {"ddl", "seed"}

\* A version YYYYMMDD_NNN; 0 is what is not of this form.
Version(date, number) == 1000 * date + number

\* extractNameVersion: YYYYMMDD_NNN of YYYYMMDD_NNN_desc.sql; a part of a name
\* that is missing, too long, too short or not made of digits is 0 here, another
\* one is a number with the order of its digits.
ExtractNameVersion(f) ==
    IF 0 \in {f.date, f.number, f.desc} THEN 0 ELSE Version(f.date, f.number)

\* parseHeaderVersion: the first version declared in the comments and blank
\* lines a file begins with.
ParseHeaderVersion(f) ==
    LET ends == {n \in DOMAIN f.lines : f.lines[n].is # "comment"}
        first == CHOOSE n \in ends : \A m \in ends : n <= m
    IN  IF ends = {} THEN 0
        ELSE IF f.lines[first].is = "version" THEN f.lines[first].version ELSE 0

\* resolveVersion: the header's version if isMigrationVersion accepts it, else the
\* one of the file name, which a baseline file may not fall back to.
ResolveVersion(f) ==
    IF ExtractNameVersion(f) = 0 THEN 0
    ELSE IF ParseHeaderVersion(f) # 0 THEN ParseHeaderVersion(f)
    ELSE IF f.baseline THEN 0 ELSE ExtractNameVersion(f)

\* loadMigrationFiles: of the files that look like a DDL baseline only the one
\* with the standard name counts; sorted by version, then by name.
LoadMigrationFiles(dir, k) ==
    {f \in dir : ResolveVersion(f) # 0 /\ (k = "ddl" /\ f.baseline => f.standard)}

Before(f, g) == \/ ResolveVersion(f) < ResolveVersion(g)
                \/ ResolveVersion(f) = ResolveVersion(g) /\ f.name < g.name

Files(i, k) == LoadMigrationFiles(IF k = "ddl" THEN DDLDir[i] ELSE SeedDir[i], k)
Baselines(i, k) == {f \in Files(i, k) : f.baseline}

\* The assumption on the constants.
MigrateParameters ==
    /\ TransactionalDDL \in BOOLEAN
    /\ \A i \in Instances : \A f \in DDLDir[i] \cup SeedDir[i] :
         ResolveVersion(f) \in Nat /\ f.creates \in Seq(Range(f.creates))

VARIABLES
    holders,   \* the instances that hold the migration lock
    applied,   \* the rows of schema_migrations: kind and version
    objects,   \* the objects that exist
    pc, kind, latest,      \* of each instance
    left,                  \* files its loop has not reached
    file, stmt, undo

vars == <<holders, applied, objects, pc, kind, latest, left, file, stmt, undo>>

Lock == INSTANCE MigrationLock

NoFile == [name |-> 0]
Goto(i, l) == pc' = [pc EXCEPT ![i] = l]

LatestVersion(k) ==
    LET versions == {a[2] : a \in {b \in applied : b[1] = k}}
    IN  IF versions = {} THEN 0 ELSE CHOOSE v \in versions : \A w \in versions : w <= v

Init ==
    /\ Lock!Init
    /\ applied = {}
    /\ objects = Leftover
    /\ pc = [i \in Instances |-> "idle"]
    /\ kind = [i \in Instances |-> "ddl"]
    /\ latest = [i \in Instances |-> 0]
    /\ left = [i \in Instances |-> {}]
    /\ file = [i \in Instances |-> NoFile]
    /\ stmt = [i \in Instances |-> 1]
    /\ undo = [i \in Instances |-> {}]

----------------------------------------------------------------------------
\* Run gets the lock and, after creating the tracking table, loads the files.
Acquire(i) ==
    /\ pc[i] = "idle" /\ Lock!Lock(i)
    /\ Goto(i, "plan")
    /\ UNCHANGED <<applied, objects, kind, latest, left, file, stmt, undo>>

\* runMigrationFiles starts: with no version recorded the baseline is executed
\* first.  No files: nothing to do; no baseline, or several: an error.
Plan(i) ==
    /\ pc[i] = "plan"
    /\ LET k == kind[i] IN
       /\ latest' = [latest EXCEPT ![i] = LatestVersion(k)]
       /\ left' = [left EXCEPT ![i] = Files(i, k)]
       /\ \/ Files(i, k) = {} /\ Goto(i, "finish") /\ UNCHANGED <<file, stmt>>
          \/ /\ Files(i, k) # {}
             /\ Cardinality(Baselines(i, k)) > 1 \/ (LatestVersion(k) = 0 /\ Baselines(i, k) = {})
             /\ Goto(i, "error") /\ UNCHANGED <<file, stmt>>
          \/ /\ LatestVersion(k) = 0
             /\ \E f \in Baselines(i, k) :
                 Baselines(i, k) = {f} /\ file' = [file EXCEPT ![i] = f]
             /\ stmt' = [stmt EXCEPT ![i] = 1]
             /\ Goto(i, "exec")
          \/ /\ Files(i, k) # {} /\ Cardinality(Baselines(i, k)) <= 1 /\ LatestVersion(k) # 0
             /\ Goto(i, "scan") /\ UNCHANGED <<file, stmt>>
    /\ UNCHANGED <<holders, applied, objects, kind, undo>>

\* A query or os.ReadFile fails.
PlanFails(i) ==
    /\ pc[i] \in {"plan", "scan"}
    /\ Goto(i, "error")
    /\ UNCHANGED <<holders, applied, objects, kind, latest, left, file, stmt, undo>>

\* Mutant of Skipped: old versions are executed too.
SkippedOnlyRecorded(i, f) == f.baseline \/ <<kind[i], ResolveVersion(f)>> \in applied

\* The loop over the files: a baseline, an old version and a version that is
\* recorded are skipped.
Skipped(i, f) ==
    f.baseline \/ ResolveVersion(f) <= latest[i] \/ <<kind[i], ResolveVersion(f)>> \in applied

Scan(i) ==
    /\ pc[i] = "scan"
    /\ \/ left[i] = {} /\ Goto(i, "finish") /\ UNCHANGED <<left, file, stmt>>
       \/ \E f \in left[i] :
            /\ \A g \in left[i] \ {f} : Before(f, g)
            /\ left' = [left EXCEPT ![i] = @ \ {f}]
            /\ \/ Skipped(i, f) /\ UNCHANGED <<pc, file, stmt>>
               \/ /\ ~Skipped(i, f)
                  /\ file' = [file EXCEPT ![i] = f]
                  /\ stmt' = [stmt EXCEPT ![i] = 1]
                  /\ Goto(i, "exec")
    /\ UNCHANGED <<holders, applied, objects, kind, latest, undo>>

\* execFile: the next statement of the file.  What a rollback would undo is
\* remembered; seeds insert data, which every database can roll back.
ExecStmt(i) ==
    /\ pc[i] = "exec" /\ stmt[i] <= Len(file[i].creates)
    /\ LET o == file[i].creates[stmt[i]] IN
       /\ o \notin objects
       /\ objects' = objects \cup {o}
       /\ undo' = [undo EXCEPT ![i] = IF TransactionalDDL \/ kind[i] = "seed"
                                      THEN @ \cup {o} ELSE @]
    /\ stmt' = [stmt EXCEPT ![i] = @ + 1]
    /\ UNCHANGED <<holders, applied, pc, kind, latest, left, file>>

Rollback(i) == objects' = objects \ undo[i] /\ undo' = [undo EXCEPT ![i] = {}]

\* The statement creates an object that exists.  For DDL the file counts as
\* applied: back to the savepoint, and the version is recorded.
ExecDuplicate(i) ==
    /\ pc[i] = "exec" /\ stmt[i] <= Len(file[i].creates)
    /\ file[i].creates[stmt[i]] \in objects
    /\ Rollback(i)
    /\ Goto(i, IF kind[i] = "seed" THEN "error" ELSE "record")
    /\ UNCHANGED <<holders, applied, kind, latest, left, file, stmt>>

\* Mutant of ExecFails: the version is recorded after any error.
ExecFailsRecords(i) ==
    /\ pc[i] = "exec"
    /\ Rollback(i)
    /\ Goto(i, "record")
    /\ UNCHANGED <<holders, applied, kind, latest, left, file, stmt>>

\* Any other error ends the transaction.
ExecFails(i) ==
    /\ pc[i] \in {"exec", "record"}
    /\ Rollback(i)
    /\ Goto(i, "error")
    /\ UNCHANGED <<holders, applied, kind, latest, left, file, stmt>>

ExecDone(i) ==
    /\ pc[i] = "exec" /\ stmt[i] > Len(file[i].creates)
    /\ Goto(i, "record")
    /\ UNCHANGED <<holders, applied, objects, kind, latest, left, file, stmt, undo>>

\* The version is inserted (a primary key) and the transaction commits.
Record(i) ==
    LET v == ResolveVersion(file[i]) IN
    /\ pc[i] = "record" /\ <<kind[i], v>> \notin applied
    /\ applied' = applied \cup {<<kind[i], v>>}
    /\ latest' = [latest EXCEPT ![i] = v]
    /\ undo' = [undo EXCEPT ![i] = {}]
    /\ Goto(i, "scan")
    /\ UNCHANGED <<holders, objects, kind, left, file, stmt>>

\* runMigrationFiles has returned: the seeds follow the DDL; an error of the
\* DDL ends Run, one of the seeds is only logged.
Finish(i) ==
    /\ \/ pc[i] = "finish" /\ kind[i] = "ddl"
          /\ kind' = [kind EXCEPT ![i] = "seed"] /\ Goto(i, "plan")
       \/ pc[i] = "error" /\ kind[i] = "ddl" /\ Goto(i, "unlock") /\ UNCHANGED kind
       \/ pc[i] \in {"finish", "error"} /\ kind[i] = "seed"
          /\ Goto(i, "unlock") /\ UNCHANGED kind
    /\ UNCHANGED <<holders, applied, objects, latest, left, file, stmt, undo>>

\* The local variables of Run are gone.
Forget(i) ==
    /\ kind' = [kind EXCEPT ![i] = "ddl"]
    /\ latest' = [latest EXCEPT ![i] = 0]
    /\ left' = [left EXCEPT ![i] = {}]
    /\ file' = [file EXCEPT ![i] = NoFile]
    /\ stmt' = [stmt EXCEPT ![i] = 1]

Release(i) ==
    /\ pc[i] = "unlock" /\ Lock!Leave(i)
    /\ Forget(i)
    /\ Goto(i, "idle")
    /\ UNCHANGED <<applied, objects, undo>>

\* The process ends while it migrates: the database rolls back what it can.
Crash(i) ==
    /\ pc[i] # "idle" /\ Lock!Leave(i)
    /\ Rollback(i) /\ Forget(i)
    /\ Goto(i, "idle")
    /\ UNCHANGED applied

Next == \E i \in Instances :
    \/ Acquire(i) \/ Plan(i) \/ PlanFails(i) \/ Scan(i) \/ ExecStmt(i) \/ ExecDuplicate(i)
    \/ ExecFails(i) \/ ExecDone(i) \/ Record(i) \/ Finish(i) \/ Release(i) \/ Crash(i)

Spec == Init /\ [][Next]_vars

----------------------------------------------------------------------------
(***************************************************************************)
(* Properties.                                                             *)
(***************************************************************************)

AllFiles == UNION {DDLDir[i] \cup SeedDir[i] : i \in Instances}
AllObjects == Leftover \cup UNION {Range(f.creates) : f \in AllFiles}

\* Every variable has its type.
TypeOK ==
    /\ holders \in SUBSET Instances
    /\ applied \in SUBSET (Kinds \X {ResolveVersion(f) : f \in AllFiles})
    /\ objects \in SUBSET AllObjects
    /\ pc \in [Instances -> {"idle", "plan", "scan", "exec", "record", "finish", "error", "unlock"}]
    /\ kind \in [Instances -> Kinds]
    /\ latest \in [Instances -> {0} \cup {ResolveVersion(f) : f \in AllFiles}]
    /\ left \in [Instances -> SUBSET AllFiles]
    /\ file \in [Instances -> AllFiles \cup {NoFile}]
    /\ undo \in [Instances -> SUBSET AllObjects]

\* Versions are recorded in ascending order, across crashes, failures and
\* restarts of any instance.
AppliedInOrder ==
    [][\A a \in applied' \ applied : \A b \in applied : a[1] = b[1] => b[2] < a[2]]_vars

\* What execFile takes for granted when it records the version of a file: the
\* objects of the file exist.  It holds for the files of every release.  And Run
\* executes the seeds only when everything the DDL files of its release create
\* exists.  (And every variable has its type.)
RecordedIsExecuted ==
    /\ TypeOK
    /\ \A i \in Instances : \A f \in Files(i, "ddl") :
        kind[i] = "seed" \/ <<"ddl", ResolveVersion(f)>> \in applied
            => Range(f.creates) \subseteq objects

----------------------------------------------------------------------------
(***************************************************************************)
(* What RecordedIsExecuted takes of the files, which no code checks: that  *)
(* the releases are stages of one schema, and that DDL is rolled back.     *)
(***************************************************************************)
DDLFiles == UNION {Files(i, "ddl") : i \in Instances}
DDLVersions == {ResolveVersion(f) : f \in DDLFiles}
SeedObjects == UNION {Range(f.creates) : f \in UNION {Files(i, "seed") : i \in Instances}}

\* What the files of all releases up to version v create.
Schema(v) == UNION {Range(f.creates) : f \in {g \in DDLFiles : ResolveVersion(g) <= v}}

\* f is what Run executes when u is the latest version: the baseline if there is
\* none, else the increment that follows.
Follows(i, f, u) ==
    IF f.baseline THEN u = 0
    ELSE /\ u # 0 /\ u < ResolveVersion(f)
         /\ \A g \in Files(i, "ddl") :
              ~g.baseline /\ u < ResolveVersion(g) => ResolveVersion(f) <= ResolveVersion(g)

\* A baseline creates all of its version, an increment what its version adds to the
\* one before, and the increments of a release lead as far as its baseline.
ReleasesAgree ==
    \A i \in Instances : \A f \in Files(i, "ddl") : \A u \in {0} \cup DDLVersions :
        /\ Follows(i, f, u) => Schema(ResolveVersion(f)) \subseteq Schema(u) \cup Range(f.creates)
        /\ u # 0 /\ f.baseline /\ (\A g \in Files(i, "ddl") : g.baseline \/ ResolveVersion(g) <= u)
             => Schema(ResolveVersion(f)) \subseteq Schema(u)

\* A file creates an object once, and seeds create others than DDL does.  If an
\* object of a file is there before the file is executed, all of its version is:
\* this is what "already exists" is taken to mean.
CreatesAnew ==
    \A i \in Instances : \A f \in Files(i, "ddl") :
        /\ \A m, n \in DOMAIN f.creates : f.creates[m] = f.creates[n] => m = n
        /\ Range(f.creates) \cap SeedObjects = {}
        /\ \A u \in {0} \cup DDLVersions :
             Follows(i, f, u) /\ Range(f.creates) \cap (Leftover \cup Schema(u)) # {}
             => Schema(ResolveVersion(f)) \subseteq Leftover \cup Schema(u)

FilesAgree == TransactionalDDL /\ ReleasesAgree /\ CreatesAnew
=============================================================================
