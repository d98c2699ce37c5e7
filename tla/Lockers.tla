------------------------------ MODULE Lockers ------------------------------
(***************************************************************************)
(* What Run does with the lock it chooses: the dialect has a locker of its *)
(* own (advisoryLocker) or falls back to the table (tableLocker), and the  *)
(* migrations that either protects.  They share no state: of the lock the  *)
(* migrations see what MigrationLock promises.  So a behaviour is one of a *)
(* single part; the others stay as they began.                             *)
(***************************************************************************)
EXTENDS TableLocker

CONSTANTS
    Sessions,                                     \* AdvisoryLocker
    Blocking,
    Runners, DDLDir, SeedDir, Leftover, TransactionalDDL   \* Migrate

VARIABLES part, owner, conn, pooled, advisoryPc, ended,
          holders, applied, objects, migratePc, kind, latest, left, file, stmt, undo

advisoryVars == <<owner, conn, pooled, advisoryPc, ended>>
runnerVars == <<holders, applied, objects, migratePc, kind, latest, left, file, stmt, undo>>

Advisory == INSTANCE AdvisoryLocker WITH Instances <- Sessions, pc <- advisoryPc
Runner == INSTANCE Migrate WITH Instances <- Runners, pc <- migratePc

\* The assumptions of the parts.
ASSUME LockersAssumption == Advisory!AdvisoryParameters /\ Runner!MigrateParameters

AllInit ==
    /\ part \in {"table", "advisory", "runner"}
    /\ Init /\ Advisory!Init /\ Runner!Init

AllNext ==
    \/ part = "table" /\ Next /\ UNCHANGED <<advisoryVars, runnerVars, part>>
    \/ part = "advisory" /\ Advisory!Next /\ UNCHANGED <<vars, runnerVars, part>>
    \/ part = "runner" /\ Runner!Next /\ UNCHANGED <<vars, advisoryVars, part>>

AllSpec ==
    /\ AllInit /\ [][AllNext]_<<vars, advisoryVars, runnerVars, part>>
    /\ part = "table" => Fairness
    /\ part = "advisory" => Advisory!Fairness

----------------------------------------------------------------------------
\* Nobody waits for a lock for ever: the row of an owner that has died is taken
\* over (StaleIsFreed, lock.go:201), and Lock of the advisory locker ends with
\* its context (LockEnds, lock.go:86).
WaitsEnd == StaleIsFreed /\ Advisory!LockEnds

\* The properties of AdvisoryLocker and Migrate.
AdvisoryImplementsLock == Advisory!ImplementsLock
AppliedInOrder == Runner!AppliedInOrder
RecordedIsExecuted == Runner!RecordedIsExecuted
=============================================================================
