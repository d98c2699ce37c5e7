---------------------------- MODULE MigrationLock ----------------------------
(***************************************************************************)
(* What the locker interface promises (src/gormx/migrate/lock.go): of the  *)
(* instances that start at the same time only one executes migrations.     *)
(***************************************************************************)
CONSTANTS Instances

VARIABLE holders   \* the instances whose Lock returned nil and that still migrate

Init == holders = {}

Lock(i) == holders = {} /\ holders' = {i}

\* Unlock, or the end of the process.
Leave(i) == i \in holders /\ holders' = holders \ {i}

Next == \E i \in Instances : Lock(i) \/ Leave(i)

Spec == Init /\ [][Next]_holders
=============================================================================
