----------------------------- MODULE TableLocker -----------------------------
(***************************************************************************)
(* tableLocker (src/gormx/migrate/lock.go): a lock built from one row of   *)
(* the table schema_migrations_lock, with renewal by the holder and take-  *)
(* over of a stale row by the instances that wait.                         *)
(*                                                                         *)
(* Time is counted in renewal periods (staleLockThreshold/3).  Of the      *)
(* row's locked_at the model keeps the age and whether the value an        *)
(* instance has read is still the current one.  Any SQL statement may fail *)
(* and the INSERT may take effect although it reports an error.  A holder  *)
(* may lose at most MaxLost renewals in a row.                             *)
(***************************************************************************)
EXTENDS Naturals

CONSTANTS
    Instances,    \* instances of the service
    Nobody,       \* no row
    LockedBy,     \* locked_by of each instance: hostname and process id
    Stale,        \* staleLockThreshold, in renewal periods
    LockTimeout,  \* Config.LockTimeout, in renewal periods
    MaxLost       \* renewals a holder may lose in a row

ASSUME TableLockerAssumption ==
    /\ Nobody \notin Instances
    /\ Stale \in Nat \ {0} /\ LockTimeout \in Nat /\ MaxLost \in Nat

VARIABLES
    row,      \* the instance that inserted the row, or Nobody
    age,      \* renewal periods since locked_at, counted up to Stale + 1
    pc,       \* where each instance is
    current,  \* the instances whose lockedAt is the row's locked_at
    waited,   \* periods an instance has waited in Lock
    due,      \* holders whose renewal of this period is still to come
    lost      \* renewals a holder lost in a row

vars == <<row, age, pc, current, waited, due, lost>>

Goto(i, l) == pc' = [pc EXCEPT ![i] = l]

\* Lock has returned nil and Unlock has not been called.
Holding == {i \in Instances : pc[i] = "holding"}

Init ==
    /\ row = Nobody /\ age = 0
    /\ pc = [i \in Instances |-> "idle"]
    /\ current = {}
    /\ waited = [i \in Instances |-> 0]
    /\ due = {}
    /\ lost = [i \in Instances |-> 0]

----------------------------------------------------------------------------
\* Lock is called.
Start(i) ==
    /\ pc[i] = "idle"
    /\ waited' = [waited EXCEPT ![i] = 0]
    /\ Goto(i, "insert")
    /\ UNCHANGED <<row, age, current, due, lost>>

\* The INSERT succeeds: the renewal goroutine is started.
InsertOk(i) ==
    /\ pc[i] = "insert" /\ row = Nobody
    /\ row' = i /\ age' = 0 /\ current' = {}
    /\ lost' = [lost EXCEPT ![i] = 0]
    /\ due' = due \ {i}
    /\ Goto(i, "holding")
    /\ UNCHANGED waited

\* The INSERT reports an error: the row exists, or the statement failed, maybe
\* after it took effect.
InsertFails(i) ==
    /\ pc[i] = "insert"
    /\ \/ UNCHANGED <<row, age, current>>
       \/ row = Nobody /\ row' = i /\ age' = 0 /\ current' = {}
    /\ Goto(i, "query")
    /\ UNCHANGED <<waited, due, lost>>

\* Mutant of Query: a row is stale one period too early.
QueryTooEarly(i) ==
    /\ pc[i] = "query"
    /\ IF row # Nobody /\ age >= Stale
       THEN current' = current \cup {i} /\ Goto(i, "delete")
       ELSE Goto(i, "wait") /\ UNCHANGED current
    /\ UNCHANGED <<row, age, waited, due, lost>>

\* Mutant of Query: no row is ever stale.
QueryNeverStale(i) ==
    /\ pc[i] = "query"
    /\ Goto(i, "wait")
    /\ UNCHANGED <<row, age, current, waited, due, lost>>

\* SELECT locked_at: a stale row is to be deleted, otherwise the instance waits.
Query(i) ==
    /\ pc[i] = "query"
    /\ IF row # Nobody /\ age > Stale
       THEN current' = current \cup {i} /\ Goto(i, "delete")
       ELSE Goto(i, "wait") /\ UNCHANGED current
    /\ UNCHANGED <<row, age, waited, due, lost>>

QueryFails(i) ==
    /\ pc[i] = "query"
    /\ Goto(i, "wait")
    /\ UNCHANGED <<row, age, current, waited, due, lost>>

\* Mutant of DeleteStale: the DELETE has no condition on locked_at.
DeleteAnyRow(i) ==
    /\ pc[i] = "delete"
    /\ row' = Nobody /\ age' = 0 /\ current' = {}
    /\ Goto(i, IF waited[i] < LockTimeout THEN "insert" ELSE "idle")
    /\ UNCHANGED <<waited, due, lost>>

\* The conditional DELETE removes the row only if locked_at is still the value
\* this instance found stale; its result is ignored and the loop starts again,
\* unless the context has ended.
DeleteStale(i) ==
    /\ pc[i] = "delete"
    /\ \/ IF i \in current
          THEN row' = Nobody /\ age' = 0 /\ current' = {}
          ELSE UNCHANGED <<row, age, current>>
       \/ UNCHANGED <<row, age>> /\ current' = current \ {i}
    /\ Goto(i, IF waited[i] < LockTimeout THEN "insert" ELSE "idle")
    /\ UNCHANGED <<waited, due, lost>>

Retry(i) ==
    /\ pc[i] = "wait" /\ waited[i] < LockTimeout
    /\ Goto(i, "insert")
    /\ UNCHANGED <<row, age, current, waited, due, lost>>

\* The context of Lock ends.
GiveUp(i) ==
    /\ pc[i] = "wait" /\ waited[i] >= LockTimeout
    /\ Goto(i, "idle")
    /\ UNCHANGED <<row, age, current, waited, due, lost>>

\* The renewal goroutine updates locked_at of the row with its locked_by.
Renew(i) ==
    /\ i \in due
    /\ IF row # Nobody /\ LockedBy[row] = LockedBy[i]
       THEN age' = 0 /\ current' = {}
       ELSE UNCHANGED <<age, current>>
    /\ due' = due \ {i}
    /\ lost' = [lost EXCEPT ![i] = 0]
    /\ UNCHANGED <<row, pc, waited>>

\* The UPDATE fails; its error is ignored.
RenewFails(i) ==
    /\ i \in due /\ lost[i] < MaxLost
    /\ due' = due \ {i}
    /\ lost' = [lost EXCEPT ![i] = @ + 1]
    /\ UNCHANGED <<row, age, pc, current, waited>>

\* Unlock stops the renewal and deletes the row with its locked_by.
Unlock(i) ==
    /\ pc[i] = "holding"
    /\ IF row # Nobody /\ LockedBy[row] = LockedBy[i]
       THEN row' = Nobody /\ age' = 0 /\ current' = {}
       ELSE UNCHANGED <<row, age, current>>
    /\ due' = due \ {i}
    /\ Goto(i, "idle")
    /\ UNCHANGED <<waited, lost>>

\* The DELETE of Unlock fails, or the process ends while it holds the lock.
Abandon(i) ==
    /\ pc[i] = "holding"
    /\ due' = due \ {i}
    /\ Goto(i, "idle")
    /\ UNCHANGED <<row, age, current, waited, lost>>

\* The process ends while it waits for the lock.
Crash(i) ==
    /\ pc[i] \in {"insert", "query", "delete", "wait"}
    /\ current' = current \ {i}
    /\ Goto(i, "idle")
    /\ UNCHANGED <<row, age, waited, due, lost>>

\* A renewal period passes: the tickers of the holders fire, instances between
\* two statements of Lock do not sleep that long.
Tick ==
    /\ due = {}
    /\ \A i \in Instances : pc[i] = "wait" => waited[i] < LockTimeout
    /\ due' = Holding
    /\ age' = IF row = Nobody \/ age > Stale THEN age ELSE age + 1
    /\ waited' = [i \in Instances |-> IF pc[i] \in {"insert", "query", "delete", "wait"}
                                        /\ waited[i] < LockTimeout
                                      THEN waited[i] + 1 ELSE waited[i]]
    /\ UNCHANGED <<row, pc, current, lost>>

Attempt(i) == InsertOk(i) \/ InsertFails(i) \/ Query(i) \/ QueryFails(i)
              \/ DeleteStale(i) \/ Retry(i) \/ GiveUp(i)

Next ==
    \/ \E i \in Instances :
        \/ Start(i) \/ Attempt(i) \/ Renew(i) \/ RenewFails(i)
        \/ Unlock(i) \/ Abandon(i) \/ Crash(i)
    \/ Tick

\* Time passes, statements succeed now and then, renewals are not delayed for
\* ever, and a service that could not migrate is started again.
Fairness ==
    /\ WF_vars(Tick)
    /\ \A i \in Instances :
        /\ WF_vars(Start(i)) /\ WF_vars(Attempt(i)) /\ WF_vars(Renew(i))
        /\ SF_vars(Query(i)) /\ SF_vars(DeleteStale(i) /\ row' = Nobody)

Spec == Init /\ [][Next]_vars /\ Fairness

----------------------------------------------------------------------------
(***************************************************************************)
(* Properties.                                                             *)
(***************************************************************************)

\* Every variable has its type.
TypeOK ==
    /\ row \in Instances \cup {Nobody}
    /\ age \in 0..(Stale + 1)
    /\ pc \in [Instances -> {"idle", "insert", "query", "delete", "wait", "holding"}]
    /\ current \in SUBSET Instances
    /\ waited \in [Instances -> 0..LockTimeout]
    /\ due \in SUBSET Instances
    /\ lost \in [Instances -> 0..MaxLost]

\* Never two instances that migrate at the same time, although waiting
\* instances may decide at the same time that a row is stale and holders crash.
MutualExclusion == \A i, j \in Holding : i = j

\* A holder's row is its own and younger than the threshold, so nobody may
\* take it over: the margin that the renewal period leaves.
HolderIsFresh ==
    \A i \in Holding : row = i /\ age <= Stale /\ current = {}

\* A row whose owner is gone is removed in the end, if the instances that want
\* the lock are not killed for ever before they have looked at the row.
StaleIsFreed ==
    <>[][\A i \in Instances : pc[i] \in {"insert", "query"} => pc'[i] # "idle"]_vars =>
        \A i \in Instances : (row = i /\ i \notin Holding) ~> (row # i \/ i \in Holding)

Abstract == INSTANCE MigrationLock WITH holders <- Holding

\* tableLocker implements the lock the migrations rely on.
ImplementsLock == Abstract!Spec
=============================================================================
