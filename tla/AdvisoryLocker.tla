--------------------------- MODULE AdvisoryLocker ---------------------------
(***************************************************************************)
(* advisoryLocker (src/gormx/migrate/lock.go): a session-level lock of the *)
(* database (pg_advisory_lock, GET_LOCK, sp_getapplock) taken on a         *)
(* connection that the locker keeps for itself.  The database releases the *)
(* lock when the session ends; the migrations run on other connections.    *)
(***************************************************************************)
EXTENDS Naturals

CONSTANTS
    Instances,     \* instances of the service
    Nobody,        \* the lock is free
    Blocking       \* pg_advisory_lock waits until the lock is free; the other
                   \* dialects report a time-out by a result code

\* The assumption on the constants.
AdvisoryParameters == Nobody \notin Instances /\ Blocking \in BOOLEAN

VARIABLES
    owner,   \* the instance whose session holds the database lock
    conn,    \* the instances whose locker holds a live session
    pooled,  \* the instances whose pool has a session that holds the lock
    pc,      \* where each instance is
    ended    \* the instances whose context of Lock has ended

vars == <<owner, conn, pooled, pc, ended>>

Goto(i, l) == pc' = [pc EXCEPT ![i] = l]

\* Lock has returned nil, Unlock has not been called and the session on which
\* the lock was taken is still alive.
Holding == {i \in conn : pc[i] = "holding"}

Init == /\ owner = Nobody /\ conn = {} /\ pooled = {} /\ ended = {}
        /\ pc = [i \in Instances |-> "idle"]

\* The database forgets the session of instance i that has the lock.
Released(i) == IF owner = i THEN Nobody ELSE owner

----------------------------------------------------------------------------
\* Lock takes a connection out of the pool (or fails to get one and returns).
Connect(i) ==
    /\ pc[i] = "idle"
    /\ conn' = conn \cup {i}
    /\ ended' = ended \ {i}
    /\ Goto(i, "lock")
    /\ UNCHANGED <<owner, pooled>>

\* The context of Lock ends (Config.LockTimeout).
Deadline(i) ==
    /\ pc[i] = "lock" /\ i \notin ended
    /\ ended' = ended \cup {i}
    /\ UNCHANGED <<owner, conn, pooled, pc>>

\* The statement gets the lock: it is free, or the connection is the very
\* session of this process's pool that has it already.
LockOk(i) ==
    /\ pc[i] = "lock" /\ i \in conn
    /\ owner = Nobody \/ (owner = i /\ i \in pooled)
    /\ owner' = i
    /\ Goto(i, "holding")
    /\ UNCHANGED <<conn, pooled, ended>>

\* Mutant of LockTimesOut: the result of GET_LOCK is not looked at.
LockTimesOutHolding(i) ==
    /\ pc[i] = "lock" /\ ~Blocking /\ i \in conn /\ owner # Nobody
    /\ Goto(i, "holding")
    /\ UNCHANGED <<owner, conn, pooled, ended>>

\* GET_LOCK returns 0 or sp_getapplock -1 after 55 s: Lock asks again unless
\* its context has ended.
LockTimesOut(i) ==
    /\ pc[i] = "lock" /\ ~Blocking /\ i \in conn /\ owner # Nobody
    /\ IF i \in ended THEN Goto(i, "idle") /\ conn' = conn \ {i} ELSE UNCHANGED <<pc, conn>>
    /\ UNCHANGED <<owner, pooled, ended>>

\* Mutant of LockCancelled: the statement runs without the context of Lock.
LockNotCancelled(i) ==
    /\ pc[i] = "lock" /\ i \notin conn
    /\ Goto(i, "idle")
    /\ UNCHANGED <<owner, conn, pooled, ended>>

\* The statement fails because its context has ended or the session is gone ...
LockCancelled(i) ==
    /\ pc[i] = "lock" /\ (i \in ended \/ i \notin conn)
    /\ conn' = conn \ {i}
    /\ Goto(i, "idle")
    /\ UNCHANGED <<owner, pooled, ended>>

\* ... or because the database reports an error (NULL or another code) ...
LockErrors(i) ==
    /\ pc[i] = "lock"
    /\ conn' = conn \ {i}
    /\ Goto(i, "idle")
    /\ UNCHANGED <<owner, pooled, ended>>

\* ... or the context ends when the row that grants the lock has been received
\* but not scanned: conn.Close() puts the session with the lock into the pool.
LockTooLate(i) ==
    /\ pc[i] = "lock" /\ ~Blocking /\ i \in conn /\ i \in ended /\ owner = Nobody
    /\ owner' = i
    /\ pooled' = pooled \cup {i}
    /\ conn' = conn \ {i}
    /\ Goto(i, "idle")
    /\ UNCHANGED ended

\* Unlock releases the lock on the same session, if there still is one; a
\* session that had the lock twice keeps it once.
Unlock(i) ==
    /\ pc[i] = "holding"
    /\ owner' = IF i \in pooled THEN owner ELSE Released(i)
    /\ conn' = conn \ {i}
    /\ Goto(i, "idle")
    /\ UNCHANGED <<pooled, ended>>

\* The statement of Unlock fails: conn.Close() puts the session, if it is still
\* alive, back into the pool.
UnlockFails(i) ==
    /\ pc[i] = "holding" /\ i \in conn
    /\ pooled' = pooled \cup {i}
    /\ conn' = conn \ {i}
    /\ Goto(i, "idle")
    /\ UNCHANGED <<owner, ended>>

\* The process ends and its sessions with it.
Crash(i) ==
    /\ pc[i] # "idle" \/ i \in pooled
    /\ owner' = Released(i)
    /\ conn' = conn \ {i}
    /\ pooled' = pooled \ {i}
    /\ Goto(i, "idle")
    /\ UNCHANGED ended

\* The database or the network ends the locker's session in a running process;
\* nothing tells the migrations.
SessionDies(i) ==
    /\ i \in conn
    /\ conn' = conn \ {i}
    /\ IF pc[i] = "holding"
       THEN owner' = Released(i) /\ pooled' = pooled \ {i}
       ELSE UNCHANGED <<owner, pooled>>
    /\ UNCHANGED <<pc, ended>>

\* The pool closes a session that is not in use.
PooledCloses(i) ==
    /\ i \in pooled /\ pc[i] # "holding"
    /\ pooled' = pooled \ {i}
    /\ owner' = Released(i)
    /\ UNCHANGED <<conn, pc, ended>>

Next == \E i \in Instances :
    \/ Connect(i) \/ Deadline(i) \/ LockOk(i) \/ LockTimesOut(i)
    \/ LockCancelled(i) \/ LockErrors(i) \/ LockTooLate(i)
    \/ Unlock(i) \/ UnlockFails(i) \/ Crash(i) \/ SessionDies(i) \/ PooledCloses(i)

\* Deadlines pass, and a statement whose context has ended returns.
Fairness == \A i \in Instances : WF_vars(Deadline(i)) /\ WF_vars(LockCancelled(i))

Spec == Init /\ [][Next]_vars /\ Fairness

----------------------------------------------------------------------------
\* Every variable has its type.
TypeOK ==
    /\ owner \in Instances \cup {Nobody}
    /\ conn \in SUBSET Instances /\ pooled \in SUBSET Instances /\ ended \in SUBSET Instances
    /\ pc \in [Instances -> {"idle", "lock", "holding"}]

Abstract == INSTANCE MigrationLock WITH holders <- Holding

\* advisoryLocker implements the lock the migrations rely on, if the loss of a
\* session counts as leaving: an instance whose session has ended is not told
\* and goes on, but of the others only one migrates, however time-outs, errors,
\* pooled sessions and crashes are interleaved.  (And every variable has its type.)
ImplementsLock == Abstract!Spec /\ []TypeOK

\* Lock does not wait beyond its context.
LockEnds == \A i \in Instances : pc[i] = "lock" ~> pc[i] # "lock"
=============================================================================
