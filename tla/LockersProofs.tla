---------------------------- MODULE LockersProofs ----------------------------
(***************************************************************************)
(* Proofs about the lockers and the migrations they protect, for any       *)
(* number of instances, any thresholds and any migration files: tableLocker*)
(* is a lock on two conditions, advisoryLocker is one without any, and     *)
(* under the lock versions are recorded in order and what is recorded      *)
(* exists.                                                                 *)
(***************************************************************************)
EXTENDS Lockers, Sequences, TLAPS

----------------------------------------------------------------------------
(***************************************************************************)
(* tableLocker.  It is a lock if no two instances have the same locked_by  *)
(* and a holder loses fewer renewals in a row than staleLockThreshold      *)
(* lasts.                                                                  *)
(***************************************************************************)

\* The conditions.
Sound ==
    /\ MaxLost < Stale
    /\ \A i, j \in Instances : LockedBy[i] = LockedBy[j] => i = j

\* A holder owns the row, nobody has found that row stale, and the row is no
\* older than the renewals the holder has lost since it was last renewed.
HolderOK ==
    \A i \in Instances : pc[i] = "holding" =>
        /\ row = i
        /\ current = {}
        /\ age <= lost[i] + 1
        /\ i \notin due => age <= lost[i]

\* Only holders have a renewal goroutine.
DueOK == \A i \in Instances : i \in due => pc[i] = "holding"

\* The inductive invariant.
IInv == TypeOK /\ HolderOK /\ DueOK

USE TableLockerAssumption

\* The empty table satisfies the invariant.
LEMMA InitIInv == Init => IInv
BY DEF Init, IInv, TypeOK, HolderOK, DueOK

\* Every step keeps the types.
LEMMA NextTypes ==
    ASSUME TypeOK, [Next]_vars
    PROVE  TypeOK'
<1> USE DEF TypeOK, Goto
<1>1. ASSUME NEW i \in Instances, Start(i) \/ Attempt(i)
      PROVE  TypeOK'
  BY <1>1 DEF Start, Attempt, InsertOk, InsertFails, Query, QueryFails,
              DeleteStale, Retry, GiveUp
<1>2. ASSUME NEW i \in Instances,
             Renew(i) \/ RenewFails(i) \/ Unlock(i) \/ Abandon(i) \/ Crash(i)
      PROVE  TypeOK'
  BY <1>2 DEF Renew, RenewFails, Unlock, Abandon, Crash
<1>3. CASE Tick BY <1>3 DEF Tick, Holding
<1>4. CASE UNCHANGED vars BY <1>4 DEF vars
<1> QED BY <1>1, <1>2, <1>3, <1>4 DEF Next

\* Every step keeps what a holder relies on.
LEMMA NextHolder ==
    ASSUME Sound, IInv, [Next]_vars
    PROVE  (HolderOK /\ DueOK)'
<1> USE DEF Sound, IInv, TypeOK, HolderOK, DueOK, Goto
<1>1. ASSUME NEW i \in Instances, Start(i) PROVE (HolderOK /\ DueOK)'
  BY <1>1 DEF Start
<1>2. ASSUME NEW i \in Instances, Attempt(i) PROVE (HolderOK /\ DueOK)'
  <2>1. CASE InsertOk(i) BY <2>1 DEF InsertOk
  <2>2. CASE InsertFails(i) BY <2>2 DEF InsertFails
  <2>3. CASE Query(i) BY <2>3 DEF Query
  <2>4. CASE QueryFails(i) BY <2>4 DEF QueryFails
  <2>5. CASE DeleteStale(i) BY <2>5 DEF DeleteStale
  <2>6. CASE Retry(i) \/ GiveUp(i) BY <2>6 DEF Retry, GiveUp
  <2> QED BY <1>2, <2>1, <2>2, <2>3, <2>4, <2>5, <2>6 DEF Attempt
<1>3. ASSUME NEW i \in Instances, Renew(i) PROVE (HolderOK /\ DueOK)'
  BY <1>3 DEF Renew
<1>4. ASSUME NEW i \in Instances, RenewFails(i) PROVE (HolderOK /\ DueOK)'
  BY <1>4 DEF RenewFails
<1>5. ASSUME NEW i \in Instances, Unlock(i) PROVE (HolderOK /\ DueOK)'
  BY <1>5 DEF Unlock
<1>6. ASSUME NEW i \in Instances, Abandon(i) \/ Crash(i)
      PROVE  (HolderOK /\ DueOK)'
  BY <1>6 DEF Abandon, Crash
<1>7. CASE Tick BY <1>7 DEF Tick, Holding
<1>8. CASE UNCHANGED vars BY <1>8 DEF vars
<1> QED BY <1>1, <1>2, <1>3, <1>4, <1>5, <1>6, <1>7, <1>8 DEF Next

\* The inductive invariant holds in every reachable state.
THEOREM Inductive == ASSUME Sound PROVE Spec => []IInv
<1>1. IInv /\ [Next]_vars => IInv'
  BY NextTypes, NextHolder DEF IInv
<1> QED BY InitIInv, <1>1, PTL DEF Spec

\* Type correctness, and with it the bounds of ages, waits and lost renewals.
THEOREM TypeCorrect == ASSUME Sound PROVE Spec => []TypeOK
BY Inductive, PTL DEF IInv

\* At most one instance executes migrations.
THEOREM Exclusive == ASSUME Sound PROVE Spec => []MutualExclusion
<1>1. IInv => MutualExclusion
  BY DEF IInv, HolderOK, MutualExclusion, Holding
<1> QED BY Inductive, <1>1, PTL

\* The row of a holder is never old enough to be taken over.
THEOREM Fresh == ASSUME Sound PROVE Spec => []HolderIsFresh
<1>1. IInv => HolderIsFresh
  <2> SUFFICES ASSUME IInv, NEW i \in Instances, pc[i] = "holding"
               PROVE  row = i /\ age <= Stale /\ current = {}
    BY DEF HolderIsFresh, Holding
  <2>1. row = i /\ current = {} /\ age <= lost[i] + 1 BY DEF IInv, HolderOK
  <2>2. lost[i] \in 0..MaxLost /\ age \in 0..(Stale + 1) BY DEF IInv, TypeOK
  <2> QED BY <2>1, <2>2 DEF Sound
<1> QED BY Inductive, <1>1, PTL

\* tableLocker implements MigrationLock.
THEOREM Refinement == ASSUME Sound PROVE Spec => ImplementsLock
<1>1. Init => Abstract!Init
  BY DEF Init, Abstract!Init, Holding
<1>2. IInv /\ [Next]_vars => [Abstract!Next]_Holding
  <2> SUFFICES ASSUME IInv, [Next]_vars PROVE [Abstract!Next]_Holding
    OBVIOUS
  <2> USE DEF IInv, TypeOK, HolderOK, Holding, Goto, Abstract!Next, Abstract!Lock,
              Abstract!Leave
  <2>1. ASSUME NEW i \in Instances, InsertOk(i) PROVE Abstract!Lock(i)
    BY <2>1 DEF InsertOk
  <2>2. ASSUME NEW i \in Instances, Unlock(i) \/ Abandon(i) PROVE Abstract!Leave(i)
    BY <2>2 DEF Unlock, Abandon
  <2>3. ASSUME NEW i \in Instances,
               \/ Start(i) \/ InsertFails(i) \/ Query(i) \/ QueryFails(i)
               \/ DeleteStale(i) \/ Retry(i) \/ GiveUp(i) \/ Crash(i)
        PROVE  Holding' = Holding
    BY <2>3 DEF Start, InsertFails, Query, QueryFails, DeleteStale, Retry, GiveUp, Crash
  <2>4. ASSUME NEW i \in Instances, Renew(i) \/ RenewFails(i)
        PROVE  Holding' = Holding
    BY <2>4 DEF Renew, RenewFails
  <2>5. CASE Tick BY <2>5 DEF Tick
  <2>6. CASE UNCHANGED vars BY <2>6 DEF vars
  <2> QED BY <2>1, <2>2, <2>3, <2>4, <2>5, <2>6 DEF Next, Attempt
<1> QED BY Inductive, <1>1, <1>2, PTL DEF Spec, ImplementsLock, Abstract!Spec

----------------------------------------------------------------------------
(***************************************************************************)
(* advisoryLocker.                                                         *)
(***************************************************************************)

\* An instance whose session is alive and that migrates has the database lock.
OwnerOK == \A i \in Advisory!Holding : owner = i

AdvisoryInv == Advisory!TypeOK /\ OwnerOK

\* No step of an instance takes the database lock from another that holds it:
\* time-outs, pooled sessions and the end of a session release only what is
\* their own.
LEMMA AdvisoryStep ==
    ASSUME AdvisoryInv, [Advisory!Next]_advisoryVars
    PROVE  AdvisoryInv'
<1> USE LockersAssumption
    DEF Advisory!AdvisoryParameters, AdvisoryInv, OwnerOK, Advisory!TypeOK,
        Advisory!Holding, Advisory!Goto, Advisory!Released
<1>1. ASSUME NEW i \in Sessions, Advisory!Connect(i) PROVE AdvisoryInv'
  BY <1>1 DEF Advisory!Connect
<1>2. ASSUME NEW i \in Sessions, Advisory!Deadline(i) PROVE AdvisoryInv'
  BY <1>2 DEF Advisory!Deadline
<1>3. ASSUME NEW i \in Sessions, Advisory!LockOk(i) PROVE AdvisoryInv'
  BY <1>3 DEF Advisory!LockOk
<1>4. ASSUME NEW i \in Sessions, Advisory!LockTimesOut(i) PROVE AdvisoryInv'
  BY <1>4 DEF Advisory!LockTimesOut
<1>5. ASSUME NEW i \in Sessions, Advisory!LockCancelled(i) \/ Advisory!LockErrors(i)
      PROVE  AdvisoryInv'
  BY <1>5 DEF Advisory!LockCancelled, Advisory!LockErrors
<1>6. ASSUME NEW i \in Sessions, Advisory!LockTooLate(i) PROVE AdvisoryInv'
  BY <1>6 DEF Advisory!LockTooLate
<1>7. ASSUME NEW i \in Sessions, Advisory!Unlock(i) PROVE AdvisoryInv'
  BY <1>7 DEF Advisory!Unlock
<1>8. ASSUME NEW i \in Sessions, Advisory!UnlockFails(i) PROVE AdvisoryInv'
  BY <1>8 DEF Advisory!UnlockFails
<1>9. ASSUME NEW i \in Sessions, Advisory!Crash(i) PROVE AdvisoryInv'
  BY <1>9 DEF Advisory!Crash
<1>10. ASSUME NEW i \in Sessions, Advisory!SessionDies(i) PROVE AdvisoryInv'
  BY <1>10 DEF Advisory!SessionDies
<1>11. ASSUME NEW i \in Sessions, Advisory!PooledCloses(i) PROVE AdvisoryInv'
  BY <1>11 DEF Advisory!PooledCloses
<1>12. CASE UNCHANGED advisoryVars
  BY <1>12 DEF advisoryVars
<1> QED
  BY <1>1, <1>2, <1>3, <1>4, <1>5, <1>6, <1>7, <1>8, <1>9, <1>10, <1>11, <1>12
  DEF Advisory!Next

\* Seen from outside, an instance enters when nobody is inside, leaves, or does
\* nothing.
LEMMA AdvisoryRefines ==
    ASSUME AdvisoryInv, [Advisory!Next]_advisoryVars
    PROVE  [Advisory!Abstract!Next]_(Advisory!Holding)
<1> USE LockersAssumption
    DEF Advisory!AdvisoryParameters, AdvisoryInv, OwnerOK, Advisory!TypeOK,
        Advisory!Holding, Advisory!Goto, Advisory!Abstract!Next,
        Advisory!Abstract!Lock, Advisory!Abstract!Leave
<1>1. ASSUME NEW i \in Sessions, Advisory!LockOk(i)
      PROVE  Advisory!Abstract!Lock(i)
  BY <1>1 DEF Advisory!LockOk
<1>2. ASSUME NEW i \in Sessions,
             Advisory!Unlock(i) \/ Advisory!UnlockFails(i) \/ Advisory!Crash(i)
      PROVE  Advisory!Abstract!Leave(i) \/ UNCHANGED Advisory!Holding
  BY <1>2 DEF Advisory!Unlock, Advisory!UnlockFails, Advisory!Crash
<1>3. ASSUME NEW i \in Sessions, Advisory!SessionDies(i)
      PROVE  Advisory!Abstract!Leave(i) \/ UNCHANGED Advisory!Holding
  BY <1>3 DEF Advisory!SessionDies
<1>4. ASSUME NEW i \in Sessions,
             \/ Advisory!Connect(i) \/ Advisory!Deadline(i) \/ Advisory!LockTimesOut(i)
             \/ Advisory!LockCancelled(i) \/ Advisory!LockErrors(i)
             \/ Advisory!LockTooLate(i) \/ Advisory!PooledCloses(i)
      PROVE  UNCHANGED Advisory!Holding
  BY <1>4 DEF Advisory!Connect, Advisory!Deadline, Advisory!LockTimesOut,
              Advisory!LockCancelled, Advisory!LockErrors, Advisory!LockTooLate,
              Advisory!PooledCloses
<1>5. CASE UNCHANGED advisoryVars
  BY <1>5 DEF advisoryVars
<1> QED BY <1>1, <1>2, <1>3, <1>4, <1>5 DEF Advisory!Next

\* advisoryLocker implements MigrationLock, if the loss of a session counts as
\* leaving.
THEOREM AdvisoryIsALock == AllSpec => AdvisoryImplementsLock
<1>1. AllInit => AdvisoryInv /\ Advisory!Abstract!Init
  BY DEF AllInit, Advisory!Init, AdvisoryInv, OwnerOK, Advisory!TypeOK,
         Advisory!Holding, Advisory!Abstract!Init
<1>2. [AllNext]_<<vars, advisoryVars, runnerVars, part>> =>
        [Advisory!Next]_advisoryVars
  BY DEF AllNext
<1>3. AdvisoryInv /\ [Advisory!Next]_advisoryVars => AdvisoryInv'
  BY AdvisoryStep
<1>4. AdvisoryInv /\ [Advisory!Next]_advisoryVars =>
        [Advisory!Abstract!Next]_(Advisory!Holding)
  BY AdvisoryRefines
<1>5. AdvisoryInv => Advisory!TypeOK
  BY DEF AdvisoryInv
<1> QED
  BY <1>1, <1>2, <1>3, <1>4, <1>5, PTL
  DEF AllSpec, AdvisoryImplementsLock, Advisory!ImplementsLock, Advisory!Abstract!Spec

----------------------------------------------------------------------------
(***************************************************************************)
(* The migrations.                                                         *)
(***************************************************************************)

\* The instances that migrate are those that hold the lock, and that is one.
OneMigrates ==
    /\ holders = {i \in Runners : migratePc[i] # "idle"}
    /\ \A i, j \in holders : i = j

\* The versions recorded for a kind.
Recorded(k) == {a[2] : a \in {b \in applied : b[1] = k}}

\* They are versions, and one of them is the latest.
RecordedOK ==
    /\ applied \subseteq Runner!Kinds \X (Nat \ {0})
    /\ \A k \in Runner!Kinds :
         Recorded(k) # {} => \E v \in Recorded(k) : \A w \in Recorded(k) : w <= v

\* What an instance works on: the files of its image, the latest version as it
\* is recorded, since nobody else records one meanwhile, and a file that is newer.
WorkOK ==
    /\ migratePc \in [Runners -> {"idle", "plan", "scan", "exec", "record", "finish",
                                  "error", "unlock"}]
    /\ kind \in [Runners -> Runner!Kinds]
    /\ latest \in [Runners -> Nat]
    /\ DOMAIN left = Runners /\ DOMAIN file = Runners
    /\ \A i \in Runners : left[i] \subseteq DDLDir[i] \cup SeedDir[i]
    /\ \A i \in Runners : migratePc[i] \in {"scan", "exec", "record"} =>
         latest[i] = Runner!LatestVersion(kind[i])
    /\ \A i \in Runners : migratePc[i] \in {"exec", "record"} =>
         Runner!ResolveVersion(file[i]) \in Nat /\ Runner!ResolveVersion(file[i]) > latest[i]

RunnerInv == OneMigrates /\ RecordedOK /\ WorkOK

\* The latest version of a kind is at least as new as any that is recorded.
LEMMA LatestIsLast ==
    ASSUME RecordedOK, NEW k \in Runner!Kinds
    PROVE  /\ Runner!LatestVersion(k) \in Nat
           /\ \A v \in Recorded(k) : v \in Nat \ {0} /\ v <= Runner!LatestVersion(k)
<1>1. Recorded(k) \subseteq Nat \ {0}
  BY DEF Recorded, RecordedOK
<1>2. Runner!LatestVersion(k) =
        IF Recorded(k) = {} THEN 0
        ELSE CHOOSE v \in Recorded(k) : \A w \in Recorded(k) : w <= v
  BY DEF Runner!LatestVersion, Recorded
<1>3. CASE Recorded(k) = {}
  BY <1>2, <1>3
<1>4. CASE Recorded(k) # {}
  <2>1. \E v \in Recorded(k) : \A w \in Recorded(k) : w <= v
    BY <1>4 DEF RecordedOK
  <2> QED BY <1>1, <1>2, <1>4, <2>1
<1> QED BY <1>3, <1>4

\* The files an instance loads are of its image, and their versions are numbers
\* other than 0.
LEMMA LoadedFiles ==
    ASSUME NEW i \in Runners, NEW k \in Runner!Kinds
    PROVE  \A f \in Runner!Files(i, k) :
             f \in DDLDir[i] \cup SeedDir[i] /\ Runner!ResolveVersion(f) \in Nat \ {0}
BY LockersAssumption
DEF Runner!MigrateParameters, Runner!Files, Runner!LoadMigrationFiles, Runner!Kinds

\* An instance enters when nobody migrates, and forgets everything at its end.
LEMMA OneMigratesStep ==
    ASSUME OneMigrates, WorkOK, [Runner!Next]_runnerVars
    PROVE  OneMigrates'
<1> USE DEF OneMigrates, WorkOK, Runner!Goto
<1>1. ASSUME NEW i \in Runners, Runner!Acquire(i) PROVE OneMigrates'
  BY <1>1 DEF Runner!Acquire, Runner!Lock!Lock
<1>2. ASSUME NEW i \in Runners, Runner!Release(i) \/ Runner!Crash(i) PROVE OneMigrates'
  BY <1>2 DEF Runner!Release, Runner!Crash, Runner!Lock!Leave
<1>3. ASSUME NEW i \in Runners, holders' = holders, migratePc[i] # "idle",
             \E l \in {"plan", "scan", "exec", "record", "finish", "error", "unlock"} :
               migratePc' = [migratePc EXCEPT ![i] = l]
      PROVE  OneMigrates'
  BY <1>3
<1>4. ASSUME NEW i \in Runners, Runner!Plan(i) PROVE OneMigrates'
  BY <1>3, <1>4 DEF Runner!Plan
<1>5. ASSUME NEW i \in Runners, Runner!PlanFails(i) \/ Runner!ExecFails(i) PROVE OneMigrates'
  BY <1>3, <1>5 DEF Runner!PlanFails, Runner!ExecFails
<1>6. ASSUME NEW i \in Runners, Runner!Scan(i) PROVE OneMigrates'
  BY <1>3, <1>6 DEF Runner!Scan
<1>7. ASSUME NEW i \in Runners, Runner!ExecStmt(i) PROVE OneMigrates'
  BY <1>7 DEF Runner!ExecStmt
<1>8. ASSUME NEW i \in Runners, Runner!ExecDuplicate(i) PROVE OneMigrates'
  BY <1>3, <1>8 DEF Runner!ExecDuplicate
<1>9. ASSUME NEW i \in Runners, Runner!ExecDone(i) \/ Runner!Record(i) PROVE OneMigrates'
  BY <1>3, <1>9 DEF Runner!ExecDone, Runner!Record
<1>10. ASSUME NEW i \in Runners, Runner!Finish(i) PROVE OneMigrates'
  BY <1>3, <1>10 DEF Runner!Finish
<1>11. CASE UNCHANGED runnerVars
  BY <1>11 DEF runnerVars
<1> QED
  BY <1>1, <1>2, <1>4, <1>5, <1>6, <1>7, <1>8, <1>9, <1>10, <1>11 DEF Runner!Next

\* A version that is recorded is newer than those of its kind, and is the latest
\* from then on.
LEMMA RecordedIsNewest ==
    ASSUME RecordedOK, WorkOK, NEW i \in Runners, Runner!Record(i)
    PROVE  LET v == Runner!ResolveVersion(file[i]) IN
           /\ v \in Nat \ {0}
           /\ \A w \in Recorded(kind[i]) : w < v
           /\ applied' = applied \cup {<<kind[i], v>>}
           /\ Recorded(kind[i])' = Recorded(kind[i]) \cup {v}
           /\ Runner!LatestVersion(kind[i])' = v
<1> DEFINE v == Runner!ResolveVersion(file[i])
           k == kind[i]
<1>1. k \in Runner!Kinds /\ latest[i] = Runner!LatestVersion(k) /\ v \in Nat /\ v > latest[i]
  BY DEF WorkOK, Runner!Record
<1>2. applied' = applied \cup {<<k, v>>} /\ kind' = kind
  BY DEF Runner!Record
<1>3. v \in Nat \ {0} /\ \A w \in Recorded(k) : w \in Nat /\ w < v
  BY <1>1, LatestIsLast
<1>4. Recorded(k)' = Recorded(k) \cup {v}
  <2>1. \A u : u \in Recorded(k)' <=> \E b \in applied' : b[1] = k /\ b[2] = u
    BY <1>2 DEF Recorded
  <2>2. \A u : u \in Recorded(k) <=> \E b \in applied : b[1] = k /\ b[2] = u
    BY DEF Recorded
  <2> HIDE DEF v, k
  <2>3. <<k, v>>[1] = k /\ <<k, v>>[2] = v
    OBVIOUS
  <2> QED BY <1>2, <2>1, <2>2, <2>3
<1>5. Runner!LatestVersion(k)' = v
  <2>1. Runner!LatestVersion(k)' =
          IF Recorded(k)' = {} THEN 0
          ELSE CHOOSE u \in Recorded(k)' : \A w \in Recorded(k)' : w <= u
    BY DEF Runner!LatestVersion, Recorded
  <2> HIDE DEF v, k
  <2>2. \A u \in Recorded(k)' : (\A w \in Recorded(k)' : w <= u) <=> u = v
    BY <1>3, <1>4
  <2> QED BY <1>4, <2>1, <2>2
<1> QED BY <1>2, <1>3, <1>4, <1>5

\* A step keeps what is recorded in order.
LEMMA RecordedStep ==
    ASSUME RecordedOK, WorkOK, [Runner!Next]_runnerVars
    PROVE  RecordedOK'
<1>1. ASSUME UNCHANGED applied PROVE RecordedOK'
  BY <1>1 DEF RecordedOK, Recorded
<1>2. ASSUME NEW i \in Runners, Runner!Record(i) PROVE RecordedOK'
  <2> DEFINE v == Runner!ResolveVersion(file[i])
  <2>1. /\ v \in Nat \ {0} /\ \A w \in Recorded(kind[i]) : w < v
        /\ applied' = applied \cup {<<kind[i], v>>}
        /\ Recorded(kind[i])' = Recorded(kind[i]) \cup {v}
    BY <1>2, RecordedIsNewest
  <2>2. kind' = kind /\ kind[i] \in Runner!Kinds
    BY <1>2 DEF Runner!Record, WorkOK
  <2>3. \A k \in Runner!Kinds : k # kind[i] => Recorded(k)' = Recorded(k)
    BY <2>1 DEF Recorded
  <2>4. Recorded(kind[i]) \subseteq Nat
    BY <2>2 DEF Recorded, RecordedOK
  <2> HIDE DEF v
  <2>5. \A w \in Recorded(kind[i])' : w <= v
    BY <2>1, <2>4
  <2> QED BY <2>1, <2>2, <2>3, <2>5 DEF RecordedOK
<1> QED BY <1>1, <1>2
  DEF Runner!Next, runnerVars, Runner!Acquire, Runner!Plan, Runner!PlanFails, Runner!Scan,
      Runner!ExecStmt, Runner!ExecDuplicate, Runner!ExecFails, Runner!ExecDone,
      Runner!Finish, Runner!Release, Runner!Crash

\* Whoever records a version is alone, so the others' latest version stays right.
LEMMA WorkStep ==
    ASSUME RunnerInv, [Runner!Next]_runnerVars
    PROVE  WorkOK'
<1> USE DEF RunnerInv, OneMigrates, WorkOK, Runner!Goto
<1>0. ASSUME UNCHANGED applied, NEW k PROVE Runner!LatestVersion(k)' = Runner!LatestVersion(k)
  BY <1>0 DEF Runner!LatestVersion
<1>a. \A k \in Runner!Kinds : Runner!LatestVersion(k) \in Nat
  BY LatestIsLast
<1>1. ASSUME NEW i \in Runners, Runner!Acquire(i) PROVE WorkOK'
  BY <1>0, <1>1 DEF Runner!Acquire
<1>2. ASSUME NEW i \in Runners, Runner!Plan(i) PROVE WorkOK'
  <2>1. /\ latest' = [latest EXCEPT ![i] = Runner!LatestVersion(kind[i])]
        /\ left' = [left EXCEPT ![i] = Runner!Files(i, kind[i])]
        /\ UNCHANGED <<applied, kind>>
    BY <1>2 DEF Runner!Plan
  <2>2. \/ /\ \E l \in {"finish", "error", "scan"} : migratePc' = [migratePc EXCEPT ![i] = l]
           /\ UNCHANGED file
        \/ /\ Runner!LatestVersion(kind[i]) = 0
           /\ migratePc' = [migratePc EXCEPT ![i] = "exec"]
           /\ \E f \in Runner!Files(i, kind[i]) : file' = [file EXCEPT ![i] = f]
    BY <1>2 DEF Runner!Plan, Runner!Baselines
  <2>3. \A f \in Runner!Files(i, kind[i]) :
          f \in DDLDir[i] \cup SeedDir[i] /\ Runner!ResolveVersion(f) \in Nat \ {0}
    BY LoadedFiles
  <2>4. latest'[i] = Runner!LatestVersion(kind[i])
    BY <2>1
  <2>5. latest' \in [Runners -> Nat] /\ \A j \in Runners : left'[j] \subseteq DDLDir[j] \cup SeedDir[j]
    BY <1>a, <2>1, <2>3
  <2>6. \A j \in Runners : migratePc'[j] \in {"exec", "record"} =>
          Runner!ResolveVersion(file'[j]) \in Nat /\ Runner!ResolveVersion(file'[j]) > latest'[j]
    BY <2>1, <2>2, <2>3
  <2>7. \A j \in Runners : migratePc'[j] \in {"scan", "exec", "record"} =>
          latest'[j] = Runner!LatestVersion(kind[j])'
    <3>1. \A j \in Runners \ {i} : migratePc'[j] = migratePc[j] /\ latest'[j] = latest[j]
      BY <2>1, <2>2
    <3>2. \A j \in Runners : Runner!LatestVersion(kind[j])' = Runner!LatestVersion(kind[j])
      BY <2>1 DEF Runner!LatestVersion
    <3> QED BY <2>1, <2>4, <3>1, <3>2
  <2>8. /\ migratePc' \in [Runners -> {"idle", "plan", "scan", "exec", "record", "finish",
                                       "error", "unlock"}]
        /\ DOMAIN left' = Runners /\ DOMAIN file' = Runners /\ kind' \in [Runners -> Runner!Kinds]
    BY <2>1, <2>2
  <2> QED BY <2>5, <2>6, <2>7, <2>8
<1>3. ASSUME NEW i \in Runners, Runner!PlanFails(i) \/ Runner!ExecFails(i) PROVE WorkOK'
  BY <1>0, <1>3 DEF Runner!PlanFails, Runner!ExecFails
<1>4. ASSUME NEW i \in Runners, Runner!Scan(i) PROVE WorkOK'
  <2>1. \A f \in left[i] : Runner!ResolveVersion(f) \in Nat
    BY LockersAssumption DEF Runner!MigrateParameters
  <2>2. /\ migratePc[i] = "scan" /\ UNCHANGED <<applied, kind, latest>>
        /\ DOMAIN left' = Runners /\ \A j \in Runners : left'[j] \subseteq left[j]
    BY <1>4 DEF Runner!Scan
  <2>3. \/ /\ \E l \in {"finish", "scan"} : migratePc' = [migratePc EXCEPT ![i] = l]
           /\ UNCHANGED file
        \/ /\ migratePc' = [migratePc EXCEPT ![i] = "exec"]
           /\ \E f \in left[i] : /\ file' = [file EXCEPT ![i] = f]
                                /\ ~(Runner!ResolveVersion(f) <= latest[i])
    BY ZenonT(60), <1>4 DEF Runner!Scan, Runner!Skipped
  <2>4. \A j \in Runners : migratePc'[j] \in {"exec", "record"} =>
          Runner!ResolveVersion(file'[j]) \in Nat /\ Runner!ResolveVersion(file'[j]) > latest'[j]
    BY <2>1, <2>2, <2>3
  <2>5. \A j \in Runners : migratePc'[j] \in {"scan", "exec", "record"} =>
          latest'[j] = Runner!LatestVersion(kind[j])'
    BY <1>0, <2>2, <2>3
  <2> QED BY <2>2, <2>3, <2>4, <2>5
<1>5. ASSUME NEW i \in Runners, Runner!ExecStmt(i) PROVE WorkOK'
  BY <1>0, <1>5 DEF Runner!ExecStmt
<1>6. ASSUME NEW i \in Runners, Runner!ExecDuplicate(i) PROVE WorkOK'
  BY <1>0, <1>6 DEF Runner!ExecDuplicate
<1>7. ASSUME NEW i \in Runners, Runner!ExecDone(i) PROVE WorkOK'
  BY <1>0, <1>7 DEF Runner!ExecDone
<1>8. ASSUME NEW i \in Runners, Runner!Record(i) PROVE WorkOK'
  <2>1. /\ Runner!ResolveVersion(file[i]) \in Nat
        /\ Runner!LatestVersion(kind[i])' = Runner!ResolveVersion(file[i])
    BY <1>8, RecordedIsNewest
  <2>2. \A j \in Runners \ {i} : migratePc[j] = "idle"
    BY <1>8 DEF Runner!Record
  <2> QED BY <1>8, <2>1, <2>2 DEF Runner!Record
<1>9. ASSUME NEW i \in Runners, Runner!Finish(i) PROVE WorkOK'
  BY <1>0, <1>9 DEF Runner!Finish, Runner!Kinds
<1>10. ASSUME NEW i \in Runners, Runner!Release(i) \/ Runner!Crash(i) PROVE WorkOK'
  BY <1>0, <1>10 DEF Runner!Release, Runner!Crash, Runner!Forget, Runner!Kinds
<1>11. CASE UNCHANGED runnerVars
  BY <1>0, <1>11 DEF runnerVars
<1> QED
  BY <1>1, <1>2, <1>3, <1>4, <1>5, <1>6, <1>7, <1>8, <1>9, <1>10, <1>11 DEF Runner!Next

LEMMA RunnerStep ==
    ASSUME RunnerInv, [Runner!Next]_runnerVars
    PROVE  RunnerInv'
BY OneMigratesStep, RecordedStep, WorkStep DEF RunnerInv

LEMMA RunnerInit == Runner!Init => RunnerInv
BY DEF Runner!Init, Runner!Lock!Init, RunnerInv, OneMigrates, RecordedOK, Recorded, WorkOK,
       Runner!Kinds

\* Across crashes, failures and restarts of instances of any releases, a version
\* is recorded only if it is newer than those of its kind.
THEOREM VersionsAscend == AllSpec => AppliedInOrder
<1>1. AllInit => RunnerInv
  BY RunnerInit DEF AllInit
<1>2. [AllNext]_<<vars, advisoryVars, runnerVars, part>> => [Runner!Next]_runnerVars
  BY DEF AllNext
<1>3. RunnerInv /\ [Runner!Next]_runnerVars => RunnerInv'
  BY RunnerStep
<1>4. ASSUME RunnerInv, [Runner!Next]_runnerVars
      PROVE  [\A a \in applied' \ applied : \A b \in applied :
                a[1] = b[1] => b[2] < a[2]]_(Runner!vars)
  <2>1. ASSUME NEW i \in Runners, Runner!Record(i), NEW a \in applied' \ applied,
               NEW b \in applied, a[1] = b[1]
        PROVE  b[2] < a[2]
    <3>1. /\ applied' = applied \cup {<<kind[i], Runner!ResolveVersion(file[i])>>}
          /\ \A w \in Recorded(kind[i]) : w < Runner!ResolveVersion(file[i])
      BY <1>4, <2>1, RecordedIsNewest DEF RunnerInv
    <3>2. a = <<kind[i], Runner!ResolveVersion(file[i])>>
      BY <2>1, <3>1
    <3>3. b[2] \in Recorded(kind[i])
      BY <2>1, <3>2 DEF Recorded
    <3> QED BY <3>1, <3>2, <3>3
  <2>2. CASE UNCHANGED applied
    BY <2>2
  <2> QED BY <1>4, <2>1, <2>2
  DEF Runner!Next, runnerVars, Runner!Acquire, Runner!Plan, Runner!PlanFails, Runner!Scan,
      Runner!ExecStmt, Runner!ExecDuplicate, Runner!ExecFails, Runner!ExecDone,
      Runner!Finish, Runner!Release, Runner!Crash
<1> QED BY <1>1, <1>2, <1>3, <1>4, PTL DEF AllSpec, AppliedInOrder, Runner!AppliedInOrder
----------------------------------------------------------------------------
(***************************************************************************)
(* What is recorded exists.                                                *)
(***************************************************************************)
Latest == Runner!LatestVersion("ddl")

\* What exists besides the seeds and what is being made.
Base == Leftover \cup Runner!Schema(Latest)

\* What the statements before the next one create.
Made(i) == {file[i].creates[n] : n \in {m \in DOMAIN file[i].creates : m < stmt[i]}}

\* The files of an increment's release that its loop has passed, up to version v.
Passed(i, v) ==
    \A f \in Runner!Files(i, "ddl") :
        f.baseline \/ f \in left[i] \/ Runner!ResolveVersion(f) <= v

\* The files an instance still has to do are those it loaded.
LoadedOK(i) ==
    /\ migratePc[i] \in {"scan", "exec", "record"} => left[i] \subseteq Runner!Files(i, kind[i])
    /\ migratePc[i] \in {"exec", "record"} =>
         file[i] \in Runner!Files(i, kind[i]) /\ stmt[i] \in Nat \ {0}

\* The DDL file it executes follows the latest version, and none is left out.
FollowsOK(i) ==
    kind[i] = "ddl" =>
        /\ migratePc[i] = "scan" => latest[i] # 0 /\ Passed(i, latest[i])
        /\ migratePc[i] \in {"exec", "record"} =>
             /\ Runner!Follows(i, file[i], latest[i])
             /\ Passed(i, Runner!ResolveVersion(file[i]))

\* A rollback takes back what the file has made, and nothing else.
UndoOK(i) ==
    /\ undo[i] \cap Base = {}
    /\ undo[i] # {} => migratePc[i] \in {"exec", "record"}
    /\ migratePc[i] \in {"exec", "record"} =>
         undo[i] \subseteq (IF kind[i] = "ddl" THEN Runner!Range(file[i].creates)
                            ELSE Runner!SeedObjects)

\* The statements before the next one have taken effect; at the end the version
\* of the file exists.
EffectOK(i) ==
    kind[i] = "ddl" =>
        /\ migratePc[i] = "exec" => Made(i) \subseteq objects /\ undo[i] \subseteq Made(i)
        /\ migratePc[i] = "record" => Runner!Schema(Runner!ResolveVersion(file[i])) \subseteq objects

\* An instance that is through with its DDL finds all of it in the latest version.
DoneOK(i) ==
    kind[i] = "seed" \/ migratePc[i] = "finish" =>
        \A f \in Runner!Files(i, "ddl") : Runner!Range(f.creates) \subseteq Runner!Schema(Latest)

\* What exists is recorded, left over, inserted by seeds or being made.
ObjectsOK ==
    /\ Base \subseteq objects
    /\ \A o \in objects : o \in Base \cup Runner!SeedObjects \/ \E i \in Runners : o \in undo[i]
    /\ Recorded("ddl") \subseteq Runner!DDLVersions

InstanceOK(i) == LoadedOK(i) /\ FollowsOK(i) /\ UndoOK(i) /\ EffectOK(i) /\ DoneOK(i)

SchemaInv ==
    /\ ObjectsOK
    /\ DOMAIN stmt = Runners /\ DOMAIN undo = Runners
    /\ \A i \in Runners : InstanceOK(i)

\* Versions of files are numbers, and a schema grows with the version.
LEMMA SchemaGrows ==
    ASSUME NEW u \in Nat, NEW v \in Nat, u <= v
    PROVE  Runner!Schema(u) \subseteq Runner!Schema(v)
<1>1. \A f \in Runner!DDLFiles : Runner!ResolveVersion(f) \in Nat
  BY LoadedFiles DEF Runner!DDLFiles, Runner!Kinds
<1>2. {f \in Runner!DDLFiles : Runner!ResolveVersion(f) <= u}
        \subseteq {f \in Runner!DDLFiles : Runner!ResolveVersion(f) <= v}
  BY <1>1
<1> QED BY <1>2 DEF Runner!Schema

\* A file is of the schema of its version.
LEMMA FileInSchema ==
    ASSUME NEW i \in Runners, NEW f \in Runner!Files(i, "ddl"), NEW v,
           Runner!ResolveVersion(f) <= v
    PROVE  /\ f \in Runner!DDLFiles /\ Runner!ResolveVersion(f) \in Runner!DDLVersions
           /\ Runner!Range(f.creates) \subseteq Runner!Schema(v)
<1>1. f \in Runner!DDLFiles
  BY DEF Runner!DDLFiles
<1> QED BY <1>1 DEF Runner!DDLVersions, Runner!Schema

\* A file is a sequence of what it creates.
LEMMA FileCreates ==
    ASSUME NEW i \in Runners, NEW k \in Runner!Kinds, NEW f \in Runner!Files(i, k)
    PROVE  /\ f.creates \in Seq(Runner!Range(f.creates))
           /\ DOMAIN f.creates = 1..Len(f.creates) /\ Len(f.creates) \in Nat
           /\ \A n \in DOMAIN f.creates : f.creates[n] \in Runner!Range(f.creates)
<1>1. f.creates \in Seq(Runner!Range(f.creates))
  BY LoadedFiles, LockersAssumption DEF Runner!MigrateParameters
<1> QED BY <1>1 DEF Runner!Range

\* The latest version is 0 or the version of a file, and a recorded file exists.
LEMMA LatestFacts ==
    ASSUME RecordedOK, ObjectsOK
    PROVE  /\ Latest \in Nat /\ Latest \in {0} \cup Runner!DDLVersions
           /\ \A v \in Recorded("ddl") : v \in Nat /\ v <= Latest
<1>1. Latest \in Nat /\ \A v \in Recorded("ddl") : v \in Nat /\ v <= Latest
  BY LatestIsLast DEF Latest, Runner!Kinds
<1>2. Latest \in {0} \cup Recorded("ddl")
  <2>1. Latest = IF Recorded("ddl") = {} THEN 0
                 ELSE CHOOSE v \in Recorded("ddl") : \A w \in Recorded("ddl") : w <= v
    BY DEF Latest, Runner!LatestVersion, Recorded
  <2>2. Recorded("ddl") # {} => \E v \in Recorded("ddl") : \A w \in Recorded("ddl") : w <= v
    BY DEF RecordedOK, Runner!Kinds
  <2> QED BY <2>1, <2>2
<1> QED BY <1>1, <1>2 DEF ObjectsOK

\* What is checked follows.
LEMMA SchemaIsThere ==
    ASSUME RecordedOK, SchemaInv, NEW i \in Runners, NEW f \in Runner!Files(i, "ddl"),
           kind[i] = "seed" \/ <<"ddl", Runner!ResolveVersion(f)>> \in applied
    PROVE  Runner!Range(f.creates) \subseteq objects
<1>1. Runner!Schema(Latest) \subseteq objects
  BY DEF SchemaInv, ObjectsOK, Base
<1>2. CASE kind[i] = "seed"
  BY <1>1, <1>2 DEF SchemaInv, InstanceOK, DoneOK
<1>3. CASE <<"ddl", Runner!ResolveVersion(f)>> \in applied
  <2>1. Runner!ResolveVersion(f) \in Recorded("ddl")
    BY <1>3 DEF Recorded
  <2>2. Runner!ResolveVersion(f) <= Latest
    BY <2>1, LatestFacts DEF SchemaInv
  <2> QED BY <1>1, <2>2, FileInSchema
<1> QED BY <1>2, <1>3

\* Nobody else has work under way.
LEMMA OthersIdle ==
    ASSUME RunnerInv, SchemaInv, NEW i \in Runners, migratePc[i] # "idle",
           NEW j \in Runners, j # i
    PROVE  migratePc[j] = "idle" /\ undo[j] = {}
<1>1. migratePc[j] = "idle"
  BY DEF RunnerInv, OneMigrates
<1> QED BY <1>1 DEF SchemaInv, InstanceOK, UndoOK

\* A step of one instance leaves the others as they are, as long as the recorded
\* schema only grows.
LEMMA OthersKept ==
    ASSUME RunnerInv, SchemaInv, NEW i \in Runners, migratePc[i] # "idle",
           NEW j \in Runners, j # i,
           migratePc'[j] = migratePc[j], kind'[j] = kind[j], undo'[j] = undo[j],
           Runner!Schema(Latest) \subseteq Runner!Schema(Latest)'
    PROVE  InstanceOK(j)'
<1>1. migratePc'[j] = "idle" /\ undo'[j] = {}
  BY OthersIdle
<1>2. LoadedOK(j)' /\ FollowsOK(j)' /\ UndoOK(j)' /\ EffectOK(j)'
  BY <1>1 DEF LoadedOK, FollowsOK, UndoOK, EffectOK
<1>3. DoneOK(j)'
  BY <1>1 DEF SchemaInv, InstanceOK, DoneOK
<1> QED BY <1>2, <1>3 DEF InstanceOK

\* What is recorded stays, and so do the latest version and its schema.
LEMMA BaseKept ==
    ASSUME applied' = applied
    PROVE  /\ Latest' = Latest /\ Base' = Base /\ Recorded("ddl")' = Recorded("ddl")
           /\ Runner!Schema(Latest)' = Runner!Schema(Latest)
BY DEF Latest, Runner!LatestVersion, Base, Recorded

----------------------------------------------------------------------------
\* A step that executes nothing keeps what exists.
LEMMA ObjectsKept ==
    ASSUME ObjectsOK, UNCHANGED <<applied, objects, undo>>
    PROVE  ObjectsOK'
BY BaseKept DEF ObjectsOK

\* Getting the lock, and returning with or without an error.
LEMMA QuietSteps ==
    ASSUME RunnerInv, SchemaInv, NEW i \in Runners,
           Runner!Acquire(i) \/ Runner!PlanFails(i) \/ Runner!Finish(i) \/ Runner!Release(i)
    PROVE  SchemaInv'
<1> USE DEF Runner!Goto
<1>1. UNCHANGED <<applied, objects, undo>>
  BY DEF Runner!Acquire, Runner!PlanFails, Runner!Finish, Runner!Release
<1>2. /\ \A j \in Runners : j # i => migratePc'[j] = migratePc[j]
      /\ migratePc'[i] \in {"plan", "error", "unlock", "idle"}
      /\ migratePc[i] \in {"idle", "plan", "scan", "finish", "error", "unlock"}
  BY DEF RunnerInv, WorkOK, Runner!Acquire, Runner!PlanFails, Runner!Finish, Runner!Release
<1>3. /\ \A j \in Runners : j # i => kind'[j] = kind[j]
      /\ kind'[i] = "seed" => kind[i] = "seed" \/ migratePc[i] = "finish"
  BY DEF RunnerInv, WorkOK, Runner!Acquire, Runner!PlanFails, Runner!Finish, Runner!Release, Runner!Forget
<1>4. /\ Runner!Schema(Latest)' = Runner!Schema(Latest) /\ Base' = Base
  BY <1>1, BaseKept
<1>5. InstanceOK(i)'
  BY <1>1, <1>2, <1>3, <1>4
  DEF SchemaInv, InstanceOK, LoadedOK, FollowsOK, UndoOK, EffectOK, DoneOK
<1>6. ASSUME NEW j \in Runners, j # i PROVE InstanceOK(j)'
  <2>1. migratePc'[j] = migratePc[j] /\ kind'[j] = kind[j] /\ undo'[j] = undo[j]
    BY <1>1, <1>2, <1>3, <1>6
  <2>2. CASE migratePc[i] # "idle"
    BY <1>4, <1>6, <2>1, <2>2, OthersKept
  <2>3. CASE migratePc[i] = "idle"
    <3>1. Runner!Acquire(i)
      BY <2>3 DEF Runner!PlanFails, Runner!Finish, Runner!Release
    <3>2. migratePc[j] = "idle"
      BY <3>1 DEF Runner!Acquire, Runner!Lock!Lock, RunnerInv, OneMigrates
    <3> QED BY <1>4, <2>1, <3>2
        DEF SchemaInv, InstanceOK, LoadedOK, FollowsOK, UndoOK, EffectOK, DoneOK
  <2> QED BY <2>2, <2>3
<1>7. ObjectsOK'
  BY <1>1, ObjectsKept DEF SchemaInv
<1>8. DOMAIN stmt' = Runners /\ DOMAIN undo' = Runners
  BY <1>1 DEF SchemaInv, Runner!Acquire, Runner!PlanFails, Runner!Finish, Runner!Release, Runner!Forget
<1> QED BY <1>5, <1>6, <1>7, <1>8 DEF SchemaInv

\* Choosing the baseline, or starting the loop.
LEMMA PlanStep ==
    ASSUME RunnerInv, SchemaInv, NEW i \in Runners, Runner!Plan(i)
    PROVE  SchemaInv'
<1> USE DEF Runner!Goto
<1>1. /\ migratePc[i] = "plan" /\ UNCHANGED <<applied, objects, undo, kind>>
      /\ latest' = [latest EXCEPT ![i] = Runner!LatestVersion(kind[i])]
      /\ left' = [left EXCEPT ![i] = Runner!Files(i, kind[i])]
  BY DEF Runner!Plan
<1>2. \/ /\ Runner!Files(i, kind[i]) = {} /\ migratePc' = [migratePc EXCEPT ![i] = "finish"]
         /\ UNCHANGED <<file, stmt>>
      \/ migratePc' = [migratePc EXCEPT ![i] = "error"] /\ UNCHANGED <<file, stmt>>
      \/ /\ Runner!LatestVersion(kind[i]) = 0
         /\ migratePc' = [migratePc EXCEPT ![i] = "exec"]
         /\ stmt' = [stmt EXCEPT ![i] = 1]
         /\ \E f \in Runner!Files(i, kind[i]) : f.baseline /\ file' = [file EXCEPT ![i] = f]
      \/ /\ Runner!LatestVersion(kind[i]) # 0 /\ migratePc' = [migratePc EXCEPT ![i] = "scan"]
         /\ UNCHANGED <<file, stmt>>
  BY DEF Runner!Plan, Runner!Baselines
<1>3. DOMAIN migratePc = Runners /\ DOMAIN stmt = Runners /\ DOMAIN file = Runners
      /\ DOMAIN left = Runners /\ DOMAIN latest = Runners /\ kind[i] \in {"ddl", "seed"}
  BY DEF RunnerInv, WorkOK, SchemaInv, Runner!Kinds
<1>4. /\ Runner!Schema(Latest)' = Runner!Schema(Latest) /\ Base' = Base
  BY <1>1, BaseKept
<1>5. undo[i] = {}
  BY <1>1 DEF SchemaInv, InstanceOK, UndoOK
<1>6. LoadedOK(i)'
  BY <1>1, <1>2, <1>3 DEF LoadedOK
<1>7. FollowsOK(i)'
  BY <1>1, <1>2, <1>3 DEF FollowsOK, Passed, Runner!Follows
<1>8. UndoOK(i)'
  BY <1>1, <1>5 DEF UndoOK
<1>9. EffectOK(i)'
  <2>1. CASE migratePc'[i] = "exec"
    <3>1. /\ file'[i] \in Runner!Files(i, kind[i]) /\ stmt'[i] = 1
      BY <1>2, <1>3, <2>1
    <3>2. \A m \in DOMAIN file'[i].creates : ~(m < 1)
      BY <3>1, <1>3, FileCreates DEF Runner!Kinds
    <3>3. Made(i)' = {}
      BY <3>1, <3>2 DEF Made
    <3> QED BY <1>1, <1>5, <2>1, <3>3 DEF EffectOK
  <2>2. CASE migratePc'[i] # "exec"
    BY <1>2, <1>3, <2>2 DEF EffectOK
  <2> QED BY <2>1, <2>2
<1>10. DoneOK(i)'
  BY <1>1, <1>2, <1>3, <1>4 DEF SchemaInv, InstanceOK, DoneOK
<1>11. ASSUME NEW j \in Runners, j # i PROVE InstanceOK(j)'
  BY <1>1, <1>2, <1>3, <1>4, <1>11, OthersKept
<1>12. ObjectsOK'
  BY <1>1, ObjectsKept DEF SchemaInv
<1>13. DOMAIN stmt' = Runners /\ DOMAIN undo' = Runners
  BY <1>1, <1>2 DEF SchemaInv
<1> QED BY <1>6, <1>7, <1>8, <1>9, <1>10, <1>11, <1>12, <1>13 DEF SchemaInv, InstanceOK

\* At the end of the loop the increments are behind, and so is the baseline.
LEMMA AllBehind ==
    ASSUME Runner!FilesAgree, RunnerInv, ObjectsOK, NEW i \in Runners, kind[i] = "ddl",
           migratePc[i] = "scan", FollowsOK(i), left[i] = {}
    PROVE  \A f \in Runner!Files(i, "ddl") : Runner!Range(f.creates) \subseteq Runner!Schema(Latest)
<1>1. latest[i] = Latest /\ Latest # 0
  BY DEF RunnerInv, WorkOK, Latest, FollowsOK
<1>2. Latest \in Nat /\ Latest \in Runner!DDLVersions
  BY <1>1, LatestFacts DEF RunnerInv
<1>3. \A f \in Runner!Files(i, "ddl") : f.baseline \/ Runner!ResolveVersion(f) <= Latest
  BY <1>1 DEF FollowsOK, Passed
<1>4. ASSUME NEW f \in Runner!Files(i, "ddl")
      PROVE  Runner!Range(f.creates) \subseteq Runner!Schema(Latest)
  <2>1. CASE Runner!ResolveVersion(f) <= Latest
    BY <2>1, FileInSchema
  <2>2. CASE f.baseline
    <3>1. Runner!Schema(Runner!ResolveVersion(f)) \subseteq Runner!Schema(Latest)
      BY <1>1, <1>2, <1>3, <2>2 DEF Runner!FilesAgree, Runner!ReleasesAgree
    <3>2. Runner!ResolveVersion(f) \in Nat
      BY LoadedFiles DEF Runner!Kinds
    <3>3. Runner!Range(f.creates) \subseteq Runner!Schema(Runner!ResolveVersion(f))
      BY <3>2, FileInSchema
    <3> QED BY <3>1, <3>3
  <2> QED BY <1>3, <2>1, <2>2
<1> QED BY <1>4

\* The first file of the loop that is not behind is the one that follows.
LEMMA FirstFollows ==
    ASSUME RunnerInv, NEW i \in Runners, kind[i] = "ddl", migratePc[i] = "scan",
           LoadedOK(i), FollowsOK(i), NEW f \in left[i],
           \A g \in left[i] \ {f} : Runner!Before(f, g),
           ~Runner!Skipped(i, f)
    PROVE  /\ Runner!Follows(i, f, latest[i])
           /\ \A g \in Runner!Files(i, "ddl") :
                g.baseline \/ g \in left[i] \ {f}
                \/ Runner!ResolveVersion(g) <= Runner!ResolveVersion(f)
<1>1. latest[i] # 0 /\ Passed(i, latest[i]) /\ latest[i] \in Nat
  BY DEF FollowsOK, RunnerInv, WorkOK
<1>2. f \in Runner!Files(i, "ddl") /\ ~f.baseline /\ ~(Runner!ResolveVersion(f) <= latest[i])
  BY DEF LoadedOK, Runner!Skipped
<1>3. \A g \in Runner!Files(i, "ddl") : Runner!ResolveVersion(g) \in Nat
  BY LoadedFiles DEF Runner!Kinds
<1>4. \A g \in Runner!Files(i, "ddl") :
        ~g.baseline => g \in left[i] \/ Runner!ResolveVersion(g) <= latest[i]
  BY <1>1 DEF Passed
<1>5. \A g \in left[i] : g \in Runner!Files(i, "ddl")
  BY DEF LoadedOK
<1>6. \A g \in left[i] : Runner!ResolveVersion(f) <= Runner!ResolveVersion(g)
  BY <1>2, <1>3, <1>5 DEF Runner!Before
<1>7. latest[i] < Runner!ResolveVersion(f)
  BY <1>1, <1>2, <1>3
<1>8. \A g \in Runner!Files(i, "ddl") :
        ~g.baseline /\ latest[i] < Runner!ResolveVersion(g)
          => Runner!ResolveVersion(f) <= Runner!ResolveVersion(g)
  BY <1>1, <1>3, <1>4, <1>6
<1>9. Runner!Follows(i, f, latest[i])
  BY <1>1, <1>2, <1>7, <1>8 DEF Runner!Follows
<1>10. \A g \in Runner!Files(i, "ddl") :
         Runner!ResolveVersion(g) <= latest[i] => Runner!ResolveVersion(g) <= Runner!ResolveVersion(f)
  BY <1>1, <1>2, <1>3, <1>7
<1> QED BY <1>2, <1>3, <1>4, <1>9, <1>10

LEMMA ScanStep ==
    ASSUME Runner!FilesAgree, RunnerInv, SchemaInv, NEW i \in Runners, Runner!Scan(i)
    PROVE  SchemaInv'
<1> USE DEF Runner!Goto
<1>1. migratePc[i] = "scan" /\ UNCHANGED <<applied, objects, undo, kind, latest>>
  BY DEF Runner!Scan
<1>2. /\ DOMAIN migratePc = Runners /\ DOMAIN stmt = Runners /\ DOMAIN file = Runners
      /\ DOMAIN left = Runners /\ kind[i] \in {"ddl", "seed"}
  BY DEF RunnerInv, WorkOK, SchemaInv, Runner!Kinds
<1>3. LoadedOK(i) /\ FollowsOK(i) /\ DoneOK(i) /\ undo[i] = {} /\ ObjectsOK
  BY <1>1 DEF SchemaInv, InstanceOK, UndoOK
<1>4. /\ Runner!Schema(Latest)' = Runner!Schema(Latest) /\ Base' = Base
  BY <1>1, BaseKept
<1>5. /\ \A j \in Runners : j # i => migratePc'[j] = migratePc[j]
      /\ DOMAIN stmt' = Runners
  BY <1>2 DEF Runner!Scan
<1>6. UndoOK(i)'
  BY <1>1, <1>3 DEF UndoOK
<1>7. LoadedOK(i)' /\ FollowsOK(i)' /\ EffectOK(i)' /\ DoneOK(i)'
  <2>1. CASE left[i] = {} /\ migratePc' = [migratePc EXCEPT ![i] = "finish"]
    <3>1. kind[i] = "ddl" => \A f \in Runner!Files(i, "ddl") :
            Runner!Range(f.creates) \subseteq Runner!Schema(Latest)
      BY <1>1, <1>3, <2>1, AllBehind
    <3>2. kind[i] = "seed" => \A f \in Runner!Files(i, "ddl") :
            Runner!Range(f.creates) \subseteq Runner!Schema(Latest)
      BY <1>3 DEF DoneOK
    <3> QED BY <1>1, <1>2, <1>4, <2>1, <3>1, <3>2 DEF LoadedOK, FollowsOK, EffectOK, DoneOK
  <2>2. ASSUME NEW f \in left[i], left' = [left EXCEPT ![i] = @ \ {f}],
               Runner!Skipped(i, f), UNCHANGED migratePc
        PROVE  LoadedOK(i)' /\ FollowsOK(i)' /\ EffectOK(i)' /\ DoneOK(i)'
    <3>1. left'[i] = left[i] \ {f} /\ migratePc'[i] = "scan"
      BY <1>1, <1>2, <2>2
    <3>2. kind[i] = "ddl" => f.baseline \/ Runner!ResolveVersion(f) <= latest[i]
      <4>1. ASSUME kind[i] = "ddl", <<kind[i], Runner!ResolveVersion(f)>> \in applied
            PROVE  Runner!ResolveVersion(f) <= latest[i]
        <5>1. Runner!ResolveVersion(f) \in Recorded("ddl")
          BY <4>1 DEF Recorded
        <5>2. latest[i] = Latest
          BY <1>1, <4>1 DEF RunnerInv, WorkOK, Latest
        <5> QED BY <1>3, <5>1, <5>2, LatestFacts DEF RunnerInv
      <4> QED BY <2>2, <4>1 DEF Runner!Skipped
    <3>3. FollowsOK(i)'
      BY <1>1, <1>3, <3>1, <3>2 DEF FollowsOK, Passed
    <3> QED BY <1>1, <1>3, <1>4, <3>1, <3>3 DEF LoadedOK, EffectOK, DoneOK
  <2>3. ASSUME NEW f \in left[i], left' = [left EXCEPT ![i] = @ \ {f}],
               \A g \in left[i] \ {f} : Runner!Before(f, g), ~Runner!Skipped(i, f),
               file' = [file EXCEPT ![i] = f], stmt' = [stmt EXCEPT ![i] = 1],
               migratePc' = [migratePc EXCEPT ![i] = "exec"]
        PROVE  LoadedOK(i)' /\ FollowsOK(i)' /\ EffectOK(i)' /\ DoneOK(i)'
    <3>1. /\ left'[i] = left[i] \ {f} /\ migratePc'[i] = "exec"
          /\ file'[i] = f /\ stmt'[i] = 1 /\ f \in Runner!Files(i, kind[i])
      BY <1>1, <1>2, <1>3, <2>3 DEF LoadedOK
    <3>2. LoadedOK(i)'
      BY <1>1, <1>3, <3>1 DEF LoadedOK
    <3>3. FollowsOK(i)'
      BY <1>1, <1>3, <2>3, <3>1, FirstFollows DEF FollowsOK, Passed
    <3>4. \A m \in DOMAIN f.creates : ~(m < 1)
      BY <1>2, <3>1, FileCreates DEF Runner!Kinds
    <3>5. Made(i)' = {}
      BY <3>1, <3>4 DEF Made
    <3> QED BY <1>1, <1>3, <1>4, <3>1, <3>2, <3>3, <3>5 DEF EffectOK, DoneOK
  <2> QED BY <2>1, <2>2, <2>3 DEF Runner!Scan
<1>8. ASSUME NEW j \in Runners, j # i PROVE InstanceOK(j)'
  BY <1>1, <1>4, <1>5, <1>8, OthersKept
<1>9. ObjectsOK' /\ DOMAIN undo' = Runners
  BY <1>1, ObjectsKept DEF SchemaInv
<1> QED BY <1>5, <1>6, <1>7, <1>8, <1>9 DEF SchemaInv, InstanceOK

----------------------------------------------------------------------------
\* The file an instance executes follows a version that is there.
LEMMA FileFollows ==
    ASSUME RunnerInv, SchemaInv, NEW i \in Runners, kind[i] = "ddl",
           migratePc[i] \in {"exec", "record"}
    PROVE  /\ file[i] \in Runner!Files(i, "ddl")
           /\ latest[i] = Latest /\ Latest \in Nat /\ Latest \in {0} \cup Runner!DDLVersions
           /\ Runner!Follows(i, file[i], Latest)
           /\ Runner!ResolveVersion(file[i]) \in Nat /\ Latest < Runner!ResolveVersion(file[i])
<1>1. latest[i] = Latest
  BY DEF RunnerInv, WorkOK, Latest
<1>2. Latest \in Nat /\ Latest \in {0} \cup Runner!DDLVersions
  BY LatestFacts DEF RunnerInv, SchemaInv
<1>3. file[i] \in Runner!Files(i, "ddl") /\ Runner!Follows(i, file[i], latest[i])
  BY DEF SchemaInv, InstanceOK, LoadedOK, FollowsOK
<1>4. Runner!ResolveVersion(file[i]) \in Nat /\ Latest < Runner!ResolveVersion(file[i])
  BY <1>1, <1>2 DEF RunnerInv, WorkOK
<1> QED BY <1>1, <1>2, <1>3, <1>4

\* A statement takes effect.
LEMMA StmtStep ==
    ASSUME Runner!FilesAgree, RunnerInv, SchemaInv, NEW i \in Runners, Runner!ExecStmt(i)
    PROVE  SchemaInv'
<1> DEFINE o == file[i].creates[stmt[i]]
<1>1. /\ migratePc[i] = "exec" /\ stmt[i] <= Len(file[i].creates)
      /\ UNCHANGED <<applied, migratePc, kind, latest, left, file>>
      /\ o \notin objects /\ objects' = objects \cup {o}
  BY DEF Runner!ExecStmt
<1>2. undo' = [undo EXCEPT ![i] = @ \cup {o}] /\ stmt' = [stmt EXCEPT ![i] = @ + 1]
  BY DEF Runner!ExecStmt, Runner!FilesAgree
<1>3. DOMAIN undo = Runners /\ DOMAIN stmt = Runners /\ kind[i] \in {"ddl", "seed"}
  BY DEF RunnerInv, WorkOK, SchemaInv, Runner!Kinds
<1>4. undo'[i] = undo[i] \cup {o} /\ stmt'[i] = stmt[i] + 1
      /\ \A j \in Runners : j # i => undo'[j] = undo[j]
  BY <1>2, <1>3
<1>5. /\ LoadedOK(i) /\ FollowsOK(i) /\ UndoOK(i) /\ EffectOK(i) /\ DoneOK(i) /\ ObjectsOK
      /\ file[i] \in Runner!Files(i, kind[i]) /\ stmt[i] \in Nat \ {0}
  BY <1>1 DEF SchemaInv, InstanceOK, LoadedOK
<1>6. stmt[i] \in DOMAIN file[i].creates /\ o \in Runner!Range(file[i].creates)
      /\ DOMAIN file[i].creates \subseteq Nat
  BY <1>1, <1>3, <1>5, FileCreates DEF Runner!Kinds
<1>7. /\ Runner!Schema(Latest)' = Runner!Schema(Latest) /\ Base' = Base
  BY <1>1, BaseKept
<1>8. kind[i] = "seed" => o \in Runner!SeedObjects
  BY <1>5, <1>6 DEF Runner!SeedObjects
<1>9. Made(i)' = Made(i) \cup {o}
  <2>1. {m \in DOMAIN file[i].creates : m < stmt[i] + 1}
          = {m \in DOMAIN file[i].creates : m < stmt[i]} \cup {stmt[i]}
    BY <1>5, <1>6
  <2> QED BY <1>1, <1>4, <2>1 DEF Made
<1> HIDE DEF o
<1>10. UndoOK(i)'
  <2>1. o \notin Base
    BY <1>1, <1>5 DEF ObjectsOK
  <2> QED BY <1>1, <1>3, <1>4, <1>5, <1>6, <1>7, <1>8, <2>1 DEF UndoOK
<1>11. LoadedOK(i)' /\ FollowsOK(i)' /\ EffectOK(i)' /\ DoneOK(i)'
  <2>1. LoadedOK(i)' /\ FollowsOK(i)'
    BY <1>1, <1>4, <1>5 DEF LoadedOK, FollowsOK, Passed
  <2>2. EffectOK(i)'
    BY <1>1, <1>4, <1>5, <1>9 DEF EffectOK
  <2>3. DoneOK(i)'
    BY <1>1, <1>5, <1>7 DEF DoneOK
  <2> QED BY <2>1, <2>2, <2>3
<1>12. ASSUME NEW j \in Runners, j # i PROVE InstanceOK(j)'
  BY <1>1, <1>4, <1>7, <1>12, OthersKept
<1>13. ObjectsOK'
  <2>1. o \in undo'[i] /\ \A j \in Runners : undo[j] \subseteq undo'[j]
    BY <1>4
  <2>2. Base' \subseteq objects' /\ Recorded("ddl")' \subseteq Runner!DDLVersions
    BY <1>1, <1>5, <1>7, BaseKept DEF ObjectsOK
  <2>3. \A p \in objects' : p \in Base' \cup Runner!SeedObjects \/ \E j \in Runners : p \in undo'[j]
    BY <1>1, <1>5, <1>7, <2>1 DEF ObjectsOK
  <2> QED BY <2>2, <2>3 DEF ObjectsOK
<1>14. DOMAIN stmt' = Runners /\ DOMAIN undo' = Runners
  BY <1>2, <1>3
<1> QED BY <1>10, <1>11, <1>12, <1>13, <1>14 DEF SchemaInv, InstanceOK

\* The rest of a step that rolls back, or has nothing to roll back: what is
\* recorded still exists, and nothing is being made.
LEMMA RollbackKeeps ==
    ASSUME RunnerInv, SchemaInv, NEW i \in Runners, migratePc[i] # "idle",
           Runner!Rollback(i), UNCHANGED applied
    PROVE  /\ ObjectsOK' /\ DOMAIN undo' = Runners /\ undo'[i] = {} /\ UndoOK(i)'
           /\ \A j \in Runners : j # i => undo'[j] = undo[j]
<1>1. objects' = objects \ undo[i] /\ undo' = [undo EXCEPT ![i] = {}] /\ DOMAIN undo = Runners
  BY DEF Runner!Rollback, SchemaInv
<1>2. undo'[i] = {} /\ \A j \in Runners : j # i => undo'[j] = undo[j]
  BY <1>1
<1>3. Base' = Base /\ Recorded("ddl")' = Recorded("ddl")
  BY BaseKept
<1>4. ObjectsOK /\ undo[i] \cap Base = {}
  BY DEF SchemaInv, InstanceOK, UndoOK
<1>5. ObjectsOK'
  <2>1. \A j \in Runners : undo[j] \ undo[i] \subseteq undo'[j]
    BY <1>2
  <2> QED BY <1>1, <1>3, <1>4, <2>1 DEF ObjectsOK
<1>6. UndoOK(i)'
  BY <1>2 DEF UndoOK
<1> QED BY <1>1, <1>2, <1>5, <1>6

\* An error, or the end of the process.
LEMMA FailureSteps ==
    ASSUME RunnerInv, SchemaInv, NEW i \in Runners,
           Runner!ExecFails(i) \/ Runner!Crash(i)
    PROVE  SchemaInv'
<1> USE DEF Runner!Goto
<1>1. migratePc[i] # "idle" /\ Runner!Rollback(i) /\ UNCHANGED applied
  BY DEF Runner!ExecFails, Runner!Crash
<1>2. /\ ObjectsOK' /\ DOMAIN undo' = Runners /\ undo'[i] = {} /\ UndoOK(i)'
      /\ \A j \in Runners : j # i => undo'[j] = undo[j]
  BY <1>1, RollbackKeeps
<1>3. /\ migratePc'[i] \in {"error", "idle"} /\ (kind'[i] = "seed" => kind[i] = "seed")
      /\ \A j \in Runners : j # i => migratePc'[j] = migratePc[j] /\ kind'[j] = kind[j]
      /\ DOMAIN stmt' = Runners
  BY DEF RunnerInv, WorkOK, SchemaInv, Runner!ExecFails, Runner!Crash, Runner!Forget
<1>4. Runner!Schema(Latest)' = Runner!Schema(Latest)
  BY <1>1, BaseKept
<1>5. LoadedOK(i)' /\ FollowsOK(i)' /\ EffectOK(i)'
  BY <1>3 DEF LoadedOK, FollowsOK, EffectOK
<1>6. DoneOK(i)'
  BY <1>3, <1>4 DEF SchemaInv, InstanceOK, DoneOK
<1>7. ASSUME NEW j \in Runners, j # i PROVE InstanceOK(j)'
  BY <1>1, <1>2, <1>3, <1>4, <1>7, OthersKept
<1> QED BY <1>2, <1>3, <1>5, <1>6, <1>7 DEF SchemaInv, InstanceOK

\* What a statement finds there is not of its own file: it was there before, and
\* with it the rest of the version.
LEMMA DuplicateStep ==
    ASSUME Runner!FilesAgree, RunnerInv, SchemaInv, NEW i \in Runners, Runner!ExecDuplicate(i)
    PROVE  SchemaInv'
<1> DEFINE o == file[i].creates[stmt[i]]
<1>1. /\ migratePc[i] = "exec" /\ stmt[i] <= Len(file[i].creates) /\ o \in objects
      /\ Runner!Rollback(i) /\ UNCHANGED <<applied, kind, latest, left, file, stmt>>
      /\ migratePc' = [migratePc EXCEPT ![i] = IF kind[i] = "seed" THEN "error" ELSE "record"]
  BY DEF Runner!ExecDuplicate, Runner!Goto
<1>2. /\ ObjectsOK' /\ DOMAIN undo' = Runners /\ undo'[i] = {} /\ UndoOK(i)'
      /\ \A j \in Runners : j # i => undo'[j] = undo[j]
  BY <1>1, RollbackKeeps
<1>3. /\ migratePc'[i] = IF kind[i] = "seed" THEN "error" ELSE "record"
      /\ \A j \in Runners : j # i => migratePc'[j] = migratePc[j]
      /\ DOMAIN stmt' = Runners /\ kind[i] \in {"ddl", "seed"}
  BY <1>1 DEF RunnerInv, WorkOK, SchemaInv, Runner!Kinds
<1>4. Runner!Schema(Latest)' = Runner!Schema(Latest)
  BY <1>1, BaseKept
<1>5. LoadedOK(i) /\ FollowsOK(i) /\ EffectOK(i) /\ DoneOK(i) /\ ObjectsOK /\ undo[i] \cap Base = {}
      /\ file[i] \in Runner!Files(i, kind[i]) /\ stmt[i] \in Nat \ {0}
  BY <1>1 DEF SchemaInv, InstanceOK, LoadedOK, UndoOK
<1>6. LoadedOK(i)' /\ FollowsOK(i)' /\ DoneOK(i)'
  BY <1>1, <1>3, <1>4, <1>5 DEF LoadedOK, FollowsOK, Passed, DoneOK
<1>7. ASSUME kind[i] = "ddl"
      PROVE  Runner!Schema(Runner!ResolveVersion(file[i])) \subseteq objects \ undo[i]
  <2>1. /\ file[i] \in Runner!Files(i, "ddl") /\ Runner!Follows(i, file[i], Latest)
        /\ Latest \in {0} \cup Runner!DDLVersions
    BY <1>1, <1>7, FileFollows
  <2>2. stmt[i] \in DOMAIN file[i].creates /\ o \in Runner!Range(file[i].creates)
    BY <1>1, <1>5, <2>1, FileCreates DEF Runner!Kinds
  <2>3. o \notin Runner!SeedObjects
    BY <2>1, <2>2 DEF Runner!FilesAgree, Runner!CreatesAnew
  <2>4. o \notin undo[i]
    <3>1. \A m \in DOMAIN file[i].creates : m < stmt[i] => file[i].creates[m] # o
      <4>1. \A m \in DOMAIN file[i].creates : file[i].creates[m] = o => m = stmt[i]
        BY <2>1, <2>2 DEF Runner!FilesAgree, Runner!CreatesAnew
      <4> QED BY <1>5, <4>1
    <3>2. o \notin Made(i)
      BY <3>1 DEF Made
    <3> QED BY <1>1, <1>5, <1>7, <3>2 DEF EffectOK
  <2>5. \A j \in Runners : j # i => undo[j] = {}
    BY <1>1, OthersIdle
  <2>6. o \in Base
    BY <1>1, <1>5, <2>3, <2>4, <2>5 DEF ObjectsOK
  <2>7. Runner!Range(file[i].creates) \cap (Leftover \cup Runner!Schema(Latest)) # {}
    BY <2>2, <2>6 DEF Base
  <2>8. Runner!Schema(Runner!ResolveVersion(file[i])) \subseteq Base
    BY <2>1, <2>7 DEF Runner!FilesAgree, Runner!CreatesAnew, Base
  <2> QED BY <1>5, <2>8 DEF ObjectsOK
<1>8. EffectOK(i)'
  <2>1. objects' = objects \ undo[i]
    BY <1>1 DEF Runner!Rollback
  <2>2. file' = file /\ kind' = kind
    BY <1>1
  <2> QED BY <1>3, <1>7, <2>1, <2>2 DEF EffectOK
<1>9. ASSUME NEW j \in Runners, j # i PROVE InstanceOK(j)'
  BY <1>1, <1>2, <1>3, <1>4, <1>9, OthersKept
<1> QED BY <1>2, <1>3, <1>6, <1>8, <1>9 DEF SchemaInv, InstanceOK

\* At the end of a file what its version adds exists besides what was there.
LEMMA DoneStep ==
    ASSUME Runner!FilesAgree, RunnerInv, SchemaInv, NEW i \in Runners, Runner!ExecDone(i)
    PROVE  SchemaInv'
<1>1. /\ migratePc[i] = "exec" /\ stmt[i] > Len(file[i].creates)
      /\ UNCHANGED <<applied, objects, undo, kind, latest, left, file, stmt>>
      /\ migratePc' = [migratePc EXCEPT ![i] = "record"]
  BY DEF Runner!ExecDone, Runner!Goto
<1>2. /\ migratePc'[i] = "record" /\ \A j \in Runners : j # i => migratePc'[j] = migratePc[j]
      /\ kind[i] \in {"ddl", "seed"}
  BY <1>1 DEF RunnerInv, WorkOK, Runner!Kinds
<1>3. /\ Runner!Schema(Latest)' = Runner!Schema(Latest) /\ Base' = Base
  BY <1>1, BaseKept
<1>4. LoadedOK(i) /\ FollowsOK(i) /\ UndoOK(i) /\ EffectOK(i) /\ DoneOK(i) /\ ObjectsOK
      /\ file[i] \in Runner!Files(i, kind[i]) /\ stmt[i] \in Nat \ {0}
  BY <1>1 DEF SchemaInv, InstanceOK, LoadedOK
<1>5. LoadedOK(i)' /\ FollowsOK(i)' /\ UndoOK(i)' /\ DoneOK(i)'
  BY <1>1, <1>2, <1>3, <1>4 DEF LoadedOK, FollowsOK, Passed, UndoOK, DoneOK
<1>6. ASSUME kind[i] = "ddl"
      PROVE  Runner!Schema(Runner!ResolveVersion(file[i])) \subseteq objects
  <2>1. /\ file[i] \in Runner!Files(i, "ddl") /\ Runner!Follows(i, file[i], Latest)
        /\ Latest \in {0} \cup Runner!DDLVersions
    BY <1>1, <1>6, FileFollows
  <2>2. \A m \in DOMAIN file[i].creates : m < stmt[i]
    BY <1>1, <1>4, <2>1, FileCreates DEF Runner!Kinds
  <2>3. Runner!Range(file[i].creates) \subseteq Made(i)
    BY <2>2 DEF Made, Runner!Range
  <2>4. Runner!Schema(Runner!ResolveVersion(file[i]))
          \subseteq Runner!Schema(Latest) \cup Runner!Range(file[i].creates)
    BY <2>1 DEF Runner!FilesAgree, Runner!ReleasesAgree
  <2> QED BY <1>1, <1>4, <1>6, <2>3, <2>4 DEF EffectOK, ObjectsOK, Base
<1>7. EffectOK(i)'
  BY <1>1, <1>2, <1>6 DEF EffectOK
<1>8. ASSUME NEW j \in Runners, j # i PROVE InstanceOK(j)'
  BY <1>1, <1>2, <1>3, <1>8, OthersKept
<1>9. ObjectsOK'
  BY <1>1, ObjectsKept DEF SchemaInv
<1> QED BY <1>1, <1>5, <1>7, <1>8, <1>9 DEF SchemaInv, InstanceOK

\* With its version recorded, what a file has made is part of the schema.
LEMMA RecordKeeps ==
    ASSUME Runner!FilesAgree, RunnerInv, SchemaInv, NEW i \in Runners, Runner!Record(i)
    PROVE  SchemaInv'
<1> DEFINE v == Runner!ResolveVersion(file[i])
<1>1. /\ migratePc[i] = "record" /\ applied' = applied \cup {<<kind[i], v>>}
      /\ latest' = [latest EXCEPT ![i] = v] /\ undo' = [undo EXCEPT ![i] = {}]
      /\ migratePc' = [migratePc EXCEPT ![i] = "scan"]
      /\ UNCHANGED <<objects, kind, left, file, stmt>>
  BY DEF Runner!Record, Runner!Goto
<1>2. /\ migratePc'[i] = "scan" /\ latest'[i] = v /\ undo'[i] = {}
      /\ \A j \in Runners : j # i => migratePc'[j] = migratePc[j] /\ undo'[j] = undo[j]
      /\ kind[i] \in {"ddl", "seed"} /\ DOMAIN stmt' = Runners /\ DOMAIN undo' = Runners
  BY <1>1 DEF RunnerInv, WorkOK, SchemaInv, Runner!Kinds
<1>3. LoadedOK(i) /\ FollowsOK(i) /\ UndoOK(i) /\ EffectOK(i) /\ DoneOK(i) /\ ObjectsOK
      /\ file[i] \in Runner!Files(i, kind[i])
  BY <1>1 DEF SchemaInv, InstanceOK, LoadedOK
<1>4. v \in Nat \ {0} /\ Recorded(kind[i])' = Recorded(kind[i]) \cup {v}
      /\ Runner!LatestVersion(kind[i])' = v
  BY RecordedIsNewest DEF RunnerInv
<1>5. \A j \in Runners : j # i => undo[j] = {}
  BY <1>1, OthersIdle
<1>6. kind[i] = "ddl" =>
        /\ file[i] \in Runner!Files(i, "ddl") /\ Latest \in Nat /\ Latest < v
  BY <1>1, FileFollows
<1> HIDE DEF v
<1>7. CASE kind[i] = "ddl"
  <2>1. Latest' = v /\ Recorded("ddl")' = Recorded("ddl") \cup {v}
    BY <1>1, <1>4, <1>7 DEF Latest
  <2>2. Runner!Schema(Latest) \subseteq Runner!Schema(v)
    BY <1>4, <1>6, <1>7, SchemaGrows
  <2>3. Runner!Range(file[i].creates) \subseteq Runner!Schema(v) /\ v \in Runner!DDLVersions
    BY <1>4, <1>6, <1>7, FileInSchema DEF v
  <2>4. Runner!Schema(Latest)' = Runner!Schema(v) /\ Base' = Leftover \cup Runner!Schema(v)
    BY <2>1 DEF Base, Runner!Schema
  <2>5. Runner!Schema(v) \subseteq objects
    BY <1>1, <1>3, <1>7 DEF EffectOK, v
  <2>6. ObjectsOK'
    <3>1. Base' \subseteq objects'
      BY <1>1, <1>3, <2>4, <2>5 DEF ObjectsOK, Base
    <3>2. undo[i] \subseteq Base'
      BY <1>1, <1>3, <1>7, <2>3, <2>4 DEF UndoOK
    <3>3. Base \subseteq Base'
      BY <2>2, <2>4 DEF Base
    <3>4. \A o \in objects' : o \in Base' \cup Runner!SeedObjects
      BY <1>1, <1>3, <1>5, <3>2, <3>3 DEF ObjectsOK
    <3>5. Recorded("ddl")' \subseteq Runner!DDLVersions
      BY <1>3, <2>1, <2>3 DEF ObjectsOK
    <3> QED BY <3>1, <3>4, <3>5 DEF ObjectsOK
  <2>7. LoadedOK(i)' /\ UndoOK(i)' /\ EffectOK(i)' /\ DoneOK(i)'
    BY <1>1, <1>2, <1>3, <1>7 DEF LoadedOK, UndoOK, EffectOK, DoneOK
  <2>8. FollowsOK(i)'
    BY <1>1, <1>2, <1>3, <1>4, <1>7 DEF FollowsOK, Passed, v
  <2>9. ASSUME NEW j \in Runners, j # i PROVE InstanceOK(j)'
    BY <1>1, <1>2, <2>2, <2>4, <2>9, OthersKept
  <2> QED BY <1>2, <2>6, <2>7, <2>8, <2>9 DEF SchemaInv, InstanceOK
<1>8. CASE kind[i] = "seed"
  <2>1. {b \in applied' : b[1] = "ddl"} = {b \in applied : b[1] = "ddl"}
    BY <1>1, <1>8
  <2>2. /\ Latest' = Latest /\ Recorded("ddl")' = Recorded("ddl")
        /\ Base' = Base /\ Runner!Schema(Latest)' = Runner!Schema(Latest)
    <3>1. Recorded("ddl")' = Recorded("ddl")
      BY <2>1 DEF Recorded
    <3>2. Latest' = Latest
      <4> DEFINE Newest(S) == IF S = {} THEN 0 ELSE CHOOSE w \in S : \A u \in S : u <= w
      <4>1. Latest = Newest(Recorded("ddl"))
        BY DEF Latest, Runner!LatestVersion, Recorded
      <4>2. Latest' = Newest(Recorded("ddl")')
        BY DEF Latest, Runner!LatestVersion, Recorded
      <4> HIDE DEF Newest
      <4> QED BY <3>1, <4>1, <4>2
    <3> QED BY <3>1, <3>2 DEF Base, Runner!Schema
  <2>3. ObjectsOK'
    <3>1. \A o \in objects' : o \in Base' \cup Runner!SeedObjects
      BY <1>1, <1>3, <1>5, <1>8, <2>2 DEF ObjectsOK, UndoOK
    <3> QED BY <1>1, <1>3, <2>2, <3>1 DEF ObjectsOK
  <2>4. LoadedOK(i)' /\ UndoOK(i)' /\ EffectOK(i)' /\ FollowsOK(i)'
    BY <1>1, <1>2, <1>3, <1>8 DEF LoadedOK, UndoOK, EffectOK, FollowsOK
  <2>5. DoneOK(i)'
    BY <1>1, <1>3, <1>8, <2>2 DEF DoneOK
  <2>6. ASSUME NEW j \in Runners, j # i PROVE InstanceOK(j)'
    BY <1>1, <1>2, <2>2, <2>6, OthersKept
  <2> QED BY <1>2, <2>3, <2>4, <2>5, <2>6 DEF SchemaInv, InstanceOK
<1> QED BY <1>2, <1>7, <1>8

LEMMA SchemaStutter == SchemaInv /\ UNCHANGED runnerVars => SchemaInv'
<1> SUFFICES ASSUME SchemaInv, UNCHANGED runnerVars PROVE SchemaInv'
  OBVIOUS
<1>1. UNCHANGED <<applied, objects, undo, stmt>> /\ Base' = Base
      /\ Runner!Schema(Latest)' = Runner!Schema(Latest)
  BY BaseKept DEF runnerVars
<1>2. ASSUME NEW j \in Runners PROVE InstanceOK(j)'
  BY <1>1 DEF SchemaInv, InstanceOK, runnerVars, LoadedOK, FollowsOK, Passed, UndoOK, EffectOK,
              Made, DoneOK
<1> QED BY <1>1, <1>2, ObjectsKept DEF SchemaInv

LEMMA SchemaStep ==
    ASSUME Runner!FilesAgree, RunnerInv, SchemaInv, [Runner!Next]_runnerVars
    PROVE  SchemaInv'
BY SchemaStutter, QuietSteps, PlanStep, ScanStep, StmtStep, DuplicateStep, FailureSteps,
   DoneStep, RecordKeeps DEF Runner!Next

\* The left-overs are all there is.
LEMMA SchemaInitially == Runner!Init => SchemaInv
<1> SUFFICES ASSUME Runner!Init PROVE SchemaInv
  OBVIOUS
<1>1. applied = {} /\ objects = Leftover /\ DOMAIN stmt = Runners /\ DOMAIN undo = Runners
      /\ \A i \in Runners : migratePc[i] = "idle" /\ kind[i] = "ddl" /\ undo[i] = {}
  BY DEF Runner!Init
<1>2. Recorded("ddl") = {} /\ Latest = 0
  BY <1>1 DEF Recorded, Latest, Runner!LatestVersion
<1>3. Runner!Schema(0) = {}
  <2>1. \A f \in Runner!DDLFiles : Runner!ResolveVersion(f) \in Nat \ {0}
    BY LoadedFiles DEF Runner!DDLFiles, Runner!Kinds
  <2>2. {f \in Runner!DDLFiles : Runner!ResolveVersion(f) <= 0} = {}
    BY <2>1
  <2> QED BY <2>2 DEF Runner!Schema
<1>4. ObjectsOK
  BY <1>1, <1>2, <1>3 DEF ObjectsOK, Base
<1>5. \A i \in Runners : InstanceOK(i)
  BY <1>1 DEF InstanceOK, LoadedOK, FollowsOK, UndoOK, EffectOK, DoneOK
<1> QED BY <1>1, <1>4, <1>5 DEF SchemaInv

----------------------------------------------------------------------------
\* The files and objects an instance works on are among those there are.
LEMMA FilesAmongAll ==
    ASSUME NEW i \in Runners, NEW k \in Runner!Kinds
    PROVE  /\ Runner!Files(i, k) \subseteq Runner!AllFiles
           /\ \A f \in Runner!Files(i, k) :
                /\ Runner!Range(f.creates) \subseteq Runner!AllObjects
                /\ Runner!ResolveVersion(f) \in {Runner!ResolveVersion(g) : g \in Runner!AllFiles}
<1>1. \A f \in Runner!Files(i, k) : f \in Runner!AllFiles
  BY LoadedFiles DEF Runner!AllFiles
<1>2. \A f \in Runner!AllFiles : Runner!Range(f.creates) \subseteq Runner!AllObjects
  BY DEF Runner!AllObjects
<1> QED BY <1>1, <1>2

LEMMA LatestAmongAll ==
    ASSUME RecordedOK, Runner!TypeOK, NEW k \in Runner!Kinds
    PROVE  Runner!LatestVersion(k) \in {0} \cup {Runner!ResolveVersion(f) : f \in Runner!AllFiles}
<1>1. Runner!LatestVersion(k) = IF Recorded(k) = {} THEN 0
                               ELSE CHOOSE v \in Recorded(k) : \A w \in Recorded(k) : w <= v
  BY DEF Runner!LatestVersion, Recorded
<1>2. Recorded(k) # {} => \E v \in Recorded(k) : \A w \in Recorded(k) : w <= v
  BY DEF RecordedOK
<1>3. Recorded(k) \subseteq {Runner!ResolveVersion(f) : f \in Runner!AllFiles}
  BY DEF Runner!TypeOK, Recorded
<1> QED BY <1>1, <1>2, <1>3

LEMMA RunnerTypeStep ==
    ASSUME RunnerInv, SchemaInv, Runner!TypeOK, [Runner!Next]_runnerVars
    PROVE  Runner!TypeOK'
<1> DEFINE Versions == {Runner!ResolveVersion(f) : f \in Runner!AllFiles}
<1> USE DEF Runner!Goto
<1>1. holders' \in SUBSET Runners
      /\ migratePc' \in [Runners -> {"idle", "plan", "scan", "exec", "record", "finish", "error", "unlock"}]
      /\ kind' \in [Runners -> Runner!Kinds]
  BY RunnerStep DEF RunnerInv, OneMigrates, WorkOK
<1>2. /\ applied \in SUBSET (Runner!Kinds \X Versions) /\ objects \in SUBSET Runner!AllObjects
      /\ latest \in [Runners -> {0} \cup Versions] /\ left \in [Runners -> SUBSET Runner!AllFiles]
      /\ file \in [Runners -> Runner!AllFiles \cup {Runner!NoFile}]
      /\ undo \in [Runners -> SUBSET Runner!AllObjects] /\ kind \in [Runners -> Runner!Kinds]
  BY DEF Runner!TypeOK
<1>3. SUFFICES /\ applied' \in SUBSET (Runner!Kinds \X Versions)
               /\ objects' \in SUBSET Runner!AllObjects
               /\ latest' \in [Runners -> {0} \cup Versions]
               /\ left' \in [Runners -> SUBSET Runner!AllFiles]
               /\ file' \in [Runners -> Runner!AllFiles \cup {Runner!NoFile}]
               /\ undo' \in [Runners -> SUBSET Runner!AllObjects]
  BY <1>1 DEF Runner!TypeOK
<1>4. ASSUME NEW i \in Runners, migratePc[i] \in {"exec", "record"}
      PROVE  /\ Runner!ResolveVersion(file[i]) \in Versions
             /\ \A n \in 1..Len(file[i].creates) : file[i].creates[n] \in Runner!AllObjects
  <2>1. file[i] \in Runner!Files(i, kind[i])
    BY <1>4 DEF SchemaInv, InstanceOK, LoadedOK
  <2> QED BY <1>2, <2>1, FilesAmongAll, FileCreates
<1>5. ASSUME NEW i \in Runners, Runner!Plan(i) PROVE <1>3!1
  <2>1. /\ latest' = [latest EXCEPT ![i] = Runner!LatestVersion(kind[i])]
        /\ left' = [left EXCEPT ![i] = Runner!Files(i, kind[i])]
        /\ UNCHANGED <<applied, objects, undo>>
        /\ file' = file \/ \E f \in Runner!Files(i, kind[i]) : file' = [file EXCEPT ![i] = f]
    BY <1>5 DEF Runner!Plan, Runner!Baselines
  <2>2. /\ Runner!LatestVersion(kind[i]) \in {0} \cup Versions
        /\ Runner!Files(i, kind[i]) \subseteq Runner!AllFiles
    BY <1>2, FilesAmongAll, LatestAmongAll DEF RunnerInv
  <2> HIDE DEF Versions
  <2> QED BY <1>2, <2>1, <2>2
<1>6. ASSUME NEW i \in Runners, Runner!Scan(i) PROVE <1>3!1
  <2>1. /\ UNCHANGED <<applied, objects, undo, latest>>
        /\ left' = left \/ \E f \in left[i] : left' = [left EXCEPT ![i] = @ \ {f}]
        /\ file' = file \/ \E f \in left[i] : file' = [file EXCEPT ![i] = f]
    BY <1>6 DEF Runner!Scan
  <2> HIDE DEF Versions
  <2> QED BY <1>2, <2>1
<1>7. ASSUME NEW i \in Runners, Runner!ExecStmt(i) PROVE <1>3!1
  <2> DEFINE o == file[i].creates[stmt[i]]
  <2>1. /\ UNCHANGED <<applied, latest, left, file>> /\ objects' = objects \cup {o}
        /\ undo' = [undo EXCEPT ![i] = @ \cup {o}] \/ undo' = [undo EXCEPT ![i] = @]
    BY <1>7 DEF Runner!ExecStmt
  <2>2. o \in Runner!AllObjects
    <3>1. migratePc[i] = "exec" /\ stmt[i] <= Len(file[i].creates)
      BY <1>7 DEF Runner!ExecStmt
    <3>2. file[i] \in Runner!Files(i, kind[i]) /\ stmt[i] \in Nat \ {0}
      BY <3>1 DEF SchemaInv, InstanceOK, LoadedOK
    <3>3. Len(file[i].creates) \in Nat
      BY <1>2, <3>2, FileCreates
    <3> QED BY <1>4, <3>1, <3>2, <3>3
  <2> HIDE DEF Versions, o
  <2> QED BY <1>2, <2>1, <2>2
<1>8. ASSUME NEW i \in Runners, Runner!Record(i) PROVE <1>3!1
  <2>1. /\ applied' = applied \cup {<<kind[i], Runner!ResolveVersion(file[i])>>}
        /\ latest' = [latest EXCEPT ![i] = Runner!ResolveVersion(file[i])]
        /\ undo' = [undo EXCEPT ![i] = {}] /\ UNCHANGED <<objects, left, file>>
    BY <1>8 DEF Runner!Record
  <2>2. Runner!ResolveVersion(file[i]) \in Versions
    BY <1>4, <1>8 DEF Runner!Record
  <2> HIDE DEF Versions
  <2> QED BY <1>2, <2>1, <2>2
<1>9. ASSUME NEW i \in Runners,
             Runner!ExecDuplicate(i) \/ Runner!ExecFails(i) \/ Runner!Crash(i) \/ Runner!Release(i)
      PROVE <1>3!1
  <2>1. /\ UNCHANGED applied
        /\ objects' = objects \/ objects' = objects \ undo[i]
        /\ undo' = undo \/ undo' = [undo EXCEPT ![i] = {}]
        /\ latest' = latest \/ latest' = [latest EXCEPT ![i] = 0]
        /\ left' = left \/ left' = [left EXCEPT ![i] = {}]
        /\ file' = file \/ file' = [file EXCEPT ![i] = Runner!NoFile]
    BY <1>9 DEF Runner!ExecDuplicate, Runner!ExecFails, Runner!Crash, Runner!Release,
                Runner!Rollback, Runner!Forget
  <2> HIDE DEF Versions
  <2> QED BY <1>2, <2>1
<1>10. ASSUME UNCHANGED <<applied, objects, latest, left, file, undo>> PROVE <1>3!1
  BY <1>2, <1>10
<1> QED BY <1>5, <1>6, <1>7, <1>8, <1>9, <1>10
  DEF Runner!Next, runnerVars, Runner!Acquire, Runner!PlanFails, Runner!ExecDone, Runner!Finish

LEMMA RunnerTypeInitially == Runner!Init => Runner!TypeOK
BY DEF Runner!Init, Runner!Lock!Init, Runner!TypeOK, Runner!Kinds, Runner!AllObjects

\* A version is recorded only if what its file creates exists, and seeds are
\* executed only when all the DDL of their release is there, across crashes,
\* failures and restarts of instances of any releases that are stages of one
\* schema, in a database that rolls DDL back.
THEOREM RecordedExists ==
    ASSUME Runner!FilesAgree
    PROVE  AllSpec => []RecordedIsExecuted
<1> DEFINE Inv == RunnerInv /\ SchemaInv /\ Runner!TypeOK
<1>1. AllInit => Inv
  BY RunnerInit, SchemaInitially, RunnerTypeInitially DEF AllInit
<1>2. [AllNext]_<<vars, advisoryVars, runnerVars, part>> => [Runner!Next]_runnerVars
  BY DEF AllNext
<1>3. Inv /\ [Runner!Next]_runnerVars => Inv'
  BY RunnerStep, SchemaStep, RunnerTypeStep
<1>4. Inv => RecordedIsExecuted
  BY SchemaIsThere DEF RunnerInv, RecordedIsExecuted, Runner!RecordedIsExecuted
<1> QED BY <1>1, <1>2, <1>3, <1>4, PTL DEF AllSpec
=============================================================================
