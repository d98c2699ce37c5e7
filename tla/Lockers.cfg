SPECIFICATION AllSpec
CONSTANTS
    Instances = {i1, i2}
    Sessions = {i1, i2, i3}
    Nobody = Nobody
    LockedBy <- OwnName
    Stale = 4
    LockTimeout = 2
    MaxLost = 3
    Blocking = FALSE
    Runners = {1, 2, 3}
    DDLDir <- RollingDDL
    SeedDir <- RollingSeeds
    Leftover = {"e", "t"}
    TransactionalDDL = TRUE
INVARIANTS HolderIsFresh RecordedIsExecuted
PROPERTIES ImplementsLock AdvisoryImplementsLock WaitsEnd AppliedInOrder
