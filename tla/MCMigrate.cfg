CONSTANTS
    r1 = r1
    r2 = r2
    Runners <- Two
    Files <- MCFiles
    Deployments <- OldAndNew
    SqlKind <- MixedKinds
    MaxRounds = 2
    Faults = {"error", "ackLost", "crash"}
SPECIFICATION FairSpec
INVARIANTS
    TypeOK
    RecordedIsApplied
    AppliedInOrder
    AppliedOnce
PROPERTIES
    EveryRunnerEnds
