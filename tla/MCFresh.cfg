CONSTANTS
    i1 = i1
    i2 = i2
    i3 = i3
    Invocations <- Three
    Keys <- MCKeys
    RunIds <- MCRunIds
    Payloads <- MCPayloads
    None = None
    Snapshot = Snapshot
    Assertions <- MCAssertions
    SeverityOf <- MCSeverityOf
    Calls <- FreshCalls
    ValidKeys <- MCValidKeys
    ValidRunIds <- MCValidRunIds
    CanonicalRunIds <- MCCanonicalRunIds
    Jsonb <- MCJsonb
    DictOf <- MCDictOf
    Verdict <- MCVerdict
    ExplicitRunIds = FALSE
    CleanupEnabled = TRUE
    Faults = {"psycopg", "other", "ackLost", "auditLost", "crash"}
    MaxClock = 1
SPECIFICATION Spec
SYMMETRY Symmetry
INVARIANTS
    TypeOK
    PublishedWereChecked
    ReferenceWasPublished
    LedgerAgrees
    ResultIsTruthful
    OneAuditRowPerRun
    QueuedInTheRightLane
