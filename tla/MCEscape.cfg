CONSTANTS
    i1 = i1
    i2 = i2
    i3 = i3
    Invocations <- Two
    Keys <- MCKeys
    RunIds <- MCRunIds
    Payloads <- MCPayloads
    None = None
    Snapshot = Snapshot
    Assertions <- MCAssertions
    SeverityOf <- MCSeverityOf
    Calls <- FreshCalls
    ValidKeys <- MCValidKeys
    ValidRunIds <- MCValidRunIds
    CanonicalRunIds <- MCCanonicalRunIds
    Jsonb <- MCJsonb
    DictOf <- MCDictOf
    Verdict <- MCVerdict
    ExplicitRunIds = FALSE
    CleanupEnabled = FALSE
    Faults = {"psycopg"}
    MaxClock = 1
SPECIFICATION Spec
INVARIANT FailuresAreReturned
