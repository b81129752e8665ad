CONSTANTS
    i1 = i1
    i2 = i2
    i3 = i3
    Invocations <- Two
    Keys <- MCKeys
    RunIds <- MCRunIds
    Payloads <- MCPayloads
    None = None
    Snapshot = Snapshot
    Assertions <- MCAssertions
    SeverityOf <- MCSeverityOf
    Calls <- ReuseCalls
    ValidKeys <- MCValidKeys
    ValidRunIds <- MCValidRunIds
    CanonicalRunIds <- MCCanonicalRunIds
    Jsonb <- MCJsonb
    DictOf <- MCDictOf
    Verdict <- MCVerdict
    ExplicitRunIds = TRUE
    CleanupEnabled = TRUE
    Faults = {}
    MaxClock = 1
SPECIFICATION Spec
INVARIANT PublishedWereChecked
