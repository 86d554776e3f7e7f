SPECIFICATION Spec

CONSTANTS
    None = None
    c1 = c1
    c2 = c2
    c3 = c3
    k1 = k1
    k2 = k2
    Calls = {c1, c2, c3}
    Tools <- Registry
    Offered <- Requests
    Mixes <- Mix
    RetryOf <- ThirdRetries
    Cancellable = {c1}
    MaxFaults = 1

INVARIANTS
    AbortedNeverRecords
    EffectOnce
    CompletedWriteHappened
    WritesAudited
PROPERTIES
    EventuallyAnswered

CHECK_DEADLOCK FALSE
