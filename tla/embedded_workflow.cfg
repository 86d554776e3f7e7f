SPECIFICATION Spec

CONSTANTS
    None = None
    c1 = c1
    c2 = c2
    c3 = c3
    r1 = r1
    r2 = r2
    Calls = {c1, c2, c3}
    Runs = {r1, r2}
    RunOf <- SecondTwice
    Steps = 2
    MaxAttempts <- RetrySecond
    MaxStarts = 2
    MaxFaults = 1
    MaxNotes = 1

SYMMETRY SecondsAlike

INVARIANTS
    LeftBehindByFaults

PROPERTIES
    ImplementsLifecycle
    NoHandlerAfterAbort

CHECK_DEADLOCK FALSE
