SPECIFICATION Spec

CONSTANTS
    None = None
    m1 = m1
    m2 = m2
    r1 = r1
    r2 = r2
    r3 = r3
    s1 = s1
    s2 = s2
    Callers = {m1, m2, r1, r2, r3}
    Migrators = {m1, m2}
    Sessions = {m1, m2, s1, s2}
    SessionOf <- OwnSessions
    Directories <- Releases
    Crews <- TwoCrews
    Jobs <- SomeJobs
    MaxFaults = 1

INVARIANTS
    LedgerIsTrue
    ReportedIsStored

PROPERTIES
    CallsEnd

CHECK_DEADLOCK FALSE
