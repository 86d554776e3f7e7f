SPECIFICATION Spec

CONSTANTS
    None = None
    c0 = c0
    c1 = c1
    c2 = c2
    c3 = c3
    sc = sc
    ann = ann
    bob = bob
    Calls = {c0, c1, c2, c3, sc}
    Users = {ann, bob}
    Earlier <- Files
    Procs = {"api", "script"}
    Script = sc
    Offered <- Asks
    LoginLimit = 1
    RecallLimit = 1
    MaxFaults = 1

INVARIANTS
    AnsweredKept
    EndedIsOut

PROPERTIES
    RequestsEnd

CHECK_DEADLOCK FALSE
