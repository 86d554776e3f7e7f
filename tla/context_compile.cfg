SPECIFICATION Spec

CONSTANTS
    None = None
    Hung = Hung
    policy = policy
    need = need
    fact = fact
    echo = echo
    note = note
    newer = newer
    hidden = hidden
    c1 = c1
    c2 = c2
    Ids = {policy, need, fact, echo, note, newer, hidden}
    Rec <- Records
    Cap <- Caps
    MaxSelected = 4
    MinEvidence = 2
    MaxComparisons = 8
    Compiles = {c1, c2}
    Requests <- Offered
    Clock <- Clocks
    Registered = {"exact", "lexical"}
    MaxEdits = 1
    MaxFaults = 1

INVARIANTS
    OnlyFromSuccess
    SelectionSound
    AnnouncedIsStored

PROPERTIES
    QueriesEnd

CHECK_DEADLOCK FALSE
