SPECIFICATION Spec

CONSTANTS
    None = None
    a1 = a1
    a2 = a2
    c = c
    w1 = w1
    w2 = w2
    b1 = b1
    b2 = b2
    Logical = {a1, a2}
    Content <- OneBody
    Retention <- Modes
    Workers = {w1, w2}
    MaxNames = 1
    MaxOps = 3
    MaxStops = 1
    Backups = {b1, b2}
    Altered = Altered
    MaxAltered = 2

SYMMETRY Alike

ACTION_CONSTRAINT RestoresApart

INVARIANTS
    RecordHasBody
    NoStrayBody
    VerifiedIsWhole
    RestoreSound

CHECK_DEADLOCK FALSE
