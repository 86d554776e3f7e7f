SPECIFICATION Spec
CONSTANTS
    w1 = w1  w2 = w2  p1 = p1  p2 = p2  r1 = r1  r2 = r2  a1 = a1  a2 = a2
    None = None
    Runs = {r1}
    Procs = {p1}
    ClientProcs = {p1}
    Workers = {w1, w2}
    Approvals = {a1, a2}
    NSteps = 2
    MaxOverruns = 0
    MaxCrashes = 0
    RunOversized = FALSE
    Idempotent = {}
    Oversized = {}
    StartKey <- OwnStartKeys
    ProcOf <- OneProcess
    IdOf <- DistinctWorkerIds
    Kind <- ApprovalFirst
    MaxAttempts <- Twice
    KeyOf <- OwnEffectKeys
    Fingerprint <- OneFingerprint
    Registered <- AllRegistered
PROPERTIES
    TerminalIsFinal
