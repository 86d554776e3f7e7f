SPECIFICATION Spec
CONSTANTS
    w1 = w1  w2 = w2  p1 = p1  p2 = p2  r1 = r1  r2 = r2  a1 = a1  a2 = a2
    None = None
    Runs = {r1, r2}
    Procs = {p1, p2}
    ClientProcs = {p1}
    Workers = {w1, w2}
    Approvals = {}
    NSteps = 2
    MaxOverruns = 0
    MaxCrashes = 0
    RunOversized = TRUE
    Idempotent = {1}
    Oversized = {}
    StartKey <- OwnStartKeys
    ProcOf <- TwoProcesses
    IdOf <- DistinctWorkerIds
    Kind <- Activities
    MaxAttempts <- Once
    KeyOf <- SharedEffectKey
    Fingerprint <- FingerprintPerRun
    Registered <- SecondLacksLastHandler
INVARIANTS
    KeyKeepsOperation
