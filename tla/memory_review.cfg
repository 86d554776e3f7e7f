SPECIFICATION Spec
CONSTANTS
    p1 = p1  p2 = p2  p3 = p3
    f1 = f1  f2 = f2  f3 = f3  g1 = g1
    c1 = c1  c2 = c2
    None = None
    Proposals = {p1, p2, p3}
    IsFact = {p1, p2, p3}
    Supersedes = {p1, p2}
    Facts = {f1, f2, f3, g1}
    AddIds = {g1}
    FreshIds = {g1}
    Callers = {c1, c2}
    MaxTime = 2
    MaxOverruns = 1
    Fingerprint <- OwnFingerprints
    Slot <- OneSlot
    Object <- OwnObjects
    Observed <- FirstObserved
    FactOf <- FactOfProposal
    MaxAttempts <- FirstThrice
    IdOf <- OneReviewerId
SYMMETRY CallersAlike
INVARIANTS
    ApprovalHasFact
    FactsAreGated
    OneActiveObject
    SlotKeepsTruth
PROPERTIES
    DecisionFinal
    HistoryFinal
