SPECIFICATION Spec
CONSTANTS
    f1 = f1 f2 = f2 v1 = v1 v2 = v2 p1 = p1 p2 = p2 i1 = i1 i2 = i2
    t1 = t1 t2 = t2 w1 = w1 w2 = w2 r1 = r1 r2 = r2
    k1 = k1 k2 = k2 x = x X = X b1 = b1 b2 = b2
    None = None
    Functions = {f1}
    Versions = {v1}
    Packages = {p1}
    Inputs = {i1}
    Valid <- MCValid
    TaskIds = {t1, t2}
    WorkerIds = {w1, w2}
    RequestIds = {r1, r2}
    Tokens = {k1, k2}
    Names = {}
    Fold <- MCFold
    Blobs = {b1}
    Completions <- MCSuccess
    LeaseSeconds = 2
    MaxClock = 3
    MaxClaims = 2
    MaxBeats = 0
SYMMETRY MCSymmetry
INVARIANTS
    WorkerSlotUnique
    ClaimUnique
    LostOnlyAfterLease
    NoOvertaking
PROPERTIES
    NeverReassigned
    ImplementsLifecycle
