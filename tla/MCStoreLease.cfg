SPECIFICATION Spec
CONSTANTS
    f1 = f1 f2 = f2 v1 = v1 v2 = v2 p1 = p1 p2 = p2 i1 = i1 i2 = i2
    t1 = t1 t2 = t2 w1 = w1 w2 = w2 r1 = r1 r2 = r2
    k1 = k1 k2 = k2 x = x X = X b1 = b1 b2 = b2
    None = None
    Functions = {f1, f2}
    Versions = {v1}
    Packages = {p1}
    Inputs = {i1}
    Valid <- MCValid
    TaskIds = {t1}
    WorkerIds = {w1}
    RequestIds = {r1}
    Tokens = {k1}
    Names = {x, X}
    Fold <- MCFold
    Blobs = {b1, b2}
    Completions <- MCCompletions
    LeaseSeconds = 2
    MaxClock = 5
    MaxClaims = 1
    MaxBeats = 2
INVARIANTS
    TypeOK
    LeaseFloor
    WorkerServesOneFunction
    ArtifactNamesUnique
PROPERTIES
    TerminalImmutable
    LapsedLeaseIsDead
