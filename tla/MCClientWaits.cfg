SPECIFICATION FairClientSpec
CONSTANTS
    f1 = f1 v1 = v1 v2 = v2 p1 = p1 p2 = p2 i1 = i1 i2 = i2 t1 = t1 t2 = t2
    w1 = w1 r1 = r1 k1 = k1 x = x b1 = b1 s1 = s1 flags = flags
    None = None
    Functions = {f1}
    Versions = {v1, v2}
    Packages = {p1}
    Inputs = {i1, i2}
    Valid <- MCValid
    TaskIds = {t1}
    WorkerIds = {w1}
    RequestIds = {r1}
    Tokens = {k1}
    Names = {x}
    Fold <- MCFold
    Blobs = {b1}
    Completions <- MCCompletions
    LeaseSeconds = 1
    MaxClock = 2
    MaxClaims = 1
    MaxBeats = 1
    Sessions = {s1}
    Flags = {flags}
    Typed <- MCTyped
    Asks <- MCAsks
    MaxStrays = 1
INVARIANTS
    ClientTypeOK
    WaitIsTrue
PROPERTIES
    WaitEnds
