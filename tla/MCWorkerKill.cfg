SPECIFICATION WorkerSpec
CONSTANTS
    f1 = f1 v1 = v1 p1 = p1 i1 = i1 t1 = t1 t2 = t2 w1 = w1 w2 = w2
    r1 = r1 r2 = r2 r3 = r3 k1 = k1 k2 = k2 out = out log = log b1 = b1
    None = None
    Functions = {f1}
    Versions = {v1}
    Packages = {p1}
    Inputs = {i1}
    Valid <- MCValid
    Fold <- MCFold
    Names = {out}
    Blobs = {b1}
    Completions <- MCCompletions
    FunctionOf <- MCFunctionOf
    Files <- MCFiles
    ExitCodes = {0, 1}
    TaskIds = {t1}
    WorkerIds = {w1}
    RequestIds = {r1, r2}
    Tokens = {k1}
    LeaseSeconds = 1
    MaxClock = 2
    MaxClaims = 1
    MaxBeats = 0
    MaxStrays = 0
    Kills = {"killed", "cleanup error", "other error"}
    Once = FALSE
SYMMETRY MCSymmetry
INVARIANTS
    NoSlotWhileScriptLives
