SPECIFICATION UploadsSpec
CONSTANTS
    f1 = f1 v1 = v1 v2 = v2 p1 = p1 p2 = p2 i1 = i1 t1 = t1 w1 = w1 r1 = r1 k1 = k1
    x = x b1 = b1 b2 = b2 h1 = h1 h2 = h2 h3 = h3
    None = None
    Functions = {f1}
    Versions = {v1, v2}
    Packages = {p1, p2}
    Inputs = {i1}
    Valid <- MCValid
    TaskIds = {t1}
    WorkerIds = {w1}
    RequestIds = {r1}
    Tokens = {k1}
    Names = {x}
    Fold <- MCFold
    Blobs = {b1, b2}
    Completions <- MCCompletions
    LeaseSeconds = 1
    MaxClock = 2
    MaxClaims = 1
    MaxBeats = 1
    Transfers = {h1, h2, h3}
    Windows = FALSE
SYMMETRY MCSymmetry
INVARIANTS
    UploadsTypeOK
    RowsHaveFiles
    PartsBelong
    FlushedUnlessInstalling
PROPERTIES
    UploadsDriveStore
    ImplementsFiling
