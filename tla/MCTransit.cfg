SPECIFICATION TransitSpec
CONSTANTS
    x = x y = y none = none
    NoManifest = none
    InputNames = {"text", "more", "result"}
    Components <- MCComponents
    Fold <- MCFold
    Unsafe = {"aux"}
    Ignored = {".git"}
    Contents <- MCContents
    MaxBytes = 3
    MaxFiles = 3
    MaxManifest = 1
    Trees <- MCTrees
    Archives <- MCArchives
    Outputs <- MCOutputs
    Disks <- MCDisks
    MaxOutputs = 4
    Logs <- MCLogs
INVARIANTS
    TransitTypeOK
    UnpackingSucceeds
    CommandsComplete
    DeliveredIntact
    RoundTrip
    UnpackedWithinLimits
    OnlyDeclaredReach
    DownloadsSucceed
CHECK_DEADLOCK FALSE
