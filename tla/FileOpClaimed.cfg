SPECIFICATION Spec
CONSTANTS
    c1 = c1
    c2 = c2
    c3 = c3
    Dir <- mcDir
    Device <- mcDevice
    Mount <- mcMount
    Content = {c1, c3}
    Digest <- mcDigest
    Patient = FALSE
    ReconcileFaults = FALSE
    MaxOps = 3
    MaxFaults = 0
    MaxCrashes = 0
    MaxResumes = 0
    MaxExternal = 0
    Name = {"a"}
    CatId = {1}
    InitDisk <- sameDisk
    InitCatalog <- sameRows
    Requests <- raceMoves
PROPERTIES CompletedMeansMoved
CHECK_DEADLOCK FALSE
