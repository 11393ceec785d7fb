SPECIFICATION Spec
CONSTANTS
    c1 = c1
    c2 = c2
    c3 = c3
    Dir <- mcDir
    Device <- mcDevice
    Mount <- mcMount
    Content = {c1, c2}
    Digest <- mcDigest
    Patient = FALSE
    ReconcileFaults = TRUE
    MaxOps = 1
    MaxFaults = 1
    MaxCrashes = 1
    MaxResumes = 1
    MaxExternal = 1
    Name = {"a", "b"}
    CatId = {1, 2}
    InitDisk <- pairDisk
    InitCatalog <- pairRows
    Requests <- outMoves
PROPERTIES JobsEnd ResumeCompletes
CHECK_DEADLOCK FALSE
