SPECIFICATION Spec
CONSTANTS
    c1 = c1
    c2 = c2
    c3 = c3
    Dir <- mcDir
    Device <- mcDevice
    Mount <- mcMount
    Content = {c1, c2}
    Digest <- mcDigest
    Patient = TRUE
    ReconcileFaults = FALSE
    MaxOps = 1
    MaxFaults = 0
    MaxCrashes = 1
    MaxResumes = 0
    MaxExternal = 0
    Name = {"a", "b"}
    CatId = {1, 2}
    InitDisk <- pairDisk
    InitCatalog <- pairRows
    Requests <- pairMoves
INVARIANTS CatalogFollowsFile
CHECK_DEADLOCK FALSE
