SPECIFICATION Spec
CONSTANTS
    c1 = c1
    c2 = c2
    c3 = c3
    Dir <- mcDir
    Device <- mcDevice
    Mount <- mcMount
    Content = {c1, c2}
    Digest <- mcDigest
    Patient = FALSE
    ReconcileFaults = FALSE
    MaxOps = 2
    MaxFaults = 1
    MaxCrashes = 0
    MaxResumes = 0
    MaxExternal = 1
    Name = {"a"}
    CatId = {1}
    InitDisk <- loneDisk
    InitCatalog <- sameRows
    Requests <- oneMoves
PROPERTIES ReconcileKeepsContent
CHECK_DEADLOCK FALSE
