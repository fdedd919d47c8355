SPECIFICATION Spec
CONSTANTS
    MapElements = 2
    DescSize = 2
    InitialDisks <- SampleDisks
    ShortBases = {"Gl", "ad"}
    LongBases = {"too_long_name"}
    Paths <- SamplePaths
    Buffers <- OneBuffer
    WriteOffsets = {0}
    ShortWrites = FALSE
    Misread <- Strays
    CrashPoints = {"idle", "crashed"}
    MaxAstray = 0
    MaxDescriptors = 11
    MaxOffset = 8
INVARIANTS
    ReloadAgrees
PROPERTIES
    FileTreeSpec
