SPECIFICATION Spec
CONSTANTS
    MapElements = 2
    DescSize = 2
    InitialDisks <- EmptyDisks
    ShortBases = {"Gl", "ad"}
    LongBases = {"too_long_name"}
    Paths <- EmptyPaths
    Buffers <- OneBuffer
    WriteOffsets = {0, 1}
    ShortWrites = FALSE
    Misread <- Strays
    CrashPoints = {"idle", "crashed"}
    MaxAstray = 0
    MaxDescriptors = 10
    MaxOffset = 8
PROPERTIES
    WrittenReadsBack
