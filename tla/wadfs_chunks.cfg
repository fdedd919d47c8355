SPECIFICATION FsSpec
CONSTANTS
    MapElements = 2
    DescSize = 1
    InitialDisks <- EmptyDisks
    ShortBases = {"ad"}
    LongBases = {"too_long_name"}
    Paths <- CopyPaths
    Buffers <- CopyBuffers
    WriteOffsets = {0, 1, 2, 3}
    ShortWrites = FALSE
    Misread <- Strays
    CrashPoints = {}
    MaxAstray = 0
    MaxDescriptors = 10
    MaxOffset = 10
    Users = {u1}
    Calls <- CopyCalls
    ChunkSize = 2
PROPERTIES
    CopiesWhole
