SPECIFICATION FsSpec
CONSTANTS
    MapElements = 2
    DescSize = 1
    InitialDisks <- EmptyDisks
    ShortBases = {"ad"}
    LongBases = {"too_long_name"}
    Paths <- SomePaths
    Buffers <- SomeBuffers
    WriteOffsets = {0, 1, 2, 3}
    ShortWrites = TRUE
    Misread <- Strays
    CrashPoints = {"idle", "writeNum", "writeOff", "writeList", "crashed"}
    MaxAstray = 1
    MaxDescriptors = 6
    MaxOffset = 3
    Users = {u1, u2}
    Calls <- SomeCalls
    ChunkSize = 2
INVARIANTS
    NamesUnique
    PromisesKept
    NeverCrashes
PROPERTIES
    CrashAllOrNothing
    EveryCallReturns
\* At the bound MaxAstray no torn list is loaded.
CHECK_DEADLOCK FALSE
