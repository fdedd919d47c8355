SPECIFICATION Spec
CONSTANTS
    MapElements = 2
    DescSize = 2
    InitialDisks <- EmptyDisks
    ShortBases = {"Gl", "ad"}
    LongBases = {"too_long_name"}
    Paths <- EmptyPaths
    Buffers <- OneBuffer
    WriteOffsets = {0}
    ShortWrites = TRUE
    Misread <- Strays
    CrashPoints = {"idle", "writeNum", "writeOff", "writeList", "crashed"}
    MaxAstray = 2
    MaxDescriptors = 3
    MaxOffset = 5
INVARIANTS
    TypeOK
    ReloadAgrees
    LumpsApart
PROPERTIES
    LumpsSurvive
    OldBytesStay
    CrashAllOrNothing
\* At the bound MaxAstray no torn list is loaded.
CHECK_DEADLOCK FALSE
