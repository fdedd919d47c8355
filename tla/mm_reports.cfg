SPECIFICATION Spec
CONSTANTS
    WordSize = 1
    Sizes = {0, 8, 9}
    Requests = {2, 3, 8}
    Addresses <- LongAddresses
    Allocators = {"worstFit"}
    DevZero = {"opened", "openedAsOne", "failed"}
    Grants = {TRUE, FALSE}
    DumpOutcomes = {"openFails", "shortWrite", "written"}
    U16 = 17
    U32 = 64
    SizeT = 128
\* A dump of a manager that is not initialized ends the process.
CHECK_DEADLOCK FALSE
INVARIANTS
    BitmapComplementsHoleList
PROPERTIES
    DumpListsFreeRuns
