SPECIFICATION Spec
CONSTANTS
    WordSize = 2
    Sizes = {4}
    Requests = {2, 63}
    Addresses = {0}
    Allocators = {"bestFit"}
    DevZero = {"opened"}
    Grants = {TRUE}
    DumpOutcomes = {}
    U16 = 8
    U32 = 32
    SizeT = 64
INVARIANT BlocksHoldTheirRequests
