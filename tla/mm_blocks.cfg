SPECIFICATION FairSpec
CONSTANTS
    WordSize = 2
    Sizes = {0, 6}
    Requests <- AllRequests
    Addresses <- AllAddresses
    Allocators = {"bestFit", "worstFit", "custom"}
    DevZero = {"opened", "openedAsOne", "failed"}
    Grants = {TRUE, FALSE}
    DumpOutcomes = {}
    U16 = 8
    U32 = 32
    SizeT = 64
INVARIANTS
    TypeOK
    ListTilesMemory
    HolesCoalesced
    LiveBlocksBacked
    IndInv
    ScanInv
PROPERTIES
    LiveBlocksStay
    AllocateComplete
    PlacementFollowsPolicy
    HeapSpec
    CallReturns
