SPECIFICATION RunsSpec
INVARIANTS
    TestsPass
    LibTestsPass
PROPERTIES
    TestsEnd
