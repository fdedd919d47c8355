SPECIFICATION FairSpec
\* The three processes end.
CHECK_DEADLOCK FALSE
CONSTANTS
    Arguments <- SomeArguments
INVARIANTS
    TypeOK
    WrongOnlyByLoss
    NobodyStuck
PROPERTIES
    CleanUnlessLoss
    ChildrenReaped
    EveryoneEnds
