SPECIFICATION FairSpec
\* The server stops at a kill, and may be ended by a signal.
CHECK_DEADLOCK FALSE
CONSTANTS
    Length <- WordLengths
    WallSizes = {0, 1, 2}
    MaxTyped = 4
INVARIANTS
    TypeOK
    WallHoldsLatest
    MessagesFit
    WallInTypingOrder
PROPERTIES
    SessionEnds
