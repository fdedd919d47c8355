SPECIFICATION Spec
\* The server stops at a kill, and may be ended by a signal.
CHECK_DEADLOCK FALSE
CONSTANTS
    Length <- WordLengths
    WallSizes = {1}
    MaxTyped = 1
INVARIANTS
    RunsUntilKilled
