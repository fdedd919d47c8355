---------------------------- MODULE MCWallServer ----------------------------
\* Small instances of WallServer for TLC.
EXTENDS WallServer, TLC

\* The commands, the line end, a short word and one that just fits beside it.
CommandLengths ==
    [w \in Commands \cup {"newline"} |-> CASE w = "clear" -> 5
                                           [] w = "newline" -> 1
                                           [] OTHER -> 4]
WordLengths == [x |-> 1, long |-> 77] @@ CommandLengths
=============================================================================
