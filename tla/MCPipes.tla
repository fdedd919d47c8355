------------------------------ MODULE MCPipes -------------------------------
\* Small instances of Pipes for TLC.
EXTENDS Pipes

\* Numbers in no order, and with duplicates and a negative one.
SomeArguments == { <<3, 5, 1, 4, 2>>, <<2, -1, 2, -1, 2>> }
=============================================================================
