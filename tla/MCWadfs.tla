------------------------------ MODULE MCWadfs -------------------------------
\* Small instances of Wadfs for TLC.
EXTENDS Wadfs

\* What the proofs assume of a WAD file and of its users.
ASSUME WellMade == BalancedDisks /\ DirectoriesNamed /\ CallsServed /\ NamesUniqueFirst /\ PathsSplit

Ad == Plain("ad")
Txt == Plain("mp.txt")
TooLong == Plain("too_long_name")

EmptyDisk == [num |-> 0, off |-> 1, cells |-> [c \in {} |-> Byte("none")]]
EmptyDisks == {EmptyDisk}

\* What stray bytes are taken for: the end of a directory.
Strays == { Descriptor(EndName(Ad), 0, 0) }

Call(op, path) == [op |-> op, path |-> path, data |-> <<>>]
Write(path, data) == [op |-> "write", path |-> path, data |-> data]

\* A directory and a file in it, the same name as a file, a name that is
\* refused, and two who write into the same file.
SomeCalls == { Call("mkdir", <<Ad>>), Call("mknod", <<Ad, Txt>>), Call("mknod", <<Ad>>),
               Call("mkdir", <<TooLong>>),
               Write(<<Ad, Txt>>, <<"a", "b", "c">>), Write(<<Ad, Txt>>, <<"z">>),
               Call("read", <<Ad, Txt>>) }

\* cp: create a file and write all of it.
CopyCalls == { Call("mknod", <<Txt>>), Write(<<Txt>>, <<"a", "b", "c">>) }

\* What the library is asked for.
SomePaths == {c.path : c \in SomeCalls}
Parts(data) == {SubSeq(data, i + 1, j) : i, j \in 0 .. Len(data)}
SomeBuffers == UNION {Parts(c.data) : c \in SomeCalls}
CopyPaths == {c.path : c \in CopyCalls}
CopyBuffers == UNION {Parts(c.data) : c \in CopyCalls}
=============================================================================
