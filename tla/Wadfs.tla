-------------------------------- MODULE Wadfs ---------------------------------
(***************************************************************************)
(* wadfs: the FUSE daemon that serves a Wad, run with -s.  Processes make  *)
(* system calls below the mount point; the kernel turns a call into        *)
(* requests and the daemon serves one request at a time, with calls of     *)
(* libWad.  Requests of different processes may follow one another in any  *)
(* order, but mkdir and mknod lock the parent directory and write locks    *)
(* the file, from their first request to their last.                       *)
(*                                                                         *)
(* libWad creates what it is asked to, twice if asked twice, and does not  *)
(* survive a write to a path that leads nowhere: that neither happens here *)
(* depends on the answers of wad_getattr.                                  *)
(***************************************************************************)
EXTENDS Wad, FiniteSets

CONSTANTS
    Users,        \* the processes
    Calls,        \* the calls they make: records [op, path, data]
    ChunkSize     \* bytes of one write request: 4096 in the kernel

ASSUME ChunkAssumption == ChunkSize \in Nat \ {0}

VARIABLES
    call,         \* user -> the call it is in, and how far it has come
    promised      \* path -> entry: what successful calls have told users

fsVars == <<vars, call, promised>>

\* What the users ask the daemon for is what the library may be asked for: the
\* paths of their calls, and any part of their data at any place in it.
CallsServed ==
    \A c \in Calls :
       /\ c.path \in Paths
       /\ c.data \in Seq({c.data[i] : i \in DOMAIN c.data})
       /\ 0 .. Len(c.data) \subseteq WriteOffsets
       /\ \A i, j \in 0 .. Len(c.data) : SubSeq(c.data, i + 1, j) \in Buffers

-----------------------------------------------------------------------------
(* The handlers that change nothing                                        *)

\* wad_getattr: the kind of file it reports, or nothing for -ENOENT.
GetattrOfSomeSize(path) ==
    IF IsDirectory(path) THEN "directory"
    ELSE IF GetSize(path) > 0 THEN "file" ELSE "nothing"
GetattrOrFile(path) == IF IsDirectory(path) THEN "directory" ELSE "file"
Getattr(path) ==
    IF IsDirectory(path) THEN "directory"
    ELSE IF IsContent(path) THEN "file" ELSE "nothing"

\* wad_readdir, without . and .. : no names for -ENOENT.
Readdir(path) == GetDirectory(path).names

\* wad_read of a whole file.
Read(path) == ReadAnswer(path, GetSize(path), 0).bytes

-----------------------------------------------------------------------------
(* Calls                                                                   *)

NoCall == [op |-> "none", path |-> <<>>, data |-> <<>>, stage |-> "ready", done |-> 0, count |-> 0]
FsEntry(isDir, bytes) == [isDir |-> isDir, bytes |-> bytes]
NothingPromised == [p \in {} |-> FsEntry(TRUE, <<>>)]

\* A creation locks the parent directory and a write locks the file, once it
\* has waited for it.
LockOf(c) == IF c.op = "write" THEN c.path ELSE ParentPath(c.path)
Held(path) == \E u \in Users :
    call[u].stage \in {"locked", "absent", "served", "made"} /\ LockOf(call[u]) = path

\* The daemon waits for the next request.
Free == wadPc = "idle" /\ \A u \in Users : call[u].stage # "served"

At(u, ops, stage) == call[u].op \in ops /\ call[u].stage = stage
Creations == {"mkdir", "mknod"}

Stage(u, stage) ==
    /\ call' = [call EXCEPT ![u].stage = stage]
    /\ UNCHANGED promised

\* The call returns to its process.
Fail(u) ==
    /\ call' = [call EXCEPT ![u] = NoCall]
    /\ UNCHANGED promised
Succeed(u, entry) ==
    /\ call' = [call EXCEPT ![u] = NoCall]
    /\ promised' = [p \in DOMAIN promised \union {call[u].path} |->
                       IF p = call[u].path THEN entry ELSE promised[p]]

FsInit ==
    /\ Init
    /\ call = [u \in Users |-> NoCall]
    /\ promised = NothingPromised

\* Bound: the creations users have asked for stay within MaxDescriptors, which
\* so never holds one up.
HasRoom == Len(descriptors) + 2 * Cardinality(Users) <= MaxDescriptors

\* A process makes a call.
Begin(u, c) ==
    /\ wadPc \notin {"down", "crashed"}
    /\ call[u] = NoCall
    /\ c.op \in Creations => HasRoom
    /\ call' = [call EXCEPT ![u] = [op |-> c.op, path |-> c.path, data |-> c.data,
                                    stage |-> "waiting", done |-> 0, count |-> 0]]
    /\ UNCHANGED <<vars, promised>>

-----------------------------------------------------------------------------
(* mkdir and mknod                                                         *)

\* The kernel looks up the parent: ENOENT or ENOTDIR without one.
NoParent(u) ==
    /\ At(u, Creations, "waiting") /\ Free
    /\ Getattr(ParentPath(call[u].path)) # "directory"
    /\ Fail(u)
    /\ UNCHANGED vars

LockParent(u) ==
    /\ At(u, Creations, "waiting") /\ Free
    /\ Getattr(ParentPath(call[u].path)) = "directory"
    /\ ~ Held(ParentPath(call[u].path))
    /\ Stage(u, "locked")
    /\ UNCHANGED vars

\* It looks up the name itself: EEXIST when it is there.
NameTaken(u) ==
    /\ At(u, Creations, "locked") /\ Free
    /\ Getattr(call[u].path) # "nothing"
    /\ Fail(u)
    /\ UNCHANGED vars

NameFree(u) ==
    /\ At(u, Creations, "locked") /\ Free
    /\ Getattr(call[u].path) = "nothing"
    /\ Stage(u, "absent")
    /\ UNCHANGED vars

\* wad_mkdir and wad_mknod answer 0 whatever the library did.
Mkdir(u) ==
    /\ At(u, {"mkdir"}, "absent") /\ Free
    /\ \/ CreateDirectory(call[u].path)
       \/ DirectoryRefused(call[u].path) /\ UNCHANGED vars
    /\ Stage(u, "served")
Mknod(u) ==
    /\ At(u, {"mknod"}, "absent") /\ Free
    /\ \/ CreateFile(call[u].path)
       \/ FileRefused(call[u].path) /\ UNCHANGED vars
    /\ Stage(u, "served")

\* libfuse looks the new name up in the same request, and answers -ENOENT for
\* the handler when it is not there.
MadeNothing(u) ==
    /\ At(u, Creations, "served") /\ wadPc = "idle"
    /\ Getattr(call[u].path) = "nothing"
    /\ Fail(u)
    /\ UNCHANGED vars
Made(u) ==
    /\ At(u, Creations, "served") /\ wadPc = "idle"
    /\ Getattr(call[u].path) # "nothing"
    /\ Succeed(u, FsEntry(Getattr(call[u].path) = "directory", <<>>))
    /\ UNCHANGED vars

-----------------------------------------------------------------------------
(* read and write                                                          *)

\* ENOENT, or EISDIR.
OpenFails(u) ==
    /\ At(u, {"read", "write"}, "waiting") /\ Free
    /\ Getattr(call[u].path) # "file"
    /\ Fail(u)
    /\ UNCHANGED vars

ReadFile(u) ==
    /\ At(u, {"read"}, "waiting") /\ Free
    /\ Getattr(call[u].path) = "file"
    /\ Succeed(u, FsEntry(FALSE, Read(call[u].path)))
    /\ UNCHANGED vars

LockFile(u) ==
    /\ At(u, {"write"}, "waiting") /\ Free
    /\ Getattr(call[u].path) = "file"
    /\ ~ Held(call[u].path)
    /\ Stage(u, "locked")
    /\ UNCHANGED vars

\* The bytes of the next request.
Chunk(c) ==
    LET last == c.done + ChunkSize
    IN  SubSeq(c.data, c.done + 1, IF last < Len(c.data) THEN last ELSE Len(c.data))

\* After an answer of count bytes the kernel sends the next chunk, unless that
\* was the last or the answer was short.
StopsAtTheEnd(c, count) == c.done + count = Len(c.data)
Stops(c, count) == c.done + count = Len(c.data) \/ count < Len(Chunk(c))
ChunkAnswered(u, count) ==
    /\ call' = [call EXCEPT ![u].done = @ + count, ![u].count = 0,
                            ![u].stage = IF Stops(call[u], count) THEN "made" ELSE "locked"]
    /\ UNCHANGED promised

\* wad_write passes on what writeToFile answers.  A chunk that is refused, with
\* 0 or -1, or that finds no space, counts nothing.
SendChunk(u) ==
    /\ At(u, {"write"}, "locked") /\ Free
    /\ WriteToFile(call[u].path, Chunk(call[u]), call[u].done)
    /\ IF wadPc' = "idle" THEN ChunkAnswered(u, 0)
       ELSE /\ call' = [call EXCEPT ![u].stage = "served", ![u].count = off' - off]
            /\ UNCHANGED promised
ChunkRefused(u) ==
    /\ At(u, {"write"}, "locked") /\ Free
    /\ RefuseWrite(call[u].path) \/ WriteToNothing(call[u].path)
    /\ ChunkAnswered(u, 0)
ChunkWritten(u) ==
    /\ At(u, {"write"}, "served") /\ wadPc = "idle"
    /\ ChunkAnswered(u, call[u].count)
    /\ UNCHANGED vars

\* write(2) returns the bytes of the whole chunks before it, or EIO for none.
WriteReturns(u) ==
    /\ At(u, {"write"}, "made")
    /\ IF call[u].done = 0 THEN Fail(u)
       ELSE Succeed(u, FsEntry(FALSE, SubSeq(call[u].data, 1, call[u].done)))
    /\ UNCHANGED vars

-----------------------------------------------------------------------------
(* The daemon                                                              *)

\* main loads the WAD and enters the loop of FUSE.
Mount == LoadWad /\ UNCHANGED <<call, promised>>

\* The daemon is killed, or unmounted: every call fails with ENOTCONN.
Unmount ==
    /\ GoDown
    /\ call' = [u \in Users |-> NoCall]
    /\ UNCHANGED promised

Library ==
    /\ WriteNum \/ WriteOff \/ WriteDescriptor \/ CallReturn
    /\ UNCHANGED <<call, promised>>

Proceed(u) ==
    \/ NoParent(u)
    \/ LockParent(u)
    \/ NameTaken(u)
    \/ NameFree(u)
    \/ Mkdir(u)
    \/ Mknod(u)
    \/ MadeNothing(u)
    \/ Made(u)
    \/ OpenFails(u)
    \/ ReadFile(u)
    \/ LockFile(u)
    \/ SendChunk(u)
    \/ ChunkRefused(u)
    \/ ChunkWritten(u)
    \/ WriteReturns(u)

FsNext ==
    \/ Mount
    \/ Unmount
    \/ Library
    \/ \E u \in Users : Proceed(u) \/ \E c \in Calls : Begin(u, c)

\* The daemon does not stop in the middle of a call of the library, and when it
\* has died of one the kernel closes its connection.  Requests wait in a queue,
\* and so do those who wait for a lock.
Disconnect == wadPc = "crashed" /\ Unmount
Fairness ==
    /\ WF_fsVars(Library)
    /\ WF_fsVars(Disconnect)
    /\ \A u \in Users : SF_fsVars(Proceed(u))

FsSpec == FsInit /\ [][FsNext]_fsVars /\ Fairness

-----------------------------------------------------------------------------
(* What must hold                                                          *)

\* A path as the kernel hands it over, split at its slashes.
IsSplit(path) == \A k \in DOMAIN path : path[k] # Plain("")
PathsSplit == \A c \in Calls : IsSplit(c.path)

\* No directory has two children of one name; the WAD files the daemon is
\* given are of this kind.
NoNamesakes(nodes) ==
    \A i, j \in DOMAIN nodes :
       nodes[i].parent = nodes[j].parent /\ nodes[i].name = nodes[j].name => i = j
NamesUniqueFirst ==
    \A d \in InitialDisks : IsWhole(d) => NoNamesakes(Parse(ListOf(d), d.num).nodes)

\* No directory lists a name twice, though createDirectory and createFile
\* would create what is there already.
NamesUnique ==
    \A c \in Calls :
       LET names == Readdir(ParentPath(c.path))
       IN  wadPc = "idle" /\ astray = 0 => \A i, j \in DOMAIN names : names[i] = names[j] => i = j

\* What a successful call told its user stays true, in the daemon and in every
\* file it leaves whole: the entry is there, of that kind, with those bytes
\* if there were any, whoever has called since.
PromisesKept ==
    astray = 0 /\ (wadPc # "down" \/ ListIsWhole) =>
       \A f \in {Reachable(nodes) : nodes \in {Served}}, p \in DOMAIN promised :
          /\ p \in DOMAIN f
          /\ f[p].isDir = promised[p].isDir
          /\ promised[p].bytes \in {<<>>, f[p].bytes}

\* Every call returns: none waits for ever for the daemon or for a lock.
EveryCallReturns == \A u \in Users : call[u] # NoCall ~> call[u] = NoCall

-----------------------------------------------------------------------------
(* What commands.txt expects, and the code does not do                     *)

\* cp into the mounted WAD: a write to an empty file that tells its user of
\* some bytes has written all of them, if the disk took them.
CopiesWhole ==
    [][\A u \in Users :
          WriteReturns(u) /\ call[u].done > 0 => call[u].done = Len(call[u].data)]_fsVars
=============================================================================
