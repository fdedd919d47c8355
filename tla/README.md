# Specifications of the operating-systems projects

TLA+ specifications of the stateful programs of this repository, the TLC runs
that check them on small instances, and TLAPS proofs for every value of the
constants: the memory manager implements an abstract heap, the wall server shows
the latest messages, the WAD library never overwrites the bytes before its list,
the three processes of the pipes exercise print what they should unless one is
killed and never wait for each other in a circle, the daemon keeps what it promised
its users. That last promise has a limit, which the code has too: it holds over any
death that leaves a whole descriptor list. A daemon that loads a list torn by a death
in the middle of its rewriting, or whose disk does not take header and list, may lose
entries, show names twice, or die as it starts; the model does the same.

## The system

The repository collects independent course programs. Those with state of their
own that operations change over time are:

| part | state | operations | interacts by |
|---|---|---|---|
| MemoryManager (Project 2) | mapped block, node list, allocator | initialize, allocate, free, shutdown, setAllocator, getList, getBitmap, dumpMemoryMap | calls from one client; the allocator is a callback; mmap, open, write |
| libWad (Project 3) | WAD file (header, lumps, descriptor list), descriptors, tree | loadWad, createDirectory, createFile, writeToFile, lookups and reads | calls from one client; read(2), write(2) |
| wadfs (Project 3) | one Wad | getattr, mknod, mkdir, read, write, readdir | system calls of any process, cut by the kernel into requests the daemon serves one at a time |
| wall server (Exercise 8) | queue of messages, the dialogue with one client | post, clear, quit, kill | TCP |
| pipes (Exercise 7, part 3) | four pipes, three processes | fork, close, read, write, wait | pipes, and the ends a fork copies |
| test programs (Project 2, Project 3) | a manager, a WAD, the step of the test | calls and checks | calls of MemoryManager and of libWad |
| log-level system calls (Project 1) | one global int | get, set, log | any processor, no lock |
| threads (Exercise 5) | ten threads, rand | search, join | shared rand and cout |
| one-shot server and client (Exercise 9) | one connection | one exchange | TCP |

What is hard in them:

- MemoryManager: the invariants of the list are nowhere in the code; they
  follow from splits, marks and merges made many calls apart. Widths: offsets
  are uint16_t, sizes size_t, words int.
- libWad: the tree remembers indices into the descriptor list, and every
  insertion moves them; the file is rewritten in place, in several writes, any
  of which may be the last, be short or fail: only the result of the write of data
  is looked at, and loadWad parses whatever it reads.
- wadfs: one system call is several requests, between which those of other
  processes are served; answers that hide what the library did.
- the wall server: lines that arrive in pieces or together, results ignored,
  clients that go away at any point.
- pipes: a read ends only when every copy of the write end is closed, in
  processes that may be killed or were never born.

What makes them correct: the memory list tiles the block and the client's
blocks are exactly the nodes in use; the WAD's tree in memory is the one a
reload builds, and files keep their bytes; what a successful system call told
its user stays true as long as the list on disk is whole; the wall holds the latest messages whole; every call,
dialogue and process ends.

Everything else in the repository (exercises with patches, transcripts,
screenshots, tests of code that is not here) is listed in `PROJECT.json` with
the reason it is left out.

## Modules

    WordHeap             abstract heap: capacity, live blocks, grant or refuse
    MemoryManager        MemoryManager.cpp, refines WordHeap (HeapSpec)
    MCMemoryManager      constants of its instances
    MemoryManagerProofs  the inductive invariant and what follows from it; every call
                         runs out
    AllocatorProofs      allocators, reports, and the refinement of WordHeap

    FileTree             abstract tree of paths, files written once
    Wad                  wad.cpp, refines FileTree (FileTreeSpec)
    MCWad                constants of its instances
    WadProofs            types, lumps apart, no byte before the list overwritten
    ReloadProofs         a reload builds the tree there is in memory
    FileTreeProofs       a crash leaves all or nothing; the refinement of FileTree
    Wadfs                wadfs.cpp and its callers, over Wad
    MCWadfs              constants of its instances
    WadfsProofs          a client of Wad, no crash, no name twice, promises kept, all or
                         nothing of a request, every call runs out

    WallServer           ex8/server.cpp: the sessions of the wall server
    MCWallServer         constants of its instances
    WallServerProofs     types, latest messages, limits and typing order; every session
                         runs out

    Pipes                Poche_part3.cpp: three processes and four pipes
    MCPipes              constants of its instance
    PipesProofs          sorting, the invariant of the three processes, and that none
                         waits for ever

    CommandLineTests     CommandLineTest.cpp, on MemoryManager
    LibTests             libtest.cpp, on Wad
    RepositoryTests      the two test programs one after the other

`Wadfs` extends `Wad`, the two test modules instantiate `MemoryManager` and
`Wad`, and the proof modules extend the module they are about.

### MemoryManager

State: `mapped` is `physicalMem != nullptr`, `list` the linked list from
`head` on, `allocator` the installed function, `totalWords` itself. `live` is
the client's own record of what it was granted, and `file` what the last dump
left. `pc` and the locals (`caller`, `bytes`, `words`, `holeInfo`, `cur`,
`best`, `bestLen`) belong to the call in progress.

Each loop of the code is one action per iteration: `GetListStep` (getList),
`FitStep` (bestFit, worstFit), `MergeStep` (the second pass of free). The
search for a node, which only reads, is one step (`Chosen`, `Freed`: the first
node that fits the test of the code's loop). `CustomFit` is any function a
client may install: it answers -1 or the offset of a hole that fits.

The environment is in the constants: what `open` and `mmap` answer (`DevZero`,
`Grants`), what becomes of a dump (`DumpOutcomes`), and the widths `U16`,
`U32`, `SizeT`, which the runs shrink so that the edges are near. An address is
a distance in bytes from `physicalMem`.

The class declaration has a stray character on line 54 of MemoryManager.h; the
specification describes the class without it. A use of an empty list's memory
by `dumpMemoryMap` ends in `pc = "crashed"`.

### Wad

State: `disk` is the file: the header's `num` and `off`, and `cells`, each of
which holds a byte of a lump or one part of a descriptor. `num`, `off`,
`descriptors` and `tree` are the fields of the class (`numDescriptors`,
`descriptorOffset`, `descriptors`, and the nodes under `root`, in the order of
their creation). `wadPc`, `written` and `creation` belong to the call in progress.

`ParseStep` and `Parse` are the loop of `parse`; `NodeAt` is `findNode`.
`CreateDirectory`, `CreateFile` and `WriteToFile` change the fields and the
data; `WriteNum`, `WriteOff` and `WriteDescriptor` are the calls of write(2)
of `writeHeader` and `writeDescriptors`, and `CallReturn` is the rest of
`createX`, which adds the node and shifts the indices of all the others.
`GoDown` closes the WAD, or kills the process, at any control point in
`CrashPoints`; `LoadWad` starts again from the disk.

Each write of header and list either arrives (`NumReaches`, `OffReaches`,
`DescriptorReaches`) or does not (`NumFails`, `OffMissed`, `DescriptorMissed`). The
code ignores which, so the next write lands where the file position is: `lag` is how
far that is behind where it should be. After a failed write of the number, the offset
is written over the number; after a short write of a descriptor, the rest of the list
is that much too far to the front. `LoadWad` loads a list as the constructor does,
whole (`LoadWhole`) or not (`LoadTorn`): past the end of the file the descriptor last
read is parsed again, and a place that does not hold one descriptor (a lump, an old
list a few bytes off) reads as any descriptor in `Misread`. Parsing it may dereference
a null directory, which is `wadPc = "crashed"`.

`astray`, which is not in the code, counts the writes of header or list that did not
arrive and the torn lists that were loaded, up to `MaxAstray`. While it is 0, file and
memory belong together, and the properties of what the library shows are about that
time only: `ReloadAgrees`, `LumpsApart`, `LumpsSurvive`, `CrashAllOrNothing`,
`NeverCrashes`, and `NamesUnique` and `PromisesKept` of `Wadfs`. They are false of the
code afterwards. A death after two of three descriptors, for instance, makes the next
load list the second of them twice; one between the two numbers of the header makes it
read the old list from somewhere else. What holds all the same is `OldBytesStay`: no
byte before the place the header has for the list is ever overwritten, and that
place never moves back.

A name is a record of what `parse` sees in it (map marker, prefix with a start
or end suffix, anything else) and its base. A descriptor takes `DescSize`
cells and a map absorbs `MapElements` descriptors: 16 and 10 in the code, 2
and 2 in the runs.

Not followed: a write that splits one of the header's 4-byte numbers (it arrives or
fails), a file that cannot be opened (the constructor then leaves no root, and any
look-up dereferences null; here the file can always be opened), a magic or header that
was never a WAD's, and slashes doubled inside a path. A path is the sequence of its
names; an empty last name is a trailing slash.

### Wadfs

State: that of `Wad`, `call`, which holds for every user the system call it is
in and how far it has come, and `promised`, what successful calls have told
users about each path, which the code does not keep.

The handlers are `Getattr`, `Readdir`, `Read`, `Mkdir`, `Mknod` and `SendChunk`
with `ChunkRefused` (wad_write); `Mount` and `Unmount` are main and its end.
The other actions are the requests the kernel and libfuse make of a system call
(modelled as external): the look-ups of the parent and of the name, before
and after the handler, the lock of the parent directory or of the file from the
first request to the last, and the splitting of a write into chunks of
`ChunkSize` bytes, which stops at a short answer. `Free` is the daemon between
requests (option -s, which is assumed); a handler that changes the WAD is followed by
the steps of `Library`, one per write(2). `HasRoom` is a bound: no user begins a
creation that `MaxDescriptors` could hold up.

### Pipes

State: for each process its `status`, `pc`, open `ends` and variables `mem`;
for each pipe what was written and not yet read. `Code` is the sequence of
system calls and computations of each process, in the order of the source, and
there is one action for each thing the kernel may make of a call: a read that
gives data or ends empty, a write that succeeds or raises SIGPIPE, a fork that
succeeds or fails. `Kill` ends any process at any point. `lost` records which
processes were killed or never born. `Sorted` is std::sort by what it promises:
the i-th number is the least that at least i of the numbers do not exceed.

### The tests

A test is a sequence of steps; a step is a call, which runs through the actions
of `MemoryManager` or `Wad` to its return, or a check of what they answer,
with the sizes, bitmaps, lists and texts of the source. A specification that
answered a test otherwise than the program is expected to would fail here.
`test` and `at` (`libTest`, `libAt`) are the step; `testArrays` are the pointers
the test holds and `wordOffsetIndex` is the static variable of its allocator.

### WallServer

State: `wall`, `max_messages`, `server_running`, `buffer` and `name` are the
variables of main; `pc` is the point of its two loops. `client` is the other
end of `client_fd`: there, closed, or closed and answering with resets, or none
between sessions. `pending` is what the client typed and recv has not
returned, and `posts` the messages posted since the wall was last cleared,
which the code does not keep.

One action per command and per answer; `Show` is the top of the inner loop and
`Close` its end. A recv returns any non-empty prefix of `pending`, so lines may
arrive in pieces or together, and nothing once the client has gone. `SendThen`
is a run of sends: harmless while the client is there, the end of the process
if a reset can have come back before the last of them.

Not followed: the set-up of the socket, accept's failures (tried again), sends
that block because a client does not read.

## Runs

Every run is an entry of `PROJECT.json`; `MC*` modules hold the definitions the
configurations use.

| run | states | what it shows |
|---|---|---|
| mm_blocks | 689 k | the list tiles the block; holes coalesce; blocks answer requests exactly and stay put; allocators are complete and place as their name says; the invariants of the proofs; refinement of WordHeap; every call returns |
| mm_reports | 1.2 M | bitmap and dump agree with the list |
| wad_tree | 29 k | tree in memory = tree on reload; refinement of FileTree |
| wad_crash | 628 k | death between any two writes, short and failing writes of data, header and list, torn lists loaded. Always: no byte before the list is overwritten. Until a write of header or list falls short or a torn list is loaded: memory agrees with the file, lumps stay apart and survive, a death leaves a torn list or all or nothing of a call |
| wadfs | 109 k | two processes, with the same deaths and failing writes. Always: every call returns. Until a write of header or list falls short or a torn list is loaded: promises kept over a death and a remount, names unique, no crash of the library, a death that leaves a whole list shows all of a request or nothing |
| wall_sessions | 464 k | the wall holds the latest messages, each once, whole and within 80 bytes; a session ends when its client has gone |
| pipes | 26 k | every interleaving, kills and failed forks included: output wrong only where its producer was lost, children reaped, never all waiting for one another, everyone ends |
| tests | 1.5 k | the repository's tests pass on the specifications and come to their end |

Bounds. Six words are enough for three holes between blocks and for a merge on
both sides of a freed block; nine words need a second byte of the bitmap. The
WAD of `wad_tree` has the shape of the repository's sample files (a map, a
namespace in a namespace, a file in it) and room for three more descriptors:
one directory with a file in it, or three files, so every insertion point is
followed by another one that depends on the shifted indices. `MaxDescriptors`
and `MaxOffset` bound creations and written bytes and nothing else. `MaxAstray` = 2 in
`wad_crash` lets a write fall short and a torn list be loaded, or two torn lists one
after the other (1 in `wadfs`, where the properties that go on are about the calls);
three descriptors are enough to tear a list in its middle, and their `Misread` has a
stray end of a directory, which takes parse above the root, and a file that lies
anywhere (in `wadfs` the end alone).
In `wadfs` two users are enough for every race of a look-up with a creation and
of two writers; a chunk of two bytes cuts the longer write in two, and
`DescSize` 1 makes the rewriting of a descriptor one step. Four words typed, in
any number of sessions, are a post of a name and a text of two words, or one
whole post and one cut short by the client's leaving; walls of 0, 1 and 2
messages fill up and overflow. The words of 1 and 77 bytes make names of 77, 78
and 79 bytes and messages of exactly 80. `pipes` has no bound but its two
argument lists: only sorting and the median look at the numbers. In `tests` the
sizes are those of the source, except that int, unsigned and size_t have 30
bits, because TLC's integers have 32, and that the picture of 29869 bytes in the
sample WAD has `CakeSize` = 40; no test depends on either.

Deadlock is checked except where a program may stop: `mm_reports`, where a dump
before initialize kills it; `wad_crash` and `wadfs`, where the bound `MaxAstray` lets
no further torn list be loaded; `wadfs_chunks`, where nothing is left to do; the
wall's, where a kill or a signal ends it; and `pipes`, whose processes end (that they all do is
`EveryoneEnds`).

Fairness. `mm_blocks` uses `WF_vars(Run)`: a call in progress is a loop of one
thread that nothing blocks, so it keeps running; the client need never call.
`tests` uses the same of its two programs. `wall_sessions` uses
`WF_vars(Server)`: the server is one thread that only waits for input in recv,
where it is not enabled while the client is there and silent. Nothing is assumed
of clients. `wadfs` uses weak fairness of the library's steps, and strong
fairness of each user's next request: requests wait in the queue of
/dev/fuse and callers in the queue of a lock, first come first served, so one
that could be served again and again is. It also assumes (`Disconnect`) that the
kernel ends the connection of a daemon that has died in a request, which returns the
calls that wait for it. Nobody need kill or start the daemon. `pipes` uses weak fairness of each
process: the kernel runs who is not blocked; nobody need ever be killed.

### Where code and comments disagree

Each is a run that TLC must find violated.

| run | code | comment |
|---|---|---|
| mm_request_wraps | MemoryManager.cpp:89 wraps around and cuts to int | :88 rounds up |
| wad_write_offset | wad.cpp:435-447 counts bytes written past the length | :452 number of bytes successfully written |
| wadfs_chunks | wadfs.cpp:52 hands on every chunk of a write, of which writeToFile takes only the first | commands.txt:16 copies a file of 55 chunks into the mount |
| wall_signal | ex8/server.cpp:21 sends without regard to SIGPIPE | :71 active until the kill command switches it off |

Three more are visible in a single step, are modelled as the code has them and
have no run of their own: MemoryManager.cpp:46 tests `fd != 1`, so that the
fallback of :51 is never taken; dumpMemoryMap dereferences, at :231, the
nullptr that getList answers (:165) when nothing is initialized;
wad.cpp:425 reads a node before the test for null that :428 announces.

## Proofs

`MemoryManagerProofs` and `AllocatorProofs` prove, for every size of block, word
and width and for any set of inputs:

| theorem | states | assumes |
|---|---|---|
| TypeCorrect | `Spec => []TypeOK` | the constants' types |
| TilesAlways | `Spec => []ListTilesMemory` | InputsFit |
| CoalescedAlways | `Spec => []HolesCoalesced` | InputsFit |
| BackedAlways | `Spec => []LiveBlocksBacked` | InputsFit |
| BlocksStay | `Spec => LiveBlocksStay` | InputsFit |
| IndInvAlways, ScanInvAlways | `Spec => []IndInv`, `Spec => []ScanInv` | InputsFit |
| CompleteAlways | `Spec => AllocateComplete` | InputsFit |
| PolicyAlways | `Spec => PlacementFollowsPolicy` | InputsFit |
| BitmapAlways | `Spec => []BitmapComplementsHoleList` | InputsFit |
| DumpAlways | `Spec => DumpListsFreeRuns` | InputsFit |
| ImplementsHeap | `Spec => HeapSpec` | InputsFit |
| CallsRunOut | a call has at most `2 * Len(list) + 3` steps left, and each step leaves fewer | the constants' types |

`InputsFit` keeps sizes below 2^16 words, requests below the wrap-around and
freed addresses on word boundaries; `mm_request_wraps` shows that it is needed.

The argument. `IndInv` says more than the properties because they are not
inductive: while a merge pass runs there may be neighbouring holes, but only
from its cursor on (`MergedBehindCursor`); the allocator chooses from an array made
of the hole list and `Place` looks the choice up by its offset, so the invariant
carries from one to the other that it is a hole of the list (`ChoiceIsHole`, `RequestInProgress`); and no addition may leave uint16_t
(`NodesInOrder`). `ScanInv` adds what the walks have found: the array holds
exactly the holes behind getList's cursor, in address order, and the choice
is the best of the holes behind the allocator's. Both are invariants of
`mm_blocks`. The lemmas show that marking, splitting and absorbing preserve the
tiling and the backing of a list (one lemma per operation and property), then
that each action preserves the invariants. Every word of the block belongs to
exactly one node (`EveryWordHasNode`, `OneNodePerWord`), so a run of free words
in a coalesced list lies within one hole (`FreeRunInOneHole`): completeness, the
bitmap and the refusals of the heap rest on that. For the refinement the map of
the blocks is characterised by the set `Used(list)` of offsets and lengths
(`MapOfUsed`), of which the earlier lemmas say what each operation does.

`CallsRunOut` counts the nodes the loop has yet to walk over (`StepsLeft`), whose cursor
and bounds `WalkInv` keeps: getList and allocate walk over the list twice, free's
merging shortens the list or moves on. It needs no `InputsFit`: where a length wraps
around the answers are wrong, but every loop still ends.

`WallServerProofs` proves, for any words, wall sizes and bound of typed words:

| theorem | states |
|---|---|
| TypeCorrect | `Spec => []TypeOK` |
| LatestAlways | `Spec => []WallHoldsLatest` |
| FitAlways | `Spec => []MessagesFit` |
| TypingOrderAlways | `Spec => []WallInTypingOrder` |
| SessionsRunOut | once the client has gone, recv never waits, and every step leaves fewer for the session |

The invariants behind them say that what is pending was typed after what is in
`buffer`, that after what is in `name`, and that after everything posted; and
that a name waiting for its text leaves room for the separator. The lemmas are
about the length of a text in bytes and the concatenation of messages. For the end of a
session `TalkLeft` counts four steps for each word that is still pending and those
the dialogue can take without another word (`Turn`): a recv takes words off, or comes
back empty and ends the session, wherever in the dialogue the client left.

`WadProofs` proves, for any descriptor size, map size, paths, buffers, offsets,
short and failed writes, torn lists and deaths of the process:

| theorem | states |
|---|---|
| ShapeInvAlways | `Spec => []ShapeInv`, the inductive invariant whatever falls short |
| LumpsInvAlways | `Spec => [](astray = 0 => LumpsInv)`, the one until something does |
| OldBytesStayAlways | `Spec => OldBytesStay` |
| TypeOKAlways | `Spec => []TypeOK` |
| LumpsApartAlways | `Spec => []LumpsApart` |
| LumpsSurviveAlways | `Spec => LumpsSurvive` |

The disks the library is given are any on which the list comes last and, if it
is whole, no lump reaches into it or into another (`DisksAssumption`); their
names, markers and nesting may be as wrong as they like.

The argument. `ShapeInv` keeps the types and two inequalities: the header's place for
the list is not beyond the one in memory, and what a write falls short of its place
(`lag`) is no more than what has been written of the list. So a list, or the rest of
one that has slipped to the front, is never written before the place the header has
for it, and data is written where the list in memory starts: with that,
`OldBytesStay`. Both say nothing of what the bytes mean, and need nothing of `Misread`
but that it consists of descriptors. For the rest the steps that go astray are cut off
by a lemma: a step that leaves `astray` at 0 is one of `Sound` (`StepIsSound`), which
loads whole lists and whose writes arrive, and the invariants below are kept by those
steps.

A tree says of a file what its descriptor says, but the
descriptors are where lumps are kept apart, in memory and on disk: `LumpsInv`
gives every node, the one `creation` holds included, a descriptor of its extent,
so insertion and the shift of the indices must keep them together. A loaded
list is again such a list, which is plain between calls and not at all
in one: header and list are written one by one, and the process may die before
any of them. The invariant therefore says where the rewriting has come: what is
written is new, what is not is old, and a new list that is longer than the old
one, or has been moved by data written where the old one was, misses its last
part on disk, so that it is not whole (`ListIsWhole` fails) until the last
descriptor is written. That no write touches a lump then follows from the list
beginning where the last lump ends. `Parse` is a recursive function: what it
keeps (`ParseRuns`) is proved by induction over an interval of indices, as a set
(`IntervalInduction`, from the well-founded order of the naturals),
and that the function exists at all by `RecursionExists`. TLC checks the
inductive invariant on the instances of `wad_tree` and `wad_crash`.

`ReloadProofs` proves `ReloadAgreesAlways`, `Spec => []ReloadAgrees`, for the same
constants and again until something goes astray, from two hypotheses: `BalancedDisks`, that in every whole file the library
is given parse ends in the root, outside a map, without going above the root; and
`DirectoriesNamed`, that no client makes a directory with an empty name, whose
markers `_START` and `_END` parse takes for files. TLC evaluates both for the instances
of `wad_tree` and `wad_crash` (`WellMade`).

The argument. Memory follows the list by arithmetic: createX shifts the indices of
every node, writeToFile sets one node's extent, and parse is never asked again. So
the run of parse over the new list is compared, index by index, with its run over
the old one. What a tree shows of a node (`Seen`) knows its parent by the index it
starts at, so that the order in which nodes were made does not matter; a change
(`Changes`) says how indices move and which file's extent is set, and `Alike` says that
two states of parse show the same up to that change. One step keeps them alike
(`StepAlike`) and so does a run (`RunsAlike`); in between, the descriptors that
were put in add one file (`FilePutIn`) or open and close one directory
(`DirectoryPutIn`), at a place where parse is in the directory createX meant:
that is where the index of its end marker matters, and why a map, which ends by
counting, must not take children. `ReloadInv` then says: once the running call is over,
the tree agrees with the list in memory (`TreeInv`); whatever is whole on disk is
balanced (`FileInv`); between calls it is the list in memory but for the offsets
of empty files, which a write of no bytes sets in memory alone (`IdleInv`); and
the part of the list that was written is whole (`PartsInv`). `LumpsInv` of
`WadProofs` gives the rest: a list that is being rewritten is not whole.

`FileTreeProofs` proves what a client sees of the library:

| theorem | states | assumes |
|---|---|---|
| CrashAllOrNothingAlways | `Spec => CrashAllOrNothing` | BalancedDisks, DirectoriesNamed, WritesFromStart, `"down" \notin CrashPoints` |
| FileTreeRefined | `Spec /\ [](astray = 0) => FileTreeSpec` | BalancedDisks, DirectoriesNamed, WholeDisks, ClosedBetweenCalls |

`CrashAllOrNothing` is about a death that leaves a whole list, before which header and
list were always written and read whole; a death in the middle of the rewriting leaves
a torn list, of which it says nothing. The refinement is of behaviours in which every
write of header and list arrives: one that fails leaves on disk another tree than the
one in memory, and the next load shows it.

Of these hypotheses, `WritesFromStart` says that files are written from offset 0, as `wad_crash`
does: data written behind the end of the list leaves the old list whole, which shows
the tree from before the call, while the tree in memory, with which `CrashAllOrNothing`
compares it, is that of after the call already. The lemma of a step (`NextCrash`) asks
it of that step only, so that a client that writes as it should needs no assumption
(`CrashServed` below). That a process which is down cannot die
again is the third. `ClosedBetweenCalls`
says that the process ends only where a call returns; a death inside one is what the
other theorem is about (`wad_crash` has the deaths, `wad_tree` the closes).

The argument. `FileTree` knows paths, and libWad knows nodes, so the tree is read as a
function of paths (`Shown`), whose domain is the sequences of named nodes that hang
together (`Leading`); no two lead to one node (`PathsApart`). A call adds one leaf or
fills one file's extent, and what the function becomes follows from that
(`StepShown`): every other path keeps its entry, its bytes because no write touches a
lump (`LumpsSurvive`). `CrashInv` says that a list which is whole on disk shows either
what the tree shows or what it will once the running call is over (`Completed`). For
the refinement, `UpInv`, `PlaceInv` and `DownInv` hold the tree, the node being put in
and the disk left by a closed process to what `FileTree` has, and each action maps to
one of its steps or a stutter (`NextShown`).

`WadfsProofs` proves, for any users, calls, WADs and chunk size:

| theorem | states | assumes |
|---|---|---|
| LibraryServed | `FsSpec => Spec` | CallsServed |
| NeverCrashesAlways | `FsSpec => []NeverCrashes` | and BalancedDisks, DirectoriesNamed |
| NamesUniqueAlways | `FsSpec => []NamesUnique` | and NamesUniqueFirst, PathsSplit |
| PromisesKeptAlways | `FsSpec => []PromisesKept` | BalancedDisks, DirectoriesNamed, CallsServed, PathsSplit |
| CrashServed | `FsSpec => CrashAllOrNothing` | the same, and `"down" \notin CrashPoints` |
| CallsRunOut | a request leaves its call fewer steps, nobody else's step leaves it more, a step of the library leaves the library fewer | CallsServed |

The hypotheses are about constants, and TLC evaluates them for `wadfs` (`WellMade` of
`MCWadfs`). `CallsServed` relates the constants of `Wadfs` to those of `Wad`: the library
may be asked for the paths of the users' calls and for any part of their data.
`NeverCrashes`, `NamesUnique`, `PromisesKept` and `CrashAllOrNothing` are about daemons
whose header and list have been written and read whole (`astray = 0`); `LibraryServed`
and `CallsRunOut` need no such thing. `NamesUniqueFirst` says that the WAD files the daemon starts from have no two entries
of one name in a directory, and `PathsSplit` that the kernel splits a path at its
slashes, so that no name in it is empty.

The arguments. A write has counted no more
bytes than its user has (`Asked`), so that every request is one a client of `Wad` may
make: with `LibraryServed` the theorems about `Wad` hold of the daemon. As in `Wad`, a
step that leaves `astray` at 0 is one of `SoundFs` (`FsStepIsSound`), and the other
invariants are kept by those. The library
crashes on a path that leads nowhere, which `open` has found long before the write
comes: between them other users' calls run, and the tree only grows and keeps names and
parents (`Grown`, `NodeStays`), so a path that once led to a node leads there until
the daemon dies, which ends the call (`WritersFound`). A name is looked up in one
request and made in another: no two calls hold one lock (`LocksExclusive`), a node
made elsewhere lies below another directory (`LeafFound`), no two paths lead to one node
(`PathsApart`; like `LeafFound`, a lemma of `FileTreeProofs`), hence what was free is
still free when it is made (`AbsentHeld`). So the tree has no namesakes, the node of the
running call included (`TreeUnique`), and neither has the tree that would be loaded from
a whole file (`FileUnique`): a step leaves
on disk the list that was there or the one in memory (`NextDisk`), and two trees
that show the same have namesakes together (`SameView`).

`PromisesInv` holds the tree, and the tree a whole file would be loaded to, to all
that users were told and all that the running writes will tell them (`ToldIn`). The
running writes belong to it because the bytes they return were answered chunk by
chunk before. No step of the tree takes back what it shows (`ShowsStay`, from the
`StepShown` of the refinement: an entry is created, or an empty file is filled). A
file that is whole keeps its list, and then none of its files' cells are written
(`FileShown`), or it gets the list of the tree in memory (`RewrittenShown`), and a
daemon that starts on a whole list loads what the file shows. So a death inside a call, which may
leave the file from before it, takes nothing back: the caller has not been told.
What is told is true when it is told, of tree and file alike, because handlers
answer while the library is idle (`AnswersTrue`, `IdleShown`). For a chunk this
means that it is in the tree from the moment the library has taken it
(`ChunksShown`), and that a chunk is taken only at the start of its file: a write
that was answered some bytes has given the file content, and the library writes a
file once (`SentFromStart`). No assumption says where the daemon dies: `UpInv`
and `PlaceInv` are kept wherever that is (`NextUp`). Of a list it leaves
torn, and of the daemon that loads that list, nothing is proved.

`CrashServed` is the library's `CrashAllOrNothing` behind the mount point, without
`WritesFromStart`: the users' writes have any length and the kernel sends chunks for
any offset, but those the library takes are for offset 0 (`DaemonWrites`, from
`SentFromStart`). It tells the user of a call that was cut off what the next mount may
show him if the list left is whole: the call whole, or nothing of it.

`CallsRunOut` is the part of `EveryCallReturns` that is no question of scheduling. A
chunk that is answered short ends its write, and one that is not takes at least a
byte off what is left (`AnswerTakes`), so `CallLeft` falls with every request of the
call: the kernel's loop over the chunks of a write cannot repeat itself. Others can
keep a call waiting but not set it back. `LibraryLeft` does the same for the rewriting
of the list, which holds up all requests.

`PipesProofs` proves, for any five numbers, every order of the calls, any kills
and any failed forks:

| theorem | states |
|---|---|
| SortedSorts | `Sorted` is in order and keeps every number as often as it was there |
| MedianInMiddle | three of the numbers are at most the median, no more than two below |
| PipesInvAlways | `Spec => []PipesInv`, the inductive invariant |
| TypeOKAlways | `Spec => []TypeOK` |
| WrongOnlyByLossAlways | `Spec => []WrongOnlyByLoss` |
| CleanUnlessLossAlways | `Spec => CleanUnlessLoss` |
| ChildrenReapedAlways | `Spec => ChildrenReaped` |
| NobodyStuckAlways | `Spec => []NobodyStuck` |
| CallsRunOut | every step, a death included, leaves fewer than before of 45 calls |

`PipesInv` follows the calls: which ends a running process has open depends only
on which of its closes it has passed (`EndsInv`); a pipe carries what its writer
should have sent, or the junk of a variable that was never filled, whoever is
lost (`ValuesInv`); nothing is junk on the way to the list while parent and
child 1 are there (`ListInv`), nor on the way to the median while all are
(`MedianInv`); what is printed is what was read (`PrintedInv`), and each wait
leaves one child less (`ReapedInv`). A read then comes back empty only when its
writer went before it wrote, which makes it lost. TLC checks `PipesInv` on the
instance of `pipes`.

`Blocked` says of a process that the kernel keeps it waiting: in a read of an empty pipe
of which somebody has a write end, or in a wait with no child that has ended. A read is
blocked only by a running process that has not come to its close of that write end
(`OpenTo`, from `EndsInv`). Where the reads stand among the closes, child 1 waits only
for one that is not itself at a read or a wait, so if all are blocked child 1 does not
run; then neither does child 2, and then neither does the parent (`SomebodyRuns`).
A write end closed behind a read, or not at all, would break that. As every step
leaves fewer calls to make, the processes end if the kernel only runs those that are
not blocked, which is what `EveryoneEnds` assumes.

Where an argument needs induction, the proofs take the least number for which a
claim fails: the order of the naturals is well-founded, so a non-empty set of
them has a least element (`LeastOf`, `LeastNatural`, `Least`).

Only model-checked: liveness (`CallReturns`, `EveryCallReturns`, `SessionEnds`,
`EveryoneEnds`, `TestsEnd`), because the prover does not reason about fairness and
ENABLED, though what each of the first four needs of the code beside fairness is proved:
the measures of `CallsRunOut` and `SessionsRunOut`, and `NobodyStuck`; and the tests
(`TestsPass`, `LibTestsPass`), which are single executions of given numbers.

## Not modelled

- wadfs without -s, where libfuse serves requests in several threads over one
  unlocked Wad: main does not insist on the option, the instructions of the
  project do.
- the log-level system calls: one global int, read and written whole. The
  only trace of another caller is the value `set` reads again for its answer,
  which the compiler may keep from its own store.
- threads (ten independent random searches and a join), the one-shot exchange,
  parts 1 and 2 of the pipes exercise and wad_dump: sequential, with no state
  that one step leaves for another.
- the course's networking examples, the unit-testing exercise, and the
  exercises with patches, transcripts and screenshots: no program of this
  repository's own, or tests of code that is not here.

## Plan

What is left is depth rather than breadth: how much of a torn list a load still shows
(all entries before the first one missing, when the list was rewritten where it was),
and a header number written in part.
