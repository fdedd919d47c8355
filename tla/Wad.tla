-------------------------------- MODULE Wad ---------------------------------
(***************************************************************************)
(* libWad: a WAD file on disk served as a tree of directories and files.   *)
(*                                                                         *)
(* On disk: a header (number of descriptors, position of their list), the  *)
(* bytes of the lumps, and the list, which is always last.  In memory: the *)
(* header's two numbers, the descriptors, and the tree parse builds from   *)
(* them, whose nodes remember the indices of their descriptors.  createX   *)
(* and writeToFile change both and then rewrite header and list, one       *)
(* action per call of write(2).  The results of those writes are ignored,  *)
(* and the constructor parses whatever it reads.                           *)
(*                                                                         *)
(* The tree is the sequence of its nodes in order of creation; the children*)
(* vector of a node is the nodes that have it as parent, in that order.    *)
(* Descriptor indices count from 0, as in the code; parent 0 is nullptr.   *)
(***************************************************************************)
EXTENDS Integers, Sequences

CONSTANTS
    MapElements,     \* descriptors a map marker absorbs: 10 in the code
    DescSize,        \* cells a descriptor takes on disk: 16 bytes in the code
    InitialDisks,    \* WAD files the library is given
    ShortBases,      \* base names of at most 2 characters
    LongBases,       \* base names of more than 8 characters
    Paths,           \* paths the client names
    Buffers,         \* byte sequences the client writes
    WriteOffsets,    \* offsets the client writes at
    ShortWrites,     \* may a write of file data be short, or fail?
    Misread,         \* descriptors that bytes of anything else may read as
    CrashPoints,     \* control points at which the process may go away
    MaxAstray,       \* bound: astray goes no further
    MaxDescriptors,  \* bound: no creation beyond this many descriptors
    MaxOffset        \* bound: no write moves the list beyond this cell

ASSUME SizesAssumption ==
    /\ MapElements \in Nat \ {0}
    /\ DescSize \in Nat \ {0}
    /\ ShortWrites \in BOOLEAN
    /\ MaxAstray \in Nat
    /\ WriteOffsets \subseteq Nat
    /\ \A buffer \in Buffers : Len(buffer) \in Nat

VARIABLES
    disk,          \* [num, off, cells]: the header and the cells after it
    num, off,      \* numDescriptors, descriptorOffset
    descriptors,
    tree,
    wadPc,
    written,       \* index of the next descriptor to write
    creation,      \* the node a running createX has yet to add to the tree
    lag,           \* fields or cells the writes since the last lseek fell short of
    astray         \* history, not in the code: how many writes of header or list
                   \* have fallen short, and how many torn lists were loaded

memory == <<num, off, descriptors, tree>>
faults == <<lag, astray>>
vars == <<disk, memory, wadPc, written, creation, faults>>

-----------------------------------------------------------------------------
(* Names, descriptors, nodes                                               *)

\* A name is classified as parse classifies it: a map marker E#M#, a prefix
\* with _START or _END after it, or anything else.
Marked(mark, base) == [mark |-> mark, base |-> base]
Plain(base) == Marked("none", base)

\* The markers of a new directory.  The bare suffix is too short to be one.
StartName(name) == IF name.base = "" THEN Plain("_START") ELSE Marked("start", name.base)
EndName(name) == IF name.base = "" THEN Plain("_END") ELSE Marked("end", name.base)

Descriptor(name, offset, length) == [name |-> name, offset |-> offset, length |-> length]

DirNode(name, parent, start, end) ==
    [name |-> name, isDir |-> TRUE, offset |-> 0, length |-> 0,
     parent |-> parent, start |-> start, end |-> end]
FileNode(d, parent, start) ==
    [name |-> d.name, isDir |-> FALSE, offset |-> d.offset, length |-> d.length,
     parent |-> parent, start |-> start, end |-> 0]

\* Any string is a base name; those the library makes up itself are listed.
Bases == STRING \union {"", "/", "_START", "_END"}
Names == [mark : {"none", "map", "start", "end"}, base : Bases]
Descriptors == [name : Names, offset : Nat, length : Nat]
Nodes == [name : Names, isDir : BOOLEAN, offset : Nat, length : Nat,
          parent : Nat, start : Nat, end : Nat]

ASSUME PathsAssumption == Paths \subseteq Seq(Names)
ASSUME MisreadAssumption == Misread # {} /\ Misread \subseteq Descriptors

Root == 1
RootNode(count) == DirNode(Plain("/"), 0, 0, count)

-----------------------------------------------------------------------------
(* parse                                                                   *)

\* One descriptor, at index i: left counts the map elements still to come, cur
\* is currentDir, and failed says that a null currentDir was dereferenced.
ParseStep(p, i, d) ==
    LET opens == p.left = 0 /\ d.name.mark \in {"map", "start"}
        closes == p.left = 0 /\ d.name.mark = "end"
        isMap == d.name.mark = "map"
        dirName == IF isMap THEN d.name ELSE Plain(d.name.base)
    IN  IF p.cur = 0 THEN [p EXCEPT !.failed = TRUE]
        ELSE IF opens THEN
             [p EXCEPT !.nodes = Append(@, DirNode(dirName, p.cur, i, 0)),
                       !.cur = Len(p.nodes) + 1,
                       !.left = IF isMap THEN MapElements ELSE 0]
        ELSE IF closes THEN
             [p EXCEPT !.nodes[p.cur].end = i,
                       !.cur = p.nodes[p.cur].parent]
        ELSE [p EXCEPT !.nodes = Append(@, FileNode(d, p.cur, i)),
                       !.cur = IF p.left = 1 THEN p.nodes[p.cur].parent ELSE @,
                       !.left = IF @ > 0 THEN @ - 1 ELSE 0]

\* What parse makes of a list of descriptors.  (The set binds p, so that TLC
\* evaluates the step before only once.)
Parse(list, count) ==
    LET prefix[n \in 0 .. Len(list)] ==
            IF n = 0 THEN [nodes |-> << RootNode(count) >>, cur |-> Root,
                           left |-> 0, failed |-> FALSE]
            ELSE CHOOSE next \in {ParseStep(p, n - 1, list[n]) : p \in {prefix[n - 1]}} : TRUE
    IN  prefix[Len(list)]

-----------------------------------------------------------------------------
(* Looking up, reading                                                     *)

\* The first child of node n called name, 0 when there is none.
Child(nodes, n, name) ==
    LET named == {c \in DOMAIN nodes : nodes[c].parent = n /\ nodes[c].name = name}
    IN  IF named = {} THEN 0 ELSE CHOOSE c \in named : \A d \in named : c <= d

\* A path is the sequence of its names: <<>> is "/".  An empty last name is a
\* trailing slash, and the path of one empty name is the empty string.
EndsInSlash(path) == path # <<>> /\ path[Len(path)] = Plain("")
EmptyPath == << Plain("") >>
Cleaned(path) == IF EndsInSlash(path) THEN SubSeq(path, 1, Len(path) - 1) ELSE path

\* findNode: 0 for a path that leads nowhere.
NodeAt(nodes, path) ==
    LET below[n \in 0 .. Len(nodes)] ==
            [k \in DOMAIN path |-> IF n = 0 THEN 0 ELSE Child(nodes, n, path[k])]
        reached[k \in 0 .. Len(path)] ==
            IF k = 0 THEN Root ELSE below[reached[k - 1]][k]
    IN  reached[Len(path)]
FindNode(path) == NodeAt(tree, Cleaned(path))

\* Cells of the disk: a byte of a lump, or one part of a descriptor.
Byte(b) == [byte |-> b]
Part(d, k) == [desc |-> d, part |-> k]
ByteAt(cell) ==
    IF cell \in DOMAIN disk.cells /\ "byte" \in DOMAIN disk.cells[cell]
    THEN disk.cells[cell].byte ELSE "junk"

\* The bytes getContents reads of a file; none past its end.
Contents(node, length, offset) ==
    LET there == IF offset + length > node.length THEN node.length - offset ELSE length
    IN  IF offset >= node.length THEN <<>>
        ELSE [k \in 1 .. there |-> ByteAt(node.offset + offset + k - 1)]
GetContents(path, length, offset) == Contents(tree[FindNode(path)], length, offset)

IsContent(path) ==
    /\ ~ EndsInSlash(path)
    /\ FindNode(path) # 0 /\ ~ tree[FindNode(path)].isDir
IsDirectory(path) ==
    /\ path # EmptyPath
    /\ FindNode(path) # 0 /\ tree[FindNode(path)].isDir

\* The children vector of node n, as nodes.
Children(n) ==
    LET among[k \in 0 .. Len(tree)] ==
            IF k = 0 THEN <<>>
            ELSE IF tree[k].parent = n THEN Append(among[k - 1], k) ELSE among[k - 1]
    IN  among[Len(tree)]

\* What getSize, getContents and getDirectory answer: the last two with what
\* they put into the caller's buffer or vector.
GetSize(path) ==
    IF FindNode(path) # 0 /\ ~ tree[FindNode(path)].isDir THEN tree[FindNode(path)].length ELSE -1
ReadAnswer(path, length, offset) ==
    IF GetSize(path) = -1 THEN [ret |-> -1, bytes |-> <<>>]
    ELSE [ret |-> Len(GetContents(path, length, offset)),
          bytes |-> GetContents(path, length, offset)]
GetDirectory(path) ==
    LET children == Children(FindNode(path))
    IN  IF IsDirectory(path)
        THEN [ret |-> Len(children), names |-> [i \in DOMAIN children |-> tree[children[i]].name]]
        ELSE [ret |-> -1, names |-> <<>>]

-----------------------------------------------------------------------------
(* loadWad, and the end of the process                                     *)

\* The list of a disk is whole: every descriptor the header announces is there.
IsDescriptor(d, cell) ==
    \A k \in 0 .. DescSize - 1 :
       /\ {cell, cell + k} \subseteq DOMAIN d.cells
       /\ \A c \in {cell, cell + k} : "desc" \in DOMAIN d.cells[c]
       /\ d.cells[cell + k] = Part(d.cells[cell].desc, k)
IsWhole(d) == \A i \in 0 .. d.num - 1 : IsDescriptor(d, d.off + i * DescSize)
ListOf(d) == [i \in 1 .. d.num |-> d.cells[d.off + (i - 1) * DescSize].desc]
ListIsWhole == IsWhole(disk)
ListOnDisk == ListOf(disk)

\* The disks the library is given: the list is last, and no lump reaches into
\* it or into another.
Lump(d) == d.offset .. d.offset + d.length - 1
Apart(list, limit) ==
    \A i \in DOMAIN list :
       list[i].length > 0 =>
          /\ list[i].offset + list[i].length <= limit
          /\ \A j \in DOMAIN list \ {i} : Lump(list[i]) \intersect Lump(list[j]) = {}
IsCell(c) ==
    \/ "byte" \in DOMAIN c /\ c = Byte(c.byte)
    \/ "desc" \in DOMAIN c /\ c = Part(c.desc, c.part) /\ c.desc \in Descriptors
NoPartFrom(d, limit) ==
    \A c \in DOMAIN d.cells : "desc" \in DOMAIN d.cells[c] => c < limit
IsDisk(d) ==
    /\ d = [num |-> d.num, off |-> d.off, cells |-> [c \in DOMAIN d.cells |-> d.cells[c]]]
    /\ d.num \in Nat /\ d.off \in Nat
    /\ DOMAIN d.cells \subseteq Nat
    /\ \A c \in DOMAIN d.cells : IsCell(d.cells[c])

ASSUME DisksAssumption ==
    \A d \in InitialDisks :
       /\ IsDisk(d)
       /\ NoPartFrom(d, d.off + d.num * DescSize)
       /\ IsWhole(d) => Apart(ListOf(d), d.off)

NoCreation == [at |-> 0, node |-> <<>>]

Forget ==
    /\ num' = 0 /\ off' = 0
    /\ descriptors' = <<>>
    /\ tree' = <<>>
    /\ written' = 0
    /\ creation' = NoCreation
    /\ lag' = 0

Init ==
    /\ disk \in InitialDisks
    /\ num = 0 /\ off = 0
    /\ descriptors = <<>>
    /\ tree = <<>>
    /\ wadPc = "down"
    /\ written = 0
    /\ creation = NoCreation
    /\ lag = 0
    /\ astray = 0

\* What the constructor makes of the descriptors it has read.
Load(list) ==
    /\ wadPc = "down"
    /\ num' = disk.num
    /\ off' = disk.off
    /\ descriptors' = list
    /\ tree' = Parse(list, disk.num).nodes
    /\ wadPc' = IF Parse(list, disk.num).failed THEN "crashed" ELSE "idle"
    /\ UNCHANGED <<disk, written, creation, lag>>

\* The reads of the list that get bytes of the file, and those, the one before
\* the first included, that leave in rawDesc what is not one descriptor.
ReadCell(d, i) == d.off + (i - 1) * DescSize
InFile(d) == {i \in 1 .. d.num : \E c \in DOMAIN d.cells : c >= ReadCell(d, i)}
Garbled(d) == {0} \union {i \in InFile(d) : ~ IsDescriptor(d, ReadCell(d, i))}

\* The result of read(2) is ignored: past the end of the file every descriptor
\* is the one last read once more, or what was in rawDesc if there was none.
LastRead(d, i) ==
    CHOOSE j \in {0} \union InFile(d) : j <= i /\ \A k \in InFile(d) : k <= i => k <= j
ReadList(d, junk) ==
    [i \in 1 .. d.num |->
        LET j == LastRead(d, i)
        IN  IF j \in Garbled(d) THEN junk[j] ELSE d.cells[ReadCell(d, j)].desc]

\* File and memory come apart, and may stay so.
GoAstray ==
    /\ astray < MaxAstray
    /\ astray' = astray + 1

\* The constructor takes a list as it finds it, whole or torn.  (That the file
\* can be opened is assumed: without it there is no tree, nor a null pointer.)
LoadWhole ==
    /\ ListIsWhole
    /\ Load(ListOnDisk)
    /\ UNCHANGED astray
LoadTorn ==
    /\ ~ ListIsWhole
    /\ \E junk \in [Garbled(disk) -> Misread] : Load(ReadList(disk, junk))
    /\ GoAstray
LoadWad == LoadWhole \/ LoadTorn

\* The WAD is closed between calls, or the process dies in one.
GoDown ==
    /\ wadPc \in CrashPoints
    /\ wadPc' = "down"
    /\ Forget
    /\ UNCHANGED <<disk, astray>>

-----------------------------------------------------------------------------
(* createDirectory, createFile                                             *)

\* extractFileName, which leaves "/" an empty name below itself
ParentPath(path) ==
    IF Cleaned(path) = <<>> THEN <<>> ELSE SubSeq(path, 1, Len(Cleaned(path)) - 1)
NameOf(path) ==
    IF Cleaned(path) = <<>> THEN Plain("") ELSE path[Len(Cleaned(path))]

\* A node that may get children: a directory that is not a map.
TakesChildren(n) == n # 0 /\ tree[n].isDir /\ tree[n].name.mark # "map"

InsertIndexAtEnd(parent) == Len(descriptors)
InsertIndex(parent) == IF parent = Root THEN Len(descriptors) ELSE tree[parent].end

\* descriptors with new put in at index.
Inserted(new, index) ==
    SubSeq(descriptors, 1, index) \o new \o SubSeq(descriptors, index + 1, Len(descriptors))

\* The indices of the nodes already in the tree, after an insertion for node.
ShiftedSiblings(index, by, node) ==
    [n \in DOMAIN tree |->
        IF tree[n].parent = node.parent /\ tree[n].start >= index
        THEN [tree[n] EXCEPT !.start = @ + by, !.end = @ + by] ELSE tree[n]]
Shifted(index, by, node) ==
    [n \in DOMAIN tree |->
        [tree[n] EXCEPT
            !.start = IF @ >= index THEN @ + by ELSE @,
            !.end = IF tree[n].isDir /\ @ >= index THEN @ + by ELSE @]]

Create(new, index, node) ==
    /\ Len(descriptors) + Len(new) <= MaxDescriptors
    /\ descriptors' = Inserted(new, index)
    /\ num' = num + Len(new)
    /\ creation' = [at |-> index, node |-> node]
    /\ wadPc' = "writeNum"
    /\ UNCHANGED <<disk, off, tree, written, faults>>

\* Paths createDirectory and createFile return from at once.
DirectoryRefused(path) ==
    \/ NameOf(path).mark # "none"
    \/ NameOf(path).base \notin ShortBases
    \/ ~ TakesChildren(FindNode(ParentPath(path)))
FileRefused(path) ==
    \/ NameOf(path).mark # "none"
    \/ NameOf(path).base \in LongBases
    \/ ~ TakesChildren(FindNode(ParentPath(path)))

CreateDirectory(path) ==
    LET name == NameOf(path)
        parent == FindNode(ParentPath(path))
        index == InsertIndex(parent)
    IN  /\ wadPc = "idle"
        /\ ~ DirectoryRefused(path)
        /\ Create(<<Descriptor(StartName(name), 0, 0), Descriptor(EndName(name), 0, 0)>>,
                  index, DirNode(name, parent, index, index + 1))

CreateFile(path) ==
    LET name == NameOf(path)
        parent == FindNode(ParentPath(path))
        index == InsertIndex(parent)
        new == Descriptor(name, 0, 0)
    IN  /\ wadPc = "idle"
        /\ ~ FileRefused(path)
        /\ Create(<<new>>, index, FileNode(new, parent, index))

CreateNothing(path) ==
    /\ wadPc = "idle"
    /\ DirectoryRefused(path) \/ FileRefused(path)
    /\ UNCHANGED vars

-----------------------------------------------------------------------------
(* writeHeader, writeDescriptors, and the end of a call                    *)

\* A write of a field of the header reaches the disk or fails; then the next
\* one lands where it should have.
NumReaches ==
    /\ wadPc = "writeNum"
    /\ disk' = [disk EXCEPT !.num = num]
    /\ wadPc' = "writeOff"
    /\ UNCHANGED <<memory, written, creation, faults>>
NumFails ==
    /\ wadPc = "writeNum"
    /\ GoAstray
    /\ wadPc' = "writeOff"
    /\ lag' = 1
    /\ UNCHANGED <<disk, memory, written, creation>>
WriteNum == NumReaches \/ NumFails

\* After it writeDescriptors seeks the list.
OffReaches ==
    /\ wadPc = "writeOff"
    /\ lag = 0
    /\ disk' = [disk EXCEPT !.off = off]
    /\ wadPc' = "writeList"
    /\ written' = 1
    /\ UNCHANGED <<memory, creation, faults>>
OffMissed ==
    /\ wadPc = "writeOff"
    /\ \/ /\ lag > 0
          /\ disk' = [disk EXCEPT !.num = off]
          /\ UNCHANGED astray
       \/ /\ GoAstray
          /\ UNCHANGED disk
    /\ wadPc' = "writeList"
    /\ written' = 1
    /\ lag' = 0
    /\ UNCHANGED <<memory, creation>>
WriteOff == OffReaches \/ OffMissed

\* The cells after write(2) has put the first count parts of a descriptor at
\* cell, and the place of the next descriptor in the list.
WithParts(cell, count) ==
    LET parts == cell .. cell + count - 1
    IN  [c \in DOMAIN disk.cells \union parts |->
            IF c \in parts THEN Part(descriptors[written], c - cell) ELSE disk.cells[c]]
ListAfterHeader == 1
ListStart == off
DescriptorCell == ListStart + (written - 1) * DescSize

\* A short or failed write moves the rest of the list to the front.
DescriptorReaches ==
    /\ wadPc = "writeList"
    /\ written <= Len(descriptors)
    /\ lag = 0
    /\ disk' = [disk EXCEPT !.cells = WithParts(DescriptorCell, DescSize)]
    /\ written' = written + 1
    /\ UNCHANGED <<memory, wadPc, creation, faults>>
DescriptorMissed ==
    /\ wadPc = "writeList"
    /\ written <= Len(descriptors)
    /\ \E count \in 0 .. DescSize :
          /\ \/ count = DescSize /\ lag > 0 /\ UNCHANGED astray
             \/ count < DescSize /\ GoAstray
          /\ disk' = [disk EXCEPT !.cells = WithParts(DescriptorCell - lag, count)]
          /\ lag' = lag + DescSize - count
    /\ written' = written + 1
    /\ UNCHANGED <<memory, wadPc, creation>>
WriteDescriptor == DescriptorReaches \/ DescriptorMissed

\* The tree once createX has added its node and shifted the indices of the others.
Completed ==
    IF creation = NoCreation THEN tree
    ELSE LET node == creation.node
             by == IF node.isDir THEN 2 ELSE 1
         IN  Append(Shifted(creation.at, by, node), node)

CallReturn ==
    /\ wadPc = "writeList"
    /\ written > Len(descriptors)
    /\ tree' = Completed
    /\ wadPc' = "idle"
    /\ written' = 0
    /\ creation' = NoCreation
    /\ lag' = 0
    /\ UNCHANGED <<disk, num, off, descriptors, astray>>

-----------------------------------------------------------------------------
(* writeToFile                                                             *)

\* writeToFile looks at the length of the node before it looks whether there
\* is a node.
WriteToNothing(path) ==
    /\ wadPc = "idle"
    /\ FindNode(path) = 0
    /\ wadPc' = "crashed"
    /\ UNCHANGED <<disk, memory, written, creation, faults>>

\* 0 for a file that has content, -1 for a directory
RefusalAnswer(n) == IF tree[n].length > 0 THEN 0 ELSE -1
WriteRefusedUnlessDirectory(n) == tree[n].isDir
WriteRefused(n) == tree[n].length > 0 \/ tree[n].isDir

RefuseWrite(path) ==
    /\ wadPc = "idle"
    /\ FindNode(path) # 0 /\ WriteRefused(FindNode(path))
    /\ UNCHANGED vars

\* Where the list starts once count bytes of a file are written.
UnmovedOffset(count) == off
MovedOffset(count) == off + count

\* What write(2) returned, counted: a failed or empty write changes nothing.
CountedUnchecked(result) == result
Counted(result) == IF result <= 0 THEN 0 ELSE result

\* write(2) returns how many bytes of buffer reach the disk, or -1.
WriteToFile(path, buffer, offset) ==
    LET n == FindNode(path)
        index == tree[n].start + 1
        first == off + offset
    IN  /\ wadPc = "idle"
        /\ n # 0 /\ ~ WriteRefused(n)
        /\ \E result \in IF ShortWrites THEN -1 .. Len(buffer) ELSE {Len(buffer)} :
              LET count == Counted(result)
                  cells == first .. first + count - 1
              IN  /\ off + count <= MaxOffset
                  /\ disk' = [disk EXCEPT !.cells =
                                 [c \in DOMAIN disk.cells \union cells |->
                                     IF c \in cells THEN Byte(buffer[c - first + 1])
                                                    ELSE disk.cells[c]]]
                  /\ tree' = [tree EXCEPT ![n].offset = off, ![n].length = @ + count]
                  /\ descriptors' = [descriptors EXCEPT ![index].offset = off,
                                                        ![index].length = @ + count]
                  /\ off' = MovedOffset(count)
                  /\ wadPc' = IF count = 0 THEN "idle" ELSE "writeNum"
        /\ UNCHANGED <<num, written, creation, faults>>

-----------------------------------------------------------------------------
Next ==
    \/ LoadWad
    \/ GoDown
    \/ \E path \in Paths :
          \/ CreateDirectory(path)
          \/ CreateFile(path)
          \/ CreateNothing(path)
          \/ WriteToNothing(path)
          \/ RefuseWrite(path)
          \/ \E buffer \in Buffers, offset \in WriteOffsets :
                WriteToFile(path, buffer, offset)
    \/ WriteNum
    \/ WriteOff
    \/ WriteDescriptor
    \/ CallReturn

Spec == Init /\ [][Next]_vars
-----------------------------------------------------------------------------
(* What must hold                                                          *)

\* Types of the header, of the descriptors, of the tree and of the control.
TypeOK ==
    /\ disk.num \in Nat /\ disk.off \in Nat /\ DOMAIN disk.cells \subseteq Nat
    /\ num \in Nat /\ off \in Nat
    /\ descriptors \in Seq(Descriptors)
    /\ tree \in Seq(Nodes)
    /\ wadPc \in {"down", "idle", "writeNum", "writeOff", "writeList", "crashed"}
    /\ written \in Nat
    /\ creation.at \in Nat /\ creation.node \in Nodes \union {<<>>}
    /\ lag \in Nat /\ astray \in Nat

\* What a tree shows to the rest of the library, whatever the order its nodes
\* were made in: the offset of an empty file is of no interest.
View(nodes) ==
    {[name |-> n.name, isDir |-> n.isDir, length |-> n.length,
      offset |-> IF n.length > 0 THEN n.offset ELSE 0, start |-> n.start, end |-> n.end,
      parent |-> IF n.parent = Root THEN -1 ELSE nodes[n.parent].start] :
        n \in {nodes[i] : i \in DOMAIN nodes \ {Root}}}

ChildrenInOrder(nodes) ==
    \A i, j \in DOMAIN nodes :
       i < j /\ nodes[i].parent = nodes[j].parent => nodes[i].start < nodes[j].start

\* What a reload needs: in the WAD files the library is given parse ends where
\* it began, in the root, and never dereferences a null pointer; and no client
\* makes a directory with an empty name, whose markers would be files.
Balances(p) == p.cur = Root /\ p.left = 0 /\ p.failed = FALSE
BalancedDisks == \A d \in InitialDisks : IsWhole(d) => Balances(Parse(ListOf(d), d.num))
IsNamed(path) == NameOf(path).base # ""
DirectoriesNamed == \A path \in Paths : IsNamed(path) \/ NameOf(path).base \notin ShortBases

\* Clients that write a file write it from its start.
WritesFromStart == WriteOffsets \subseteq {0}

\* The WAD files given are whole, and no process dies in a call.
WholeDisks == \A d \in InitialDisks : IsWhole(d)
ClosedBetweenCalls == CrashPoints \subseteq {"idle", "crashed"}

\* Between calls the tree in memory, every index in it included, is the one a
\* fresh load of the file would build, its listings in the same order: until a
\* torn list is loaded or a write of header or list falls short.
ReloadAgrees ==
    wadPc = "idle" /\ astray = 0 =>
       /\ ListIsWhole
       /\ off = disk.off /\ num = disk.num /\ tree[Root].end = num
       /\ ~ Parse(ListOnDisk, disk.num).failed
       /\ View(tree) = View(Parse(ListOnDisk, disk.num).nodes)
       /\ ChildrenInOrder(tree)

\* No write(2) of any call, the last one before a crash included, nor one that
\* falls short, touches a byte of a lump a file already has: until then.
LumpCells(n) == Lump(tree[n])
LumpsSurvive ==
    [][astray = 0 =>
          \A n \in DOMAIN tree, c \in DOMAIN disk.cells :
             c \in LumpCells(n) => disk'.cells[c] = disk.cells[c]]_vars

\* Until then the lumps of different files share no cell and end before the list.
LumpsApart ==
    astray = 0 =>
       \A n \in DOMAIN tree :
          tree[n].length > 0 =>
             /\ tree[n].offset + tree[n].length <= off
             /\ \A m \in DOMAIN tree \ {n} : LumpCells(n) \intersect LumpCells(m) = {}

\* Whatever dies between two writes, whichever writes fall short and whatever
\* a torn list is taken for: the place of the list in the header never moves
\* back, and no byte before it, where the lumps are, is ever overwritten.
OldBytesStay ==
    [][/\ disk.off <= disk'.off
       /\ \A c \in DOMAIN disk.cells :
             c < disk.off => c \in DOMAIN disk'.cells /\ disk'.cells[c] = disk.cells[c]]_vars

-----------------------------------------------------------------------------
(* What clients may rely on                                                *)

\* writeToFile reads the node of a path before it looks whether there is one,
\* and parse goes below the root when the list closes it: no client asks for
\* a write to a path that leads nowhere, and no file a process left whole
\* kills the one that loads it.  (A torn file may, and one on which a write of
\* header or list fell short.)
NeverCrashes == astray = 0 => wadPc # "crashed"

-----------------------------------------------------------------------------
(* What a comment says, and the code does not do                           *)

\* writeToFile returns "the number of bytes successfully written": as many can
\* be read back from where they were written.
WrittenReadsBack ==
    [][\A path \in Paths, buffer \in Buffers, offset \in WriteOffsets :
          WriteToFile(path, buffer, offset) =>
             \E count \in 0 .. Len(buffer) :
                /\ count = off' - off
                /\ GetContents(path, count, offset)' = SubSeq(buffer, 1, count)]_vars

-----------------------------------------------------------------------------
(* The library implements the tree of paths                                *)

\* The tree of the process or, with no process, the one on disk.
Served == IF wadPc = "down" THEN Parse(ListOnDisk, disk.num).nodes ELSE tree

\* The path of every node, by way of its parents.
PathsTo(nodes) ==
    LET path[n \in DOMAIN nodes] ==
            IF n = Root THEN <<>> ELSE Append(path[nodes[n].parent], nodes[n].name)
    IN  {path[n] : n \in DOMAIN nodes}

\* What a client can reach in a tree by path, and what it reads there.
Entry(node) == [isDir |-> node.isDir, bytes |-> Contents(node, node.length, 0)]
Reachable(nodes) ==
    [p \in {q \in PathsTo(nodes) : NodeAt(nodes, q) # 0} |-> Entry(nodes[NodeAt(nodes, p)])]

\* Of the lists that are whole: a process that dies in a call leaves one that
\* holds what it served before the call or what it would have served after it,
\* never a part of the call, and never something else.  (It may as well leave
\* a torn list, of which this says nothing.)
CrashAllOrNothing ==
    [][GoDown /\ ListIsWhole /\ astray = 0 =>
          \E nodes \in {tree, Completed} :
             \A found \in {Parse(ListOnDisk, disk.num).nodes} :
                Reachable(found) = Reachable(nodes)]_vars

\* (CHOOSE and set bind the tree, so that TLC builds it once.)
Files == INSTANCE FileTree WITH
    fs <- CHOOSE f \in {Reachable(nodes) : nodes \in {Served}} : TRUE
FileTreeSpec == Files!Spec
=============================================================================
