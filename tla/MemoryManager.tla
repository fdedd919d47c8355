--------------------------- MODULE MemoryManager ----------------------------
(***************************************************************************)
(* MemoryManager.cpp: a memory manager over one mmap'ed block of words.    *)
(* The linked list of MemoryNodes is the sequence list (<<>> is head ==    *)
(* nullptr).  The manager is called by one client, one call at a time; the *)
(* loops of a call (getList's walk, the allocator's walk over the holes,   *)
(* free's merging pass) are one action per iteration, with the locals of   *)
(* the running call in caller, bytes, words, holeInfo, cur, best, bestLen. *)
(*                                                                         *)
(* An address is its byte distance from physicalMem.                       *)
(***************************************************************************)
EXTENDS Integers, Sequences

CONSTANTS
    WordSize,      \* bytes per word, given to the constructor
    Sizes,         \* words a client asks initialize for
    Requests,      \* bytes a client asks allocate for
    Addresses,     \* addresses a client passes to free
    Allocators,    \* allocators a client installs: \subseteq AllocatorKinds
    DevZero,       \* what open("/dev/zero") may answer: \subseteq OpenOutcomes
    Grants,        \* whether the kernel grants a mapping: \subseteq BOOLEAN
    DumpOutcomes,  \* what the file system does to dumpMemoryMap
    U16,           \* number of values of uint16_t
    U32,           \* number of values of int and of unsigned
    SizeT          \* number of values of size_t

AllocatorKinds == {"bestFit", "worstFit", "custom"}
OpenOutcomes == {"opened", "openedAsOne", "failed"}

\* The widths nest, as those of the C++ types do, and a byte address fits an
\* unsigned.
ASSUME WidthsAssumption ==
    /\ WordSize \in Nat \ {0}
    /\ U16 \in Nat /\ U16 > 1
    /\ U32 \in Nat /\ U32 % 2 = 0 /\ 2 * U16 <= U32 /\ U16 * WordSize <= U32
    /\ SizeT \in Nat /\ U32 <= SizeT

ASSUME InputsAssumption ==
    /\ Sizes \subseteq Nat
    /\ Requests \subseteq Nat
    /\ Addresses \subseteq Nat
    /\ Allocators \subseteq AllocatorKinds
    /\ DevZero \subseteq OpenOutcomes
    /\ Grants \subseteq BOOLEAN
    /\ DumpOutcomes \subseteq {"openFails", "shortWrite", "written"}

VARIABLES
    mapped,      \* physicalMem # nullptr
    totalWords,
    list,
    allocator,
    file,        \* what the last dump left in its file, with what it returned
    live,        \* the client's view: address granted -> bytes asked for
    pc, caller, bytes, words, holeInfo, cur, best, bestLen

manager == <<mapped, totalWords, list, allocator>>
locals == <<caller, bytes, words, holeInfo, cur, best, bestLen>>
vars == <<manager, file, live, pc, locals>>

-----------------------------------------------------------------------------
Words == 0 .. U16 - 1
MemoryNode == [offset : Words, length : Words, isHole : BOOLEAN]
Hole == [offset : Words, length : Words]
NoBlocks == [a \in {} |-> 0]

\* Conversion of a size_t to int, as the targeted compilers do it.
ToInt(n) == ((n + U32 \div 2) % U32) - U32 \div 2

WordsNeededRoundingDown(n) == ToInt(n \div WordSize)
WordsNeeded(n) == ToInt(((n + WordSize - 1) % SizeT) \div WordSize)

\* physicalMem + offset * wordSize, as a distance from physicalMem
AddressFromOne(offset) == (offset - 1) * WordSize
Address(offset) == (offset * WordSize) % U32

InUse == {i \in DOMAIN list : ~ list[i].isHole}
Holes == {i \in DOMAIN list : list[i].isHole}
WordsOf(i) == list[i].offset .. list[i].offset + list[i].length - 1

\* The list with node i turned into a hole or into a block in use.
Marked(i, hole) ==
    [j \in DOMAIN list |->
        IF j = i THEN [offset |-> list[i].offset, length |-> list[i].length, isHole |-> hole]
                 ELSE list[j]]

IdleLocals ==
    /\ caller' = "none" /\ bytes' = 0 /\ words' = 0 /\ holeInfo' = <<>>
    /\ cur' = 0 /\ best' = -1 /\ bestLen' = -1

\* The running call returns to the client.
Return == pc' = "idle" /\ IdleLocals

Init ==
    /\ mapped = FALSE
    /\ totalWords = 0
    /\ list = <<>>
    /\ allocator \in Allocators
    /\ file = [result |-> "none", holes |-> <<>>]
    /\ live = NoBlocks
    /\ pc = "idle"
    /\ caller = "none" /\ bytes = 0 /\ words = 0 /\ holeInfo = <<>>
    /\ cur = 0 /\ best = -1 /\ bestLen = -1

-----------------------------------------------------------------------------
(* initialize, shutdown, setAllocator                                      *)

GenerateInitialNode(size) ==
    list' = << [offset |-> 0, length |-> size % U16, isHole |-> TRUE] >>

\* open answered outcome, and the kernel grants a mapping iff granted.  The
\* test on the descriptor is fd != 1, so a failed open still maps through
\* descriptor -1, which mmap refuses.
Initialize(size, outcome, granted) ==
    /\ pc = "idle"
    /\ totalWords' = size
    /\ mapped' = (size # 0 /\ granted /\ outcome # "failed")
    /\ IF mapped' THEN GenerateInitialNode(size)
                  ELSE list' = IF mapped THEN <<>> ELSE list
    /\ live' = NoBlocks
    /\ UNCHANGED <<allocator, file, pc, locals>>

\* Also what the destructor does.
Shutdown ==
    /\ pc = "idle"
    /\ mapped' = FALSE
    /\ list' = <<>>
    /\ totalWords' = 0
    /\ live' = NoBlocks
    /\ UNCHANGED <<allocator, file, pc, locals>>

SetAllocator(a) ==
    /\ pc = "idle"
    /\ allocator' = a
    /\ UNCHANGED <<mapped, totalWords, list, file, live, pc, locals>>

-----------------------------------------------------------------------------
(* getList: the walk shared by allocate and dumpMemoryMap                  *)

StartGetListAtSecond(who) ==
    /\ caller' = who
    /\ pc' = "getList"
    /\ cur' = 2
    /\ UNCHANGED <<holeInfo, best, bestLen>>
StartGetList(who) ==
    /\ caller' = who
    /\ pc' = "getList"
    /\ cur' = 1
    /\ UNCHANGED <<holeInfo, best, bestLen>>

GetListStep ==
    /\ pc = "getList"
    /\ cur <= Len(list)
    /\ holeInfo' = IF list[cur].isHole
                   THEN Append(holeInfo, [offset |-> list[cur].offset,
                                          length |-> list[cur].length])
                   ELSE holeInfo
    /\ cur' = cur + 1
    /\ UNCHANGED <<manager, file, live, pc, caller, bytes, words, best, bestLen>>

GetListReturn ==
    /\ pc = "getList"
    /\ cur > Len(list)
    /\ pc' = IF caller = "allocate" THEN "fit" ELSE "write"
    /\ cur' = 1
    /\ UNCHANGED <<manager, file, live, caller, bytes, words, holeInfo, best, bestLen>>

-----------------------------------------------------------------------------
(* allocate, with bestFit, worstFit and a client's own allocator           *)

AllocateNothing(n) ==
    /\ pc = "idle"
    /\ ~ mapped \/ n = 0
    /\ UNCHANGED vars

Allocate(n) ==
    /\ pc = "idle"
    /\ mapped
    /\ n # 0
    /\ bytes' = n
    /\ words' = WordsNeeded(n)
    /\ StartGetList("allocate")
    /\ UNCHANGED <<manager, file, live>>

\* The test of each allocator's loop: hole h replaces the choice so far.
BestFitTakesStrictly(h) == h.length > words /\ (bestLen = -1 \/ h.length < bestLen)
BestFitTakesAnySize(h) == bestLen = -1 \/ h.length < bestLen
BestFitTakes(h) == h.length >= words /\ (bestLen = -1 \/ h.length < bestLen)
WorstFitTakesLast(h) == h.length >= words /\ h.length >= bestLen
WorstFitTakes(h) == h.length >= words /\ h.length > bestLen

FitStep ==
    /\ pc = "fit"
    /\ allocator # "custom"
    /\ cur <= Len(holeInfo)
    /\ LET h == holeInfo[cur]
           takes == IF allocator = "bestFit" THEN BestFitTakes(h)
                                             ELSE WorstFitTakes(h)
       IN  /\ best' = IF takes THEN h.offset ELSE best
           /\ bestLen' = IF takes THEN h.length ELSE bestLen
    /\ cur' = cur + 1
    /\ UNCHANGED <<manager, file, live, pc, caller, bytes, words, holeInfo>>

\* A client's allocator honours the interface and nothing more: it answers -1
\* or the offset of some hole that fits.
CustomFit ==
    /\ pc = "fit"
    /\ allocator = "custom"
    /\ cur = 1
    /\ \E i \in 0 .. Len(holeInfo) :
          IF i = 0 THEN UNCHANGED <<best, bestLen>>
          ELSE /\ holeInfo[i].length >= words
               /\ best' = holeInfo[i].offset
               /\ bestLen' = holeInfo[i].length
    /\ cur' = Len(holeInfo) + 2
    /\ UNCHANGED <<manager, file, live, pc, caller, bytes, words, holeInfo>>

AllocatorReturned ==
    /\ pc = "fit"
    /\ cur > Len(holeInfo)
    /\ allocator = "custom" => cur > 1

\* Node i is the first hole at the offset the allocator chose.
Chosen(i) ==
    /\ list[i].isHole /\ list[i].offset = best
    /\ \A j \in 1 .. i - 1 : ~ (list[j].isHole /\ list[j].offset = best)

Block(node) ==
    [offset |-> node.offset, length |-> words % U16, isHole |-> FALSE]
LeftoverUnmoved(node) ==
    [offset |-> node.offset, length |-> (node.length - words) % U16, isHole |-> TRUE]
Leftover(node) ==
    [offset |-> (node.offset + words) % U16,
     length |-> (node.length - words) % U16, isHole |-> TRUE]

\* The list once node i is split into the block and its leftover.
Split(i) ==
    [j \in 1 .. Len(list) + 1 |->
        IF j < i THEN list[j]
        ELSE IF j = i THEN Block(list[i])
        ELSE IF j = i + 1 THEN Leftover(list[i])
        ELSE list[j - 1]]

Granted(a) ==
    [b \in DOMAIN live \union {a} |-> IF b = a THEN bytes ELSE live[b]]

Place ==
    /\ AllocatorReturned
    /\ \E i \in DOMAIN list :
          /\ Chosen(i)
          /\ list' = IF list[i].length > words THEN Split(i)
                     ELSE Marked(i, FALSE)
          /\ live' = Granted(Address(list[i].offset))
    /\ Return
    /\ UNCHANGED <<mapped, totalWords, allocator, file>>

\* -1, or the failsafe return after the search
ReturnNull ==
    /\ AllocatorReturned
    /\ best = -1 \/ \A i \in DOMAIN list : ~ Chosen(i)
    /\ Return
    /\ UNCHANGED <<manager, file, live>>

-----------------------------------------------------------------------------
(* free: mark the block, then the merging pass                             *)

TargetOffset(a) == (a \div WordSize) % U16

\* Node i is the first block in use at the offset of address a.
Freed(i, a) ==
    /\ ~ list[i].isHole /\ list[i].offset = TargetOffset(a)
    /\ \A j \in 1 .. i - 1 : list[j].isHole \/ list[j].offset # TargetOffset(a)

\* live' is the client's view: it gives up the block it was granted at a.
Free(a) ==
    /\ pc = "idle"
    /\ mapped
    /\ \/ \E i \in DOMAIN list :
             Freed(i, a) /\ list' = Marked(i, TRUE)
       \/ (\A i \in DOMAIN list : ~ Freed(i, a)) /\ UNCHANGED list
    /\ live' = [b \in DOMAIN live \ {a} |-> live[b]]
    /\ pc' = "merge"
    /\ cur' = 1
    /\ UNCHANGED <<mapped, totalWords, allocator, file,
                   caller, bytes, words, holeInfo, best, bestLen>>

\* free(nullptr), or free with nothing mapped
FreeNothing ==
    /\ pc = "idle"
    /\ UNCHANGED vars

\* The test and the advance of the merging loop.
MergesAnyNext(k) == list[k].isHole
Merges(k) == list[k].isHole /\ list[k + 1].isHole

AdvanceAlways(merged) == cur' = cur + 1
AdvanceNever(merged) == UNCHANGED cur
Advance(merged) == cur' = IF merged THEN cur ELSE cur + 1

Joined(m, n) ==
    [offset |-> m.offset, length |-> (m.length + n.length) % U16, isHole |-> m.isHole]

\* The list once node k has absorbed the node after it.
Absorb(k) ==
    [j \in 1 .. Len(list) - 1 |->
        IF j < k THEN list[j]
        ELSE IF j = k THEN Joined(list[k], list[k + 1])
        ELSE list[j + 1]]

MergeStep ==
    /\ pc = "merge"
    /\ cur < Len(list)
    /\ list' = IF Merges(cur) THEN Absorb(cur) ELSE list
    /\ Advance(Merges(cur))
    /\ UNCHANGED <<mapped, totalWords, allocator, file, live, pc,
                   caller, bytes, words, holeInfo, best, bestLen>>

FreeReturn ==
    /\ pc = "merge"
    /\ cur >= Len(list)
    /\ Return
    /\ UNCHANGED <<manager, file, live>>

-----------------------------------------------------------------------------
(* dumpMemoryMap and getBitmap                                             *)

DumpOpenFails ==
    /\ pc = "idle"
    /\ "openFails" \in DumpOutcomes
    /\ file' = [file EXCEPT !.result = "error"]
    /\ UNCHANGED <<manager, live, pc, locals>>

\* The file is truncated, then the hole list is read through the pointer
\* getList returned, null or not.
Dump ==
    /\ pc = "idle"
    /\ DumpOutcomes \ {"openFails"} # {}
    /\ file' = [result |-> "running", holes |-> <<>>]
    /\ IF list = <<>>
       THEN pc' = "crashed" /\ UNCHANGED locals
       ELSE StartGetList("dump") /\ UNCHANGED <<bytes, words>>
    /\ UNCHANGED <<manager, live>>

\* n of the listed holes reach the file; the result of write is ignored.
DumpWrite ==
    /\ pc = "write"
    /\ \E n \in 0 .. Len(holeInfo) :
          /\ IF n = Len(holeInfo) THEN "written" \in DumpOutcomes
                                  ELSE "shortWrite" \in DumpOutcomes
          /\ file' = [result |-> "success", holes |-> SubSeq(holeInfo, 1, n)]
    /\ Return
    /\ UNCHANGED <<manager, live>>

\* The byte and the bit of word w, after the two bytes of the header.
BitOfNoHeader(w) == <<w \div 8, w % 8>>
BitOf(w) == <<2 + (w \div 8), w % 8>>

\* getBitmap: the size header and the <<byte, bit>> positions it sets.
GetBitmap ==
    [byteCount |-> ((totalWords + 7) \div 8) % U16,
     bits |-> {BitOf(w) : w \in UNION {WordsOf(i) : i \in InUse}}]

GetMemoryLimit == (totalWords * WordSize) % U32

-----------------------------------------------------------------------------
Call ==
    \/ \E size \in Sizes, outcome \in DevZero, granted \in Grants :
          Initialize(size, outcome, granted)
    \/ Shutdown
    \/ \E a \in Allocators : SetAllocator(a)
    \/ \E n \in Requests : Allocate(n) \/ AllocateNothing(n)
    \/ \E a \in Addresses : Free(a)
    \/ FreeNothing
    \/ DumpOpenFails
    \/ Dump

\* The steps of the call in progress.
Run ==
    \/ GetListStep
    \/ GetListReturn
    \/ FitStep
    \/ CustomFit
    \/ Place
    \/ ReturnNull
    \/ MergeStep
    \/ FreeReturn
    \/ DumpWrite

Next == Call \/ Run

Spec == Init /\ [][Next]_vars

\* A call, once made, keeps running; the client need never call again.
FairSpec == Spec /\ WF_vars(Run)
-----------------------------------------------------------------------------
(* What must hold                                                          *)


\* Control points: between calls, in one of the loops, before dump's write,
\* or dead of a null dereference.
PCs == {"idle", "getList", "fit", "merge", "write", "crashed"}

IsBytesByAddress(f) == DOMAIN f \subseteq Nat /\ \A a \in DOMAIN f : f[a] \in Nat

\* Types of the manager's fields and of the running call's locals.
TypeOK ==
    /\ mapped \in BOOLEAN
    /\ totalWords \in Nat
    /\ list \in Seq(MemoryNode)
    /\ allocator \in Allocators
    /\ file \in [result : {"none", "error", "running", "success"}, holes : Seq(Hole)]
    /\ IsBytesByAddress(live)
    /\ pc \in PCs
    /\ caller \in {"none", "allocate", "dump"}
    /\ bytes \in Nat
    /\ words \in Int
    /\ holeInfo \in Seq(Hole)
    /\ cur \in Nat
    /\ best \in Words \union {-1}
    /\ bestLen \in Words \union {-1}

\* The cursor of a running loop has left position 0.
CursorOK == pc \in {"getList", "fit", "merge"} => cur > 0

\* The nodes cut the mapped block into consecutive, non-empty pieces, in
\* address order, from word 0 to the last word; nothing is tracked when
\* nothing is mapped.  (Splitting in allocate, absorbing in free.)
Tiles(nodes, total) ==
    /\ nodes # <<>>
    /\ nodes[1].offset = 0
    /\ nodes[Len(nodes)].offset + nodes[Len(nodes)].length = total
    /\ \A i \in DOMAIN nodes : nodes[i].length > 0
    /\ \A i \in 1 .. Len(nodes) - 1 :
          nodes[i + 1].offset = nodes[i].offset + nodes[i].length
ListTilesMemory == IF mapped THEN Tiles(list, totalWords) ELSE list = <<>>

\* Between calls no two holes are neighbours, whatever was freed in whatever
\* order: one merging pass after each free is enough.
HolesCoalesced ==
    pc # "merge" =>
       \A i \in 1 .. Len(list) - 1 : ~ (list[i].isHole /\ list[i + 1].isHole)

\* The addresses the client holds are exactly the blocks in use, and each
\* block has the words its request rounds up to, no fewer and no more.
Used(nodes) == {<<nodes[i].offset, nodes[i].length>> :
                   i \in {j \in DOMAIN nodes : ~ nodes[j].isHole}}
AnswersRequest(length, asked) ==
    asked <= length * WordSize /\ length * WordSize < asked + WordSize
Backed(nodes, asked) ==
    /\ DOMAIN asked = {b[1] * WordSize : b \in Used(nodes)}
    /\ \A b \in Used(nodes) : AnswersRequest(b[2], asked[b[1] * WordSize])
LiveBlocksBacked == Backed(list, live)

\* No call moves or resizes a block the client still holds afterwards.
Extent(a) == {b \in Used(list) : b[1] * WordSize = a}
LiveBlocksStay ==
    [][\A a \in DOMAIN live \intersect DOMAIN live' : Extent(a)' = Extent(a)]_vars

\* bestFit and worstFit make allocate fail only when no run of free words,
\* wherever it lies, is as long as the request.
FreeWords == UNION {WordsOf(i) : i \in Holes}
AllocateComplete ==
    [][ReturnNull /\ allocator # "custom" =>
          \A s \in 0 .. totalWords : ~ (s .. s + words - 1 \subseteq FreeWords)]_vars

\* allocate places a block in a smallest (bestFit) or largest (worstFit) hole
\* of the list that fits, the lowest-addressed one of that length.
Fits(i) == i \in Holes /\ list[i].length >= words
Preferred(i) ==
    /\ Fits(i)
    /\ \A j \in DOMAIN list : Fits(j) /\ j # i =>
          \/ (list[i].length = list[j].length /\ i < j)
          \/ (allocator = "bestFit" /\ list[i].length < list[j].length)
          \/ (allocator = "worstFit" /\ list[i].length > list[j].length)
PlacementFollowsPolicy ==
    [][Place /\ allocator # "custom" =>
          \A i \in DOMAIN list : Chosen(i) => Preferred(i)]_vars

\* The bitmap sets, inside its array, exactly the bits of the words that
\* getList does not report free.
BitmapComplementsHoleList ==
    mapped =>
       LET map == GetBitmap
       IN  /\ \A b \in map.bits : b[1] \in 2 .. map.byteCount + 1
           /\ {8 * (b[1] - 2) + b[2] : b \in map.bits} = (0 .. totalWords - 1) \ FreeWords

\* These are maximal free runs in address order: the first ones, or all.
ShowsFreeRuns(dumped) ==
    LET runs == {[offset |-> list[i].offset, length |-> list[i].length] : i \in Holes}
        shown == {dumped[k] : k \in DOMAIN dumped}
    IN  /\ shown \subseteq runs
        /\ \A k \in 1 .. Len(dumped) - 1 :
              dumped[k].offset + dumped[k].length < dumped[k + 1].offset
        /\ \A h \in runs \ shown, k \in DOMAIN dumped : dumped[k].offset < h.offset
        /\ Len(dumped) = Len(holeInfo) => shown = runs

\* What a dump leaves in its file is, in address order, an initial part of the
\* maximal free runs, and all of them when the write was complete.
DumpListsFreeRuns == [][DumpWrite => ShowsFreeRuns(file'.holes)]_vars

\* Every call returns to its client: the list walks and the merging pass end.
CallReturns == pc \in {"getList", "fit", "merge", "write"} ~> pc = "idle"

-----------------------------------------------------------------------------
(* The inductive invariant of the proofs                                   *)

\* The client stays within the widths: sizes and offsets fit uint16_t, a
\* request in words fits an int, and free is given addresses of words.
InputsFit ==
    /\ \A size \in Sizes : size < U16
    /\ \A n \in Requests : /\ n + WordSize - 1 < SizeT
                           /\ (n + WordSize - 1) \div WordSize < U32 \div 2
    /\ \A a \in Addresses : a % WordSize = 0 /\ a \div WordSize < U16

InOrder(nodes, total) ==
    /\ \A i, j \in DOMAIN nodes :
          i < j => nodes[i].offset + nodes[i].length <= nodes[j].offset
    /\ \A i \in DOMAIN nodes : nodes[i].offset + nodes[i].length <= total

\* No sum of an offset and a length leaves the mapped block, or uint16_t.
NodesInOrder == mapped => InOrder(list, totalWords) /\ totalWords < U16

\* The merging pass has dealt with the part of the list behind its cursor.
MergedBehindCursor ==
    \A i \in 1 .. Len(list) - 1 :
       list[i].isHole /\ list[i + 1].isHole => pc = "merge" /\ i >= cur

\* What a running allocate knows of its request.
RequestInProgress ==
    /\ pc \in {"getList", "fit", "merge", "write"} => mapped
    /\ caller = "none" <=> pc \in {"idle", "merge", "crashed"}
    /\ caller = "allocate" =>
          /\ pc \in {"getList", "fit"}
          /\ words > 0 /\ AnswersRequest(words, bytes)
    /\ pc = "fit" => caller = "allocate"

\* The array of getList and the allocator's choice speak of holes of the list.
IsListed(h) ==
    \E i \in Holes : h.offset = list[i].offset /\ h.length = list[i].length
ChoiceIsHole ==
    /\ caller = "none" => holeInfo = <<>>
    /\ \A k \in DOMAIN holeInfo : IsListed(holeInfo[k])
    /\ best # -1 => pc = "fit" /\ IsListed([offset |-> best, length |-> bestLen])
                               /\ bestLen >= words

IndInv ==
    /\ CursorOK
    /\ ListTilesMemory
    /\ NodesInOrder
    /\ MergedBehindCursor
    /\ LiveBlocksBacked
    /\ RequestInProgress
    /\ ChoiceIsHole

\* getList's array holds the holes of the nodes walked so far, in address order.
Walked == {i \in DOMAIN list : pc = "getList" => i < cur}
Lists(k, i) == holeInfo[k].offset = list[i].offset /\ holeInfo[k].length = list[i].length
ArrayListsWalkedHoles ==
    pc \in {"getList", "fit", "write"} =>
       /\ \A i \in Holes \intersect Walked : \E k \in DOMAIN holeInfo : Lists(k, i)
       /\ \A k \in DOMAIN holeInfo : \E i \in Holes \intersect Walked : Lists(k, i)
       /\ \A k, m \in DOMAIN holeInfo : k < m => holeInfo[k].offset < holeInfo[m].offset

\* Of the holes the allocator has looked at, none suits its policy better than
\* its choice, and none as good comes before it.
ChoiceIsBest ==
    /\ best = -1 <=> bestLen = -1
    /\ pc = "fit" /\ allocator # "custom" =>
       /\ best # -1 => \E k \in DOMAIN holeInfo :
             k < cur /\ holeInfo[k].offset = best /\ holeInfo[k].length = bestLen
       /\ \A k \in DOMAIN holeInfo :
             k < cur /\ holeInfo[k].length >= words =>
                /\ best # -1
                /\ \/ (bestLen = holeInfo[k].length /\ best <= holeInfo[k].offset)
                   \/ (allocator = "bestFit" /\ bestLen < holeInfo[k].length)
                   \/ (allocator = "worstFit" /\ bestLen > holeInfo[k].length)

\* The walks of a running allocate or dump, beside IndInv.
ScanInv == ArrayListsWalkedHoles /\ ChoiceIsBest

-----------------------------------------------------------------------------
(* What a comment says, and the code does not do                           *)

\* allocate rounds the request up to whole words: no block is shorter than the
\* request it answers.
BlocksHoldTheirRequests ==
    \A i \in InUse : live[Address(list[i].offset)] <= list[i].length * WordSize

-----------------------------------------------------------------------------
\* The manager implements the abstract heap: a request is granted at the step
\* that marks the block, and freed at the step that unmarks it.
Heap == INSTANCE WordHeap WITH
    capacity <- IF mapped THEN totalWords ELSE 0,
    blocks <- [s \in {list[i].offset : i \in InUse} |->
                  list[CHOOSE i \in InUse : list[i].offset = s].length],
    honest <- allocator # "custom",
    pending <- IF caller = "allocate" THEN words ELSE 0
HeapSpec == Heap!Spec
=============================================================================
