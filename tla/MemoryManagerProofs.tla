------------------------ MODULE MemoryManagerProofs -------------------------
(***************************************************************************)
(* Theorems about MemoryManager, for every word size, every set of inputs  *)
(* and every width of the integer types.                                   *)
(***************************************************************************)
EXTENDS MemoryManager, TLAPS

-----------------------------------------------------------------------------
(* Widths and lists                                                        *)

\* A remainder by the width of uint16_t is a word number, and the identity on
\* word numbers.
LEMMA Truncated ==
  /\ U16 \in Nat \ {0}
  /\ \A n \in Int : n % U16 \in Words
  /\ \A n \in Words : n % U16 = n
BY WidthsAssumption DEF Words

\* A natural below the width of uint16_t is not truncated.
LEMMA NotTruncated == ASSUME NEW n \in Nat, n < U16 PROVE n % U16 = n
BY WidthsAssumption

\* The width of uint16_t, for leaves that need no other width.
LEMMA U16IsNat == U16 \in Nat
BY WidthsAssumption

\* Remainders and quotients of naturals are naturals.
LEMMA RemainderAndQuotient ==
  ASSUME NEW m \in Nat, NEW d \in Nat \ {0}
  PROVE  m % d \in Nat /\ m \div d \in Nat
OBVIOUS

\* A sequence built by enumeration has the length and the elements it says.
LEMMA SeqByIndex ==
  ASSUME NEW S, NEW n \in Nat, NEW F \in [1 .. n -> S]
  PROVE  F \in Seq(S) /\ Len(F) = n /\ DOMAIN F = 1 .. n
OBVIOUS

LEMMA OneElement ==
  ASSUME NEW S, NEW e \in S
  PROVE  <<e>> \in Seq(S)
OBVIOUS

\* The elements of a list are nodes.
LEMMA ListElement ==
  ASSUME list \in Seq(MemoryNode)
  PROVE  /\ DOMAIN list = 1 .. Len(list)
         /\ Len(list) \in Nat
         /\ \A i \in 1 .. Len(list) : /\ list[i] \in MemoryNode
                                      /\ list[i].offset \in Words
                                      /\ list[i].length \in Words
                                      /\ list[i].isHole \in BOOLEAN
<1>1. \A n \in MemoryNode : n.offset \in Words /\ n.length \in Words /\ n.isHole \in BOOLEAN
  BY DEF MemoryNode
<1>2. DOMAIN list = 1 .. Len(list) /\ Len(list) \in Nat
  OBVIOUS
<1>3. \A i \in 1 .. Len(list) : list[i] \in MemoryNode
  OBVIOUS
<1> QED
  BY <1>1, <1>2, <1>3

\* A word number is an integer.
LEMMA WordIsNat == \A w \in Words : w \in Nat /\ w \in Int /\ w < U16
BY WidthsAssumption DEF Words

\* Splitting a node yields a list of nodes, one longer.
LEMMA SplitType ==
  ASSUME list \in Seq(MemoryNode), NEW i \in DOMAIN list, words \in Int
  PROVE  /\ Split(i) \in Seq(MemoryNode)
         /\ Len(Split(i)) = Len(list) + 1
         /\ DOMAIN Split(i) = 1 .. Len(list) + 1
<1>1. list[i].offset \in Words /\ list[i].length \in Words
  BY ListElement
<1>2. Block(list[i]) \in MemoryNode
  <2>1. words % U16 \in Words
    BY Truncated
  <2> QED
    BY <1>1, <2>1 DEF Block, MemoryNode
<1>3. Leftover(list[i]) \in MemoryNode
  <2>1. list[i].offset + words \in Int /\ list[i].length - words \in Int
    BY <1>1, WordIsNat
  <2>2. (list[i].offset + words) % U16 \in Words /\ (list[i].length - words) % U16 \in Words
    BY <2>1, Truncated
  <2> QED
    BY <2>2 DEF Leftover, MemoryNode
<1>4. ASSUME NEW j \in 1 .. Len(list) + 1
      PROVE  (IF j < i THEN list[j]
              ELSE IF j = i THEN Block(list[i])
              ELSE IF j = i + 1 THEN Leftover(list[i])
              ELSE list[j - 1]) \in MemoryNode
  <2>1. i \in 1 .. Len(list)
    BY ListElement
  <2>2. CASE j < i
    BY <2>1, <2>2, ListElement
  <2>3. CASE j = i
    BY <2>3, <2>1, <1>2
  <2>4. CASE j = i + 1
    BY <2>4, <2>1, <1>3
  <2>5. CASE j > i + 1
    <3>1. j - 1 \in 1 .. Len(list)
      BY <2>5, <2>1, ListElement
    <3> QED
      BY <3>1, <2>5, <2>1, ListElement
  <2> QED
    BY <2>1, <2>2, <2>3, <2>4, <2>5
<1>5. Split(i) \in [1 .. Len(list) + 1 -> MemoryNode]
  BY <1>4 DEF Split
<1> QED
  BY <1>5, SeqByIndex, ListElement

\* Absorbing a node's successor yields a list of nodes, one shorter.
LEMMA AbsorbType ==
  ASSUME list \in Seq(MemoryNode), NEW k \in 1 .. Len(list) - 1
  PROVE  /\ Absorb(k) \in Seq(MemoryNode)
         /\ Len(Absorb(k)) = Len(list) - 1
         /\ DOMAIN Absorb(k) = 1 .. Len(list) - 1
<1> DEFINE joined == Joined(list[k], list[k + 1])
<1>0. k \in 1 .. Len(list) /\ k + 1 \in 1 .. Len(list) /\ Len(list) - 1 \in Nat
  BY ListElement
<1>1. (list[k].length + list[k + 1].length) % U16 \in Words
  <2>1. list[k].length + list[k + 1].length \in Int
    BY <1>0, ListElement, WordIsNat
  <2> QED
    BY <2>1, Truncated
<1>2. joined \in MemoryNode
  BY <1>0, <1>1, ListElement DEF MemoryNode, Joined
<1>3. ASSUME NEW j \in 1 .. Len(list) - 1
      PROVE  (IF j < k THEN list[j] ELSE IF j = k THEN joined ELSE list[j + 1])
                \in MemoryNode
  <2>1. CASE j < k
    BY <2>1, ListElement
  <2>2. CASE j = k
    BY <2>2, <1>2
  <2>3. CASE j > k
    <3>1. j + 1 \in 1 .. Len(list)
      BY ListElement
    <3> QED
      BY <3>1, <2>3, ListElement
  <2> QED
    BY <2>1, <2>2, <2>3, ListElement
<1>4. Absorb(k) \in [1 .. Len(list) - 1 -> MemoryNode]
  BY <1>3 DEF Absorb
<1> QED
  BY <1>0, <1>4, SeqByIndex
\* What the client can ask for.
LEMMA Inputs ==
  /\ \A size \in Sizes : size \in Nat /\ size \in Int
  /\ \A n \in Requests : n \in Nat
  /\ \A a \in Addresses : a \in Nat
  /\ \A granted \in Grants : granted \in BOOLEAN
  /\ \A a \in Allocators : a \in AllocatorKinds
BY InputsAssumption

-----------------------------------------------------------------------------
(* Type correctness                                                        *)

TypeInv == TypeOK /\ CursorOK

LEMMA NoBlocksType == DOMAIN NoBlocks = {} /\ IsBytesByAddress(NoBlocks)
BY DEF NoBlocks, IsBytesByAddress

\* Initially nothing is tracked and nothing runs.
LEMMA InitTypeInv == Init => TypeInv
<1> SUFFICES ASSUME Init PROVE TypeInv
  OBVIOUS
<1>1. Allocators # {} /\ allocator \in Allocators
  BY DEF Init
<1>2. file \in [result : {"none", "error", "running", "success"}, holes : Seq(Hole)]
  BY DEF Init
<1>3. IsBytesByAddress(live)
  BY NoBlocksType DEF Init
<1>4. list \in Seq(MemoryNode) /\ holeInfo \in Seq(Hole)
  BY DEF Init
<1>5. mapped \in BOOLEAN /\ totalWords \in Nat /\ pc \in PCs /\ caller \in {"none", "allocate", "dump"}
  BY DEF Init, PCs
<1>6. bytes \in Nat /\ words \in Int /\ cur \in Nat /\ best \in Words \union {-1} /\ bestLen \in Words \union {-1}
  BY DEF Init
<1>7. CursorOK
  BY DEF Init, CursorOK
<1> QED
  BY <1>1, <1>2, <1>3, <1>4, <1>5, <1>6, <1>7 DEF TypeInv, TypeOK

\* A list of nodes stays one when a node is marked.
LEMMA MarkedType ==
  ASSUME list \in Seq(MemoryNode), NEW i \in DOMAIN list, NEW hole \in BOOLEAN
  PROVE  /\ Marked(i, hole) \in Seq(MemoryNode)
         /\ Len(Marked(i, hole)) = Len(list)
         /\ DOMAIN Marked(i, hole) = 1 .. Len(list)
<1> DEFINE node == [offset |-> list[i].offset, length |-> list[i].length, isHole |-> hole]
<1>1. node \in MemoryNode
  BY ListElement DEF MemoryNode
<1>2. ASSUME NEW j \in 1 .. Len(list)
      PROVE  (IF j = i THEN node ELSE list[j]) \in MemoryNode
  BY <1>1, ListElement
<1>3. Marked(i, hole) \in [1 .. Len(list) -> MemoryNode]
  BY <1>2, ListElement DEF Marked
<1> QED
  BY <1>3, ListElement, SeqByIndex

LEMMA InitializeType ==
  ASSUME TypeInv, NEW size \in Sizes, NEW outcome, NEW granted \in BOOLEAN,
         Initialize(size, outcome, granted)
  PROVE  TypeInv'
<1>1. totalWords' \in Nat /\ mapped' \in BOOLEAN
  BY Inputs DEF Initialize
<1>2. list' \in Seq(MemoryNode)
  <2>1. CASE mapped'
    <3>1. size \in Int /\ size % U16 \in Words /\ 0 \in Words
      BY Inputs, Truncated DEF Words
    <3>2. [offset |-> 0, length |-> size % U16, isHole |-> TRUE] \in MemoryNode
      BY <3>1 DEF MemoryNode
    <3>3. list' = << [offset |-> 0, length |-> size % U16, isHole |-> TRUE] >>
      BY <2>1 DEF Initialize, GenerateInitialNode
    <3> QED
      BY <3>2, <3>3, OneElement
  <2>2. CASE ~ mapped'
    <3>1. list' = IF mapped THEN <<>> ELSE list
      BY <2>2 DEF Initialize
    <3> QED
      BY <3>1 DEF TypeInv, TypeOK
  <2> QED
    BY <2>1, <2>2
<1>3. IsBytesByAddress(live')
  BY NoBlocksType DEF Initialize
<1> QED
  BY <1>1, <1>2, <1>3 DEF Initialize, TypeInv, TypeOK, CursorOK, locals

LEMMA PlaceType ==
  ASSUME TypeInv, Place
  PROVE  TypeInv'
<1>1. PICK i \in DOMAIN list :
        /\ Chosen(i)
        /\ list' = IF list[i].length > words THEN Split(i) ELSE Marked(i, FALSE)
        /\ live' = Granted(Address(list[i].offset))
  BY DEF Place
<1>2. list \in Seq(MemoryNode) /\ words \in Int
  BY DEF TypeInv, TypeOK
<1>3. list' \in Seq(MemoryNode)
  BY <1>1, <1>2, SplitType, MarkedType
<1>4. IsBytesByAddress(live')
  <2>1. Address(list[i].offset) \in Nat
    <3>1. list[i].offset \in Nat /\ list[i].offset * WordSize \in Nat
      BY <1>2, ListElement, WordIsNat, WidthsAssumption
    <3>2. \A n \in Nat : n % U32 \in Nat
      BY WidthsAssumption
    <3> QED
      BY <3>1, <3>2 DEF Address
  <2> QED
    BY <1>1, <2>1 DEF Granted, IsBytesByAddress, TypeInv, TypeOK
<1>5. Return /\ UNCHANGED <<mapped, totalWords, allocator, file>>
  BY DEF Place
<1> QED
  BY <1>3, <1>4, <1>5 DEF Return, IdleLocals, TypeInv, TypeOK, CursorOK, PCs

LEMMA FreeType ==
  ASSUME TypeInv, NEW a \in Addresses, Free(a)
  PROVE  TypeInv'
<1>1. list' \in Seq(MemoryNode)
  BY MarkedType DEF Free, TypeInv, TypeOK
<1>2. IsBytesByAddress(live')
  BY DEF Free, IsBytesByAddress, TypeInv, TypeOK
<1> QED
  BY <1>1, <1>2 DEF Free, TypeInv, TypeOK, CursorOK, PCs

LEMMA MergeStepType ==
  ASSUME TypeInv, MergeStep
  PROVE  TypeInv'
<1>1. list \in Seq(MemoryNode) /\ cur \in 1 .. Len(list) - 1
  BY DEF TypeInv, TypeOK, CursorOK, MergeStep
<1>2. list' \in Seq(MemoryNode)
  BY <1>1, AbsorbType DEF MergeStep
<1>3. cur' \in Nat /\ cur' > 0
  BY <1>1 DEF MergeStep, Advance
<1> QED
  BY <1>2, <1>3 DEF MergeStep, TypeInv, TypeOK, CursorOK, PCs

\* Every call, and every step of a running call, keeps the types.
LEMMA NextTypeInv == TypeInv /\ [Next]_vars => TypeInv'
<1> SUFFICES ASSUME TypeInv, [Next]_vars PROVE TypeInv'
  OBVIOUS
<1>1. ASSUME NEW size \in Sizes, NEW outcome \in DevZero, NEW granted \in Grants,
             Initialize(size, outcome, granted)
      PROVE  TypeInv'
  BY <1>1, InitializeType, Inputs
<1>2. CASE Shutdown
  <2>1. IsBytesByAddress(live')
    BY <1>2, NoBlocksType DEF Shutdown
  <2>2. list' \in Seq(MemoryNode)
    <3>1. list' = <<>>
      BY <1>2 DEF Shutdown
    <3> QED
      BY <3>1
  <2>4. mapped' \in BOOLEAN /\ totalWords' \in Nat
    BY <1>2 DEF Shutdown
  <2>3. UNCHANGED <<allocator, file, pc, caller, bytes, words, holeInfo, cur, best, bestLen>>
    BY <1>2 DEF Shutdown, locals
  <2> QED
    BY <2>1, <2>2, <2>3, <2>4 DEF TypeInv, TypeOK, CursorOK
<1>3. ASSUME NEW a \in Allocators, SetAllocator(a) PROVE TypeInv'
  BY <1>3 DEF SetAllocator, TypeInv, TypeOK, CursorOK, locals
<1>4. ASSUME NEW n \in Requests, Allocate(n) PROVE TypeInv'
  <2>1. WordsNeeded(n) \in Int
    <3>1. n + WordSize - 1 \in Nat
      BY Inputs, WidthsAssumption
    <3>2. ((n + WordSize - 1) % SizeT) \div WordSize \in Nat
      BY <3>1, RemainderAndQuotient, WidthsAssumption
    <3>3. \A m \in Nat : ToInt(m) \in Int
      BY WidthsAssumption DEF ToInt
    <3> QED
      BY <3>2, <3>3 DEF WordsNeeded
  <2> QED
    BY <1>4, <2>1, Inputs
       DEF Allocate, StartGetList, manager, TypeInv, TypeOK, CursorOK, PCs
<1>5. ASSUME NEW a \in Addresses, Free(a) PROVE TypeInv'
  BY <1>5, FreeType
<1>6. CASE DumpOpenFails
  BY <1>6 DEF DumpOpenFails, manager, locals, TypeInv, TypeOK, CursorOK
<1>7. CASE Dump
  BY <1>7 DEF Dump, StartGetList, manager, locals, TypeInv, TypeOK, CursorOK, PCs
<1>8. CASE GetListStep
  <2>1. holeInfo' \in Seq(Hole)
    <3>1. list[cur].offset \in Words /\ list[cur].length \in Words
      BY <1>8, ListElement DEF GetListStep, TypeInv, TypeOK, CursorOK
    <3>2. [offset |-> list[cur].offset, length |-> list[cur].length] \in Hole
      BY <3>1 DEF Hole
    <3> QED
      BY <1>8, <3>2 DEF GetListStep, TypeInv, TypeOK
  <2> QED
    BY <1>8, <2>1 DEF GetListStep, manager, TypeInv, TypeOK, CursorOK
<1>9. CASE GetListReturn
  BY <1>9 DEF GetListReturn, manager, TypeInv, TypeOK, CursorOK, PCs
<1>10. CASE FitStep
  <2>1. holeInfo[cur].offset \in Words /\ holeInfo[cur].length \in Words
    <3>1. holeInfo[cur] \in Hole
      BY <1>10 DEF FitStep, TypeInv, TypeOK, CursorOK
    <3> QED
      BY <3>1 DEF Hole
  <2>2. best' \in Words \union {-1} /\ bestLen' \in Words \union {-1}
    BY <1>10, <2>1 DEF FitStep, TypeInv, TypeOK
  <2> QED
    BY <1>10, <2>2 DEF FitStep, manager, TypeInv, TypeOK, CursorOK
<1>11. CASE CustomFit
  <2>1. best' \in Words \union {-1} /\ bestLen' \in Words \union {-1}
    <3>1. PICK i \in 0 .. Len(holeInfo) :
            IF i = 0 THEN UNCHANGED <<best, bestLen>>
            ELSE best' = holeInfo[i].offset /\ bestLen' = holeInfo[i].length
      BY <1>11 DEF CustomFit
    <3>2. i # 0 => holeInfo[i].offset \in Words /\ holeInfo[i].length \in Words
      <4>1. i # 0 => holeInfo[i] \in Hole
        BY DEF TypeInv, TypeOK
      <4> QED
        BY <4>1 DEF Hole
    <3> QED
      BY <3>1, <3>2 DEF TypeInv, TypeOK
  <2> QED
    BY <1>11, <2>1 DEF CustomFit, manager, TypeInv, TypeOK, CursorOK
<1>12. CASE Place
  BY <1>12, PlaceType
<1>13. CASE ReturnNull
  BY <1>13 DEF ReturnNull, Return, IdleLocals, manager, TypeInv, TypeOK, CursorOK, PCs
<1>14. CASE MergeStep
  BY <1>14, MergeStepType
<1>15. CASE FreeReturn
  BY <1>15 DEF FreeReturn, Return, IdleLocals, manager, TypeInv, TypeOK, CursorOK, PCs
<1>16. CASE DumpWrite
  <2>1. PICK n \in 0 .. Len(holeInfo) :
          file' = [result |-> "success", holes |-> SubSeq(holeInfo, 1, n)]
    BY <1>16 DEF DumpWrite
  <2>2. SubSeq(holeInfo, 1, n) \in Seq(Hole)
    BY DEF TypeInv, TypeOK
  <2> QED
    BY <1>16, <2>1, <2>2
       DEF DumpWrite, Return, IdleLocals, manager, TypeInv, TypeOK, CursorOK, PCs
<1>17. CASE UNCHANGED vars
  BY <1>17 DEF vars, manager, locals, TypeInv, TypeOK, CursorOK
<1> QED
  BY <1>1, <1>2, <1>3, <1>4, <1>5, <1>6, <1>7, <1>8, <1>9, <1>10, <1>11, <1>12,
     <1>13, <1>14, <1>15, <1>16, <1>17
     DEF Next, Call, Run, AllocateNothing, FreeNothing

\* Every field and local keeps its type, whatever the client asks for: no
\* arithmetic of allocate or free leaves the width of its variable.
THEOREM TypeCorrect == Spec => []TypeOK
<1>1. TypeInv => TypeOK
  BY DEF TypeInv
<1> QED
  BY <1>1, InitTypeInv, NextTypeInv, PTL DEF Spec
-----------------------------------------------------------------------------
(* How many steps a call takes                                             *)

\* The walks stay within the list and the array of its holes.
WalkInv ==
    /\ mapped => list # <<>>
    /\ pc = "idle" => holeInfo = <<>>
    /\ pc = "getList" => cur <= Len(list) + 1 /\ Len(holeInfo) < cur
    /\ pc = "fit" => Len(holeInfo) <= Len(list) /\ cur <= Len(holeInfo) + 2
    /\ pc = "merge" => mapped /\ cur <= Len(list)

\* The steps the running call has left, at most.
StepsLeft ==
    CASE pc = "getList" -> 2 * Len(list) + 4 - cur
      [] pc = "fit" -> Len(holeInfo) + 3 - cur
      [] pc = "write" -> 1
      [] pc = "merge" -> Len(list) + 1 - cur
      [] OTHER -> 0

LEMMA Lengths ==
  ASSUME TypeInv
  PROVE  Len(list) \in Nat /\ Len(holeInfo) \in Nat /\ cur \in Nat
BY DEF TypeInv, TypeOK

LEMMA NotEmpty ==
  ASSUME NEW S, NEW s \in Seq(S)
  PROVE  s # <<>> <=> Len(s) > 0
OBVIOUS

\* A call from its first step on, and a call of one step.
LEMMA CallWalks == TypeInv /\ WalkInv /\ Call => WalkInv'
<1> SUFFICES ASSUME TypeInv, WalkInv, Call PROVE WalkInv'
  OBVIOUS
<1>1. list \in Seq(MemoryNode) /\ Len(list) \in Nat /\ Len(holeInfo) \in Nat
  BY Lengths DEF TypeInv, TypeOK
<1>2. pc = "idle"
  BY DEF Call, Initialize, Shutdown, SetAllocator, Allocate, AllocateNothing, Free, FreeNothing,
         DumpOpenFails, Dump
<1>3. Len(holeInfo) = 0 /\ holeInfo = <<>>
  BY <1>2 DEF WalkInv
<1>4. ASSUME NEW size \in Sizes, NEW outcome \in DevZero, NEW granted \in Grants,
             Initialize(size, outcome, granted)
      PROVE  WalkInv'
  <2>1. mapped' => list' # <<>>
    BY <1>4 DEF Initialize, GenerateInitialNode
  <2> QED
    BY <1>2, <1>3, <1>4, <2>1 DEF Initialize, locals, WalkInv
<1>5. CASE Shutdown
  BY <1>2, <1>3, <1>5 DEF Shutdown, locals, WalkInv
<1>6. CASE UNCHANGED <<mapped, list, pc, holeInfo>>
  BY <1>2, <1>3, <1>6 DEF WalkInv
<1>7. ASSUME NEW a \in Addresses, Free(a) PROVE WalkInv'
  <2>1. Len(list') = Len(list) /\ list' \in Seq(MemoryNode)
    <3>1. CASE list' = list
      BY <3>1, <1>1
    <3>2. CASE \E i \in DOMAIN list : list' = Marked(i, TRUE)
      <4>1. PICK i \in DOMAIN list : list' = Marked(i, TRUE)
        BY <3>2
      <4>2. Marked(i, TRUE) \in Seq(MemoryNode) /\ Len(Marked(i, TRUE)) = Len(list)
        BY <1>1, MarkedType
      <4> QED
        BY <4>1, <4>2
    <3> QED
      BY <1>7, <3>1, <3>2 DEF Free
  <2>2. mapped /\ mapped' /\ pc' = "merge" /\ cur' = 1
    BY <1>7 DEF Free
  <2>3. Len(list) > 0
    BY <1>1, <2>2, NotEmpty DEF WalkInv
  <2>4. list' # <<>>
    BY <1>1, <2>1, <2>3, NotEmpty
  <2> QED
    BY <1>1, <2>1, <2>2, <2>3, <2>4 DEF WalkInv
<1>8. CASE \/ \E n \in Requests : Allocate(n)
           \/ Dump /\ list # <<>>
  <2>1. pc' = "getList" /\ cur' = 1 /\ UNCHANGED <<mapped, list, holeInfo>>
    BY <1>8 DEF Allocate, Dump, StartGetList, manager
  <2> QED
    BY <1>1, <1>3, <2>1 DEF WalkInv
<1>9. CASE Dump /\ list = <<>>
  BY <1>9 DEF Dump, manager, WalkInv
<1> QED
  BY <1>4, <1>5, <1>6, <1>7, <1>8, <1>9
     DEF Call, SetAllocator, AllocateNothing, FreeNothing, DumpOpenFails, manager, vars, locals

\* Each step of a walk takes one off what is left, and the last one the rest.
Walks == WalkInv' /\ StepsLeft' < StepsLeft

LEMMA Ending ==
  ASSUME TypeInv, WalkInv, Return, pc \in {"fit", "merge", "write"}, mapped' => list' # <<>>
  PROVE  Walks
<1>1. pc' = "idle" /\ holeInfo' = <<>>
  BY DEF Return, IdleLocals
<1>2. WalkInv'
  BY <1>1 DEF WalkInv
<1>3. StepsLeft' = 0
  BY <1>1 DEF StepsLeft
<1>4. StepsLeft > 0
  BY Lengths DEF WalkInv, StepsLeft
<1> QED
  BY <1>2, <1>3, <1>4 DEF Walks

LEMMA PlaceKeepsSome ==
  ASSUME TypeInv, Place
  PROVE  list' # <<>>
<1>1. list \in Seq(MemoryNode) /\ words \in Int /\ Len(list) \in Nat
  BY Lengths DEF TypeInv, TypeOK
<1>2. PICK i \in DOMAIN list :
         list' = IF list[i].length > words THEN Split(i) ELSE Marked(i, FALSE)
  BY DEF Place
<1>3. i \in 1 .. Len(list)
  BY <1>1
<1>4. list' \in Seq(MemoryNode) /\ Len(list') >= Len(list)
  <2>1. Split(i) \in Seq(MemoryNode) /\ Len(Split(i)) = Len(list) + 1
    BY <1>1, SplitType
  <2> DEFINE marked == Marked(i, FALSE)
  <2>2. marked \in Seq(MemoryNode) /\ Len(marked) = Len(list)
    BY <1>1, MarkedType
  <2>3. list' = Split(i) \/ list' = marked
    BY <1>2
  <2> HIDE DEF marked
  <2>4. CASE list' = Split(i)
    BY <1>1, <2>1, <2>4
  <2>5. CASE list' = marked
    BY <1>1, <2>2, <2>5
  <2> QED
    BY <2>3, <2>4, <2>5
<1> QED
  BY <1>1, <1>3, <1>4, NotEmpty

LEMMA RunWalks == TypeInv /\ WalkInv /\ Run => Walks
<1> SUFFICES ASSUME TypeInv, WalkInv, Run PROVE Walks
  OBVIOUS
<1>1. /\ list \in Seq(MemoryNode) /\ holeInfo \in Seq(Hole)
      /\ Len(list) \in Nat /\ Len(holeInfo) \in Nat /\ cur \in Nat
  BY Lengths DEF TypeInv, TypeOK
<1>2. CASE GetListStep
  <2>1. Len(holeInfo') <= Len(holeInfo) + 1 /\ Len(holeInfo') \in Nat
    BY <1>1, <1>2 DEF GetListStep
  <2>2. /\ pc = "getList" /\ pc' = "getList" /\ cur <= Len(list) /\ cur' = cur + 1
        /\ UNCHANGED <<list, mapped>>
    BY <1>2 DEF GetListStep, manager
  <2>3. WalkInv'
    BY <1>1, <2>1, <2>2 DEF WalkInv
  <2>4. StepsLeft' < StepsLeft
    BY <1>1, <2>2 DEF StepsLeft
  <2> QED
    BY <2>3, <2>4 DEF Walks
<1>3. CASE GetListReturn
  <2>1. /\ pc = "getList" /\ pc' \in {"fit", "write"} /\ cur' = 1 /\ cur > Len(list)
        /\ UNCHANGED <<list, mapped, holeInfo>>
    BY <1>3 DEF GetListReturn, manager
  <2>2. cur = Len(list) + 1 /\ Len(holeInfo) <= Len(list)
    BY <1>1, <2>1 DEF WalkInv
  <2>3. WalkInv'
    BY <1>1, <2>1, <2>2 DEF WalkInv
  <2>4. StepsLeft' < StepsLeft
    BY <1>1, <2>1, <2>2 DEF StepsLeft
  <2> QED
    BY <2>3, <2>4 DEF Walks
<1>4. CASE FitStep \/ CustomFit
  <2>1. /\ pc = "fit" /\ pc' = "fit" /\ cur' > cur /\ cur' <= Len(holeInfo) + 2 /\ cur' \in Nat
        /\ UNCHANGED <<list, mapped, holeInfo>>
    BY <1>1, <1>4 DEF FitStep, CustomFit, manager
  <2>2. WalkInv'
    BY <1>1, <2>1 DEF WalkInv
  <2>3. StepsLeft' < StepsLeft
    BY <1>1, <2>1 DEF StepsLeft
  <2> QED
    BY <2>2, <2>3 DEF Walks
<1>5. CASE Place
  BY <1>5, PlaceKeepsSome, Ending DEF Place, AllocatorReturned
<1>6. CASE ReturnNull \/ FreeReturn \/ DumpWrite
  <2>1. Return /\ pc \in {"fit", "merge", "write"} /\ UNCHANGED <<list, mapped>>
    BY <1>6 DEF ReturnNull, AllocatorReturned, FreeReturn, DumpWrite, manager
  <2>2. mapped' => list' # <<>>
    BY <2>1 DEF WalkInv
  <2> QED
    BY <2>1, <2>2, Ending
<1>7. CASE MergeStep
  <2>1. pc = "merge" /\ pc' = "merge" /\ cur < Len(list) /\ UNCHANGED mapped
    BY <1>7 DEF MergeStep
  <2>2. \/ list' = list /\ cur' = cur + 1
        \/ list' = Absorb(cur) /\ cur' = cur
    BY <1>7 DEF MergeStep, Advance
  <2>3. cur > 0
    BY <1>1, <2>1 DEF TypeInv, CursorOK
  <2>4. /\ list' \in Seq(MemoryNode) /\ Len(list') \in Nat
        /\ \/ Len(list') = Len(list) /\ cur' = cur + 1
           \/ Len(list') = Len(list) - 1 /\ cur' = cur
    <3>1. cur \in 1 .. Len(list) - 1
      BY <1>1, <2>1, <2>3
    <3>2. Absorb(cur) \in Seq(MemoryNode) /\ Len(Absorb(cur)) = Len(list) - 1
      BY <1>1, <3>1, AbsorbType
    <3> QED
      BY <1>1, <2>1, <2>2, <3>2
  <2>5. cur' <= Len(list') /\ Len(list') > 0 /\ mapped
    BY <1>1, <2>1, <2>3, <2>4 DEF WalkInv
  <2>6. list' # <<>>
    BY <2>4, <2>5, NotEmpty
  <2>7. WalkInv'
    BY <2>1, <2>5, <2>6 DEF WalkInv
  <2>8. StepsLeft' < StepsLeft
    BY <1>1, <2>1, <2>4 DEF StepsLeft
  <2> QED
    BY <2>7, <2>8 DEF Walks
<1> QED
  BY <1>2, <1>3, <1>4, <1>5, <1>6, <1>7 DEF Run

LEMMA NextWalks == TypeInv /\ WalkInv /\ [Next]_vars => WalkInv'
<1>1. ASSUME WalkInv, UNCHANGED vars PROVE WalkInv'
  BY <1>1 DEF vars, manager, locals, WalkInv
<1> QED
  BY <1>1, CallWalks, RunWalks DEF Next, Walks

\* No call runs for ever, whatever the client asked for and the widths made of
\* it, width wrapped or not: allocate and dump have at most twice as many steps
\* as the list has nodes, and three, free has as many as nodes, and each step
\* leaves fewer.  This is what CallReturns needs beside fairness.
THEOREM CallsRunOut ==
  Spec => [](StepsLeft \in 0 .. 2 * Len(list) + 3) /\ [][Run => StepsLeft' < StepsLeft]_vars
<1> DEFINE Inv == TypeInv /\ WalkInv
<1>1. Init => Inv
  <2>1. Init => WalkInv
    BY DEF Init, WalkInv
  <2> QED
    BY <2>1, InitTypeInv
<1>2. Inv /\ [Next]_vars => Inv'
  BY NextTypeInv, NextWalks
<1>3. Inv => StepsLeft \in 0 .. 2 * Len(list) + 3
  <2> SUFFICES ASSUME TypeInv, WalkInv PROVE StepsLeft \in 0 .. 2 * Len(list) + 3
    OBVIOUS
  <2>1. pc \in {"getList", "fit", "merge"} => cur > 0
    BY DEF TypeInv, CursorOK
  <2> QED
    BY <2>1, Lengths DEF WalkInv, StepsLeft
<1>4. Inv /\ [Next]_vars => [Run => StepsLeft' < StepsLeft]_vars
  BY RunWalks DEF Walks
<1> QED
  BY <1>1, <1>2, <1>3, <1>4, PTL DEF Spec
-----------------------------------------------------------------------------
(* What the list operations do to a list that tiles its block              *)

\* A node's offset and length are naturals, and it ends inside the block.
LEMMA NodeBounds ==
  ASSUME list \in Seq(MemoryNode), NEW total \in Nat, InOrder(list, total), total < U16
  PROVE  \A i \in 1 .. Len(list) :
            /\ list[i].offset \in Nat /\ list[i].length \in Nat
            /\ list[i].offset + list[i].length <= total
            /\ list[i].offset + list[i].length < U16
BY ListElement, WordIsNat, U16IsNat DEF InOrder

\* A node split for a shorter request: no offset or length is truncated.
LEMMA SplitElements ==
  ASSUME list \in Seq(MemoryNode), NEW total \in Nat, InOrder(list, total), total < U16,
         NEW i \in DOMAIN list, words \in Nat, words < list[i].length
  PROVE  /\ \A j \in 1 .. i - 1 : Split(i)[j] = list[j]
         /\ Split(i)[i].offset = list[i].offset
         /\ Split(i)[i].length = words
         /\ Split(i)[i].isHole = FALSE
         /\ Split(i)[i + 1].offset = list[i].offset + words
         /\ Split(i)[i + 1].length = list[i].length - words
         /\ Split(i)[i + 1].isHole = TRUE
         /\ \A j \in i + 2 .. Len(list) + 1 : Split(i)[j] = list[j - 1]
<1>0. i \in 1 .. Len(list) /\ Len(list) \in Nat
  BY ListElement
<1>1. /\ list[i].offset \in Nat /\ list[i].length \in Nat
      /\ list[i].offset + list[i].length < U16
  BY <1>0, NodeBounds
<1>2. words % U16 = words
  <2>1. words < U16
    BY <1>1, U16IsNat
  <2> QED
    BY <2>1, NotTruncated
<1>3. (list[i].offset + words) % U16 = list[i].offset + words
  <2>1. list[i].offset + words \in Nat /\ list[i].offset + words < U16
    BY <1>1, U16IsNat
  <2> QED
    BY <2>1, NotTruncated
<1>4. (list[i].length - words) % U16 = list[i].length - words
  <2>1. list[i].length - words \in Nat /\ list[i].length - words < U16
    BY <1>1, U16IsNat
  <2> QED
    BY <2>1, NotTruncated
<1>5. \A j \in 1 .. i - 1 : Split(i)[j] = list[j]
  BY <1>0 DEF Split
<1>6. Split(i)[i] = Block(list[i])
  BY <1>0 DEF Split
<1>7. Split(i)[i + 1] = Leftover(list[i])
  BY <1>0 DEF Split
<1>8. \A j \in i + 2 .. Len(list) + 1 : Split(i)[j] = list[j - 1]
  BY <1>0 DEF Split
<1>9. /\ Split(i)[i].offset = list[i].offset
      /\ Split(i)[i].length = words
      /\ Split(i)[i].isHole = FALSE
  BY <1>2, <1>6 DEF Block
<1>10. /\ Split(i)[i + 1].offset = list[i].offset + words
       /\ Split(i)[i + 1].length = list[i].length - words
       /\ Split(i)[i + 1].isHole = TRUE
  BY <1>3, <1>4, <1>7 DEF Leftover
<1> QED
  BY <1>5, <1>8, <1>9, <1>10

\* Absorbing the next node: the sum of the lengths is not truncated.
LEMMA AbsorbElements ==
  ASSUME list \in Seq(MemoryNode), NEW total \in Nat,
         Tiles(list, total), InOrder(list, total), total < U16,
         NEW k \in 1 .. Len(list) - 1
  PROVE  /\ \A j \in 1 .. k - 1 : Absorb(k)[j] = list[j]
         /\ Absorb(k)[k].offset = list[k].offset
         /\ Absorb(k)[k].length = list[k].length + list[k + 1].length
         /\ Absorb(k)[k].isHole = list[k].isHole
         /\ \A j \in k + 1 .. Len(list) - 1 : Absorb(k)[j] = list[j + 1]
<1>0. k \in 1 .. Len(list) /\ k + 1 \in 1 .. Len(list) /\ Len(list) \in Nat
  BY ListElement
<1>1. /\ list[k].offset \in Nat /\ list[k].length \in Nat
      /\ list[k + 1].offset \in Nat /\ list[k + 1].length \in Nat
      /\ list[k + 1].offset + list[k + 1].length < U16
      /\ list[k + 1].offset = list[k].offset + list[k].length
  BY <1>0, NodeBounds DEF Tiles
<1>2. (list[k].length + list[k + 1].length) % U16 = list[k].length + list[k + 1].length
  <2>1. /\ list[k].length + list[k + 1].length \in Nat
        /\ list[k].length + list[k + 1].length < U16
    BY <1>1, U16IsNat
  <2> QED
    BY <2>1, NotTruncated
<1>3. Absorb(k)[k] = Joined(list[k], list[k + 1])
  BY <1>0 DEF Absorb
<1>4. \A j \in 1 .. k - 1 : Absorb(k)[j] = list[j]
  BY <1>0 DEF Absorb
<1>5. \A j \in k + 1 .. Len(list) - 1 : Absorb(k)[j] = list[j + 1]
  BY <1>0 DEF Absorb
<1>6. /\ Absorb(k)[k].offset = list[k].offset
      /\ Absorb(k)[k].length = list[k].length + list[k + 1].length
      /\ Absorb(k)[k].isHole = list[k].isHole
  BY <1>2, <1>3 DEF Joined
<1> QED
  BY <1>4, <1>5, <1>6

\* Marking a node moves nothing.
LEMMA MarkedElements ==
  ASSUME list \in Seq(MemoryNode), NEW i \in DOMAIN list, NEW hole \in BOOLEAN
  PROVE  /\ \A j \in 1 .. Len(list) : /\ Marked(i, hole)[j].offset = list[j].offset
                                      /\ Marked(i, hole)[j].length = list[j].length
                                      /\ j # i => Marked(i, hole)[j].isHole = list[j].isHole
         /\ Marked(i, hole)[i].isHole = hole
<1>1. DOMAIN list = 1 .. Len(list)
  BY ListElement
<1>2. \A j \in 1 .. Len(list) : j # i => Marked(i, hole)[j] = list[j]
  BY <1>1 DEF Marked
<1>3. Marked(i, hole)[i] = [offset |-> list[i].offset, length |-> list[i].length, isHole |-> hole]
  BY <1>1 DEF Marked
<1>4. /\ Marked(i, hole)[i].offset = list[i].offset
      /\ Marked(i, hole)[i].length = list[i].length
      /\ Marked(i, hole)[i].isHole = hole
  BY <1>3
<1> QED
  BY <1>1, <1>2, <1>4

\* Splitting keeps the tiling and the order.
LEMMA SplitTiles ==
  ASSUME list \in Seq(MemoryNode), NEW total \in Nat,
         Tiles(list, total), InOrder(list, total), total < U16,
         NEW i \in DOMAIN list, words \in Nat \ {0}, words < list[i].length
  PROVE  Tiles(Split(i), total) /\ InOrder(Split(i), total)
<1> DEFINE S == Split(i)
<1>0. i \in 1 .. Len(list) /\ Len(list) \in Nat /\ DOMAIN list = 1 .. Len(list)
  BY ListElement
<1>1. Len(S) = Len(list) + 1 /\ DOMAIN S = 1 .. Len(list) + 1 /\ S \in Seq(MemoryNode)
  BY SplitType
<1>2. \A j \in 1 .. Len(list) :
         list[j].offset \in Nat /\ list[j].length \in Nat
  BY NodeBounds
<1>3. /\ \A j \in 1 .. i - 1 : S[j] = list[j]
      /\ S[i].offset = list[i].offset
      /\ S[i].length = words
      /\ S[i + 1].offset = list[i].offset + words
      /\ S[i + 1].length = list[i].length - words
      /\ \A j \in i + 2 .. Len(list) + 1 : S[j] = list[j - 1]
  <2>1. words \in Nat
    OBVIOUS
  <2> QED
    BY <2>1, SplitElements, Zenon
<1> HIDE DEF S
<1>4. \A j \in 1 .. Len(S) : S[j].length > 0
  <2>1. \A j \in 1 .. Len(list) : list[j].length > 0
    BY <1>0 DEF Tiles
  <2> SUFFICES ASSUME NEW j \in 1 .. Len(S) PROVE S[j].length > 0
    OBVIOUS
  <2>2. CASE j < i
    BY <2>1, <2>2, <1>0, <1>1, <1>3
  <2>3. CASE j = i \/ j = i + 1
    BY <2>3, <1>0, <1>2, <1>3
  <2>4. CASE j > i + 1
    BY <2>1, <2>4, <1>0, <1>1, <1>3
  <2> QED
    BY <2>2, <2>3, <2>4, <1>0, <1>1
<1>5. \A j \in 1 .. Len(S) - 1 : S[j + 1].offset = S[j].offset + S[j].length
  <2>1. \A j \in 1 .. Len(list) - 1 : list[j + 1].offset = list[j].offset + list[j].length
    BY DEF Tiles
  <2> SUFFICES ASSUME NEW j \in 1 .. Len(S) - 1
               PROVE  S[j + 1].offset = S[j].offset + S[j].length
    OBVIOUS
  <2>2. CASE j + 1 < i
    BY <2>1, <2>2, <1>0, <1>1, <1>3
  <2>3. CASE j + 1 = i
    BY <2>1, <2>3, <1>0, <1>1, <1>3
  <2>4. CASE j = i
    BY <2>4, <1>3
  <2>5. CASE j = i + 1
    <3>1. i \in 1 .. Len(list) - 1 /\ i + 2 \in i + 2 .. Len(list) + 1
      BY <2>5, <1>0, <1>1
    <3>2. S[i + 2] = list[(i + 2) - 1] /\ (i + 2) - 1 = i + 1
      BY <3>1, <1>0, <1>3
    <3>3. list[i + 1].offset = list[i].offset + list[i].length
      BY <3>1, <2>1
    <3>4. (i + 1) + 1 = i + 2
      BY <1>0
    <3>5. list[i].offset \in Nat /\ list[i].length \in Nat /\ words \in Nat
      BY <1>0, <1>2
    <3>6. S[i + 1].offset + S[i + 1].length = list[i].offset + list[i].length
      BY <3>5, <1>3
    <3>7. S[j + 1].offset = list[i + 1].offset
      BY <3>2, <3>4, <2>5
    <3> QED
      BY <3>3, <3>6, <3>7, <2>5
  <2>6. CASE j > i + 1
    BY <2>1, <2>6, <1>0, <1>1, <1>3
  <2> QED
    BY <2>2, <2>3, <2>4, <2>5, <2>6, <1>0, <1>1
<1>6. S # <<>> /\ S[1].offset = 0
  <2>1. list[1].offset = 0
    BY DEF Tiles
  <2>2. i = 1 \/ 1 < i
    BY <1>0
  <2> QED
    BY <2>1, <2>2, <1>0, <1>1, <1>3
<1>7. S[Len(S)].offset + S[Len(S)].length = total
  <2>1. list[Len(list)].offset + list[Len(list)].length = total
    BY DEF Tiles
  <2>2. CASE i = Len(list)
    BY <2>1, <2>2, <1>0, <1>1, <1>2, <1>3
  <2>3. CASE i < Len(list)
    BY <2>1, <2>3, <1>0, <1>1, <1>3
  <2> QED
    BY <2>2, <2>3, <1>0
<1>8. \A j \in 1 .. Len(S) : S[j].offset + S[j].length <= total
  <2>1. \A j \in 1 .. Len(list) : list[j].offset + list[j].length <= total
    BY <1>0 DEF InOrder
  <2> SUFFICES ASSUME NEW j \in 1 .. Len(S) PROVE S[j].offset + S[j].length <= total
    OBVIOUS
  <2>2. CASE j < i
    BY <2>1, <2>2, <1>0, <1>1, <1>3
  <2>3. CASE j = i \/ j = i + 1
    <3>1. list[i].offset + list[i].length <= total
      BY <2>1, <1>0
    <3>2. /\ list[i].offset \in Nat /\ list[i].length \in Nat
          /\ words \in Nat /\ words <= list[i].length
      BY <1>0, <1>2
    <3>3. S[i].offset + S[i].length <= total
      BY <3>1, <3>2, <1>3
    <3>4. S[i + 1].offset + S[i + 1].length <= total
      BY <3>1, <3>2, <1>3
    <3> QED
      BY <3>3, <3>4, <2>3
  <2>4. CASE j > i + 1
    <3>1. j - 1 \in 1 .. Len(list) /\ S[j] = list[j - 1]
      BY <2>4, <1>0, <1>1, <1>3
    <3> QED
      BY <3>1, <2>1
  <2> QED
    BY <2>2, <2>3, <2>4, <1>0, <1>1
<1>9. ASSUME NEW j \in 1 .. Len(S), NEW m \in 1 .. Len(S), j < m
      PROVE  S[j].offset + S[j].length <= S[m].offset
  <2>1. \A p, q \in 1 .. Len(list) :
           p < q => list[p].offset + list[p].length <= list[q].offset
    BY <1>0 DEF InOrder
  \* The node of list that node j of S comes from.
  <2> DEFINE src(n) == IF n <= i THEN n ELSE n - 1
  <2>2. /\ src(j) \in 1 .. Len(list) /\ src(m) \in 1 .. Len(list)
        /\ src(j) <= src(m)
        /\ src(j) = src(m) => j = i /\ m = i + 1
    BY <1>0, <1>1, <1>9
  <2>3. \A n \in 1 .. Len(S) :
          /\ list[src(n)].offset <= S[n].offset
          /\ S[n].offset + S[n].length <= list[src(n)].offset + list[src(n)].length
          /\ S[n].offset \in Int /\ S[n].length \in Int
    <3> SUFFICES ASSUME NEW n \in 1 .. Len(S)
                 PROVE  /\ list[src(n)].offset <= S[n].offset
                        /\ S[n].offset + S[n].length
                              <= list[src(n)].offset + list[src(n)].length
                        /\ S[n].offset \in Int /\ S[n].length \in Int
      OBVIOUS
    <3>1. list[i].offset \in Nat /\ list[i].length \in Nat
      BY <1>0, <1>2
    <3>2. CASE n < i
      <4>1. S[n] = list[n] /\ src(n) = n /\ n \in 1 .. Len(list)
        BY <3>2, <1>0, <1>1, <1>3
      <4> QED
        BY <4>1, <1>2
    <3>3. CASE n = i \/ n = i + 1
      <4>1. src(n) = i
        BY <3>3, <1>0
      <4>2. words \in Nat /\ words <= list[i].length
        BY <3>1
      <4>3. /\ list[i].offset <= S[i].offset
            /\ S[i].offset + S[i].length <= list[i].offset + list[i].length
            /\ S[i].offset \in Int /\ S[i].length \in Int
        BY <4>2, <3>1, <1>3
      <4>4. /\ list[i].offset <= S[i + 1].offset
            /\ S[i + 1].offset + S[i + 1].length <= list[i].offset + list[i].length
            /\ S[i + 1].offset \in Int /\ S[i + 1].length \in Int
        BY <4>2, <3>1, <1>3
      <4> HIDE DEF src
      <4> QED
        BY <4>1, <4>3, <4>4, <3>3
    <3>4. CASE n > i + 1
      <4>1. n \in i + 2 .. Len(list) + 1 /\ src(n) = n - 1 /\ n - 1 \in 1 .. Len(list)
        BY <3>4, <1>0, <1>1
      <4>2. S[n] = list[n - 1]
        BY <4>1, <1>3
      <4> HIDE DEF src
      <4> QED
        BY <4>1, <4>2, <1>2
    <3> QED
      BY <3>2, <3>3, <3>4, <1>0, <1>1
  <2>5. CASE src(j) < src(m)
    <3> DEFINE beg(n) == S[n].offset
               fin(n) == S[n].offset + S[n].length
               lo(n) == list[src(n)].offset
               hi(n) == list[src(n)].offset + list[src(n)].length
    <3>1. hi(j) <= lo(m)
      BY <2>1, <2>2, <2>5
    <3>2. hi(j) \in Int /\ lo(m) \in Int
      <4>1. \A n \in 1 .. Len(list) :
               list[n].offset \in Int /\ list[n].offset + list[n].length \in Int
        BY <1>2
      <4> HIDE DEF src
      <4> QED
        BY <2>2, <4>1
    <3>3. lo(m) <= beg(m) /\ beg(m) \in Int
      BY <2>3
    <3>4. fin(j) <= hi(j) /\ fin(j) \in Int
      BY <2>3
    <3>5. fin(j) <= beg(m)
      <4> HIDE DEF beg, fin, lo, hi
      <4> QED
        BY <3>1, <3>2, <3>3, <3>4
    <3> QED
      BY <3>5
  <2>6. CASE j = i /\ m = i + 1
    BY <2>6, <1>0, <1>2, <1>3
  <2> QED
    BY <2>2, <2>5, <2>6, <1>0, <1>1
<1> QED
  BY <1>1, <1>4, <1>5, <1>6, <1>7, <1>8, <1>9 DEF Tiles, InOrder, S

\* Absorbing the next node keeps the tiling and the order.
LEMMA AbsorbTiles ==
  ASSUME list \in Seq(MemoryNode), NEW total \in Nat,
         Tiles(list, total), InOrder(list, total), total < U16,
         NEW k \in 1 .. Len(list) - 1
  PROVE  Tiles(Absorb(k), total) /\ InOrder(Absorb(k), total)
<1> DEFINE A == Absorb(k)
           src(n) == IF n <= k THEN n ELSE n + 1
           last(n) == IF n < k THEN n ELSE n + 1
           end(i) == list[i].offset + list[i].length
<1>0. k \in 1 .. Len(list) /\ k + 1 \in 1 .. Len(list) /\ Len(list) \in Nat
      /\ DOMAIN list = 1 .. Len(list)
  BY ListElement
<1>1. Len(A) = Len(list) - 1 /\ DOMAIN A = 1 .. Len(list) - 1 /\ A \in Seq(MemoryNode)
  BY AbsorbType
<1>2. \A j \in 1 .. Len(list) :
         list[j].offset \in Nat /\ list[j].length \in Nat /\ end(j) \in Nat
  BY NodeBounds
<1>3. /\ \A j \in 1 .. k - 1 : A[j] = list[j]
      /\ A[k].offset = list[k].offset
      /\ A[k].length = list[k].length + list[k + 1].length
      /\ \A j \in k + 1 .. Len(list) - 1 : A[j] = list[j + 1]
  BY AbsorbElements
<1>4. \A j \in 1 .. Len(list) - 1 : list[j + 1].offset = end(j)
  BY DEF Tiles
<1> HIDE DEF A
\* Node n of the result runs from the start of src(n) to the end of last(n).
<1>5. ASSUME NEW n \in 1 .. Len(A)
      PROVE  /\ src(n) \in 1 .. Len(list) /\ last(n) \in 1 .. Len(list)
             /\ A[n].offset = list[src(n)].offset
             /\ A[n].offset + A[n].length = end(last(n))
             /\ A[n].length \in Int
             /\ A[n].length >= list[src(n)].length
  <2>1. CASE n < k
    <3>1. A[n] = list[n] /\ src(n) = n /\ last(n) = n /\ n \in 1 .. Len(list)
      BY <2>1, <1>0, <1>1, <1>3
    <3> HIDE DEF src, last
    <3> QED
      BY <3>1, <1>2
  <2>2. CASE n = k
    <3>1. src(n) = k /\ last(n) = k + 1
      BY <2>2, <1>0
    <3>2. list[k + 1].offset = end(k)
      BY <1>4
    <3>3. /\ list[k].offset \in Nat /\ list[k].length \in Nat
          /\ list[k + 1].length \in Nat /\ list[k + 1].offset \in Nat
      BY <1>0, <1>2
    <3>4. A[k].offset + A[k].length = end(k + 1) /\ A[k].length \in Int
          /\ A[k].length >= list[k].length
      BY <3>2, <3>3, <1>3
    <3> HIDE DEF src, last, end
    <3> QED
      BY <3>1, <3>4, <1>3, <1>0, <2>2
  <2>3. CASE n > k
    <3>1. A[n] = list[n + 1] /\ src(n) = n + 1 /\ last(n) = n + 1 /\ n + 1 \in 1 .. Len(list)
      BY <2>3, <1>0, <1>1, <1>3
    <3> HIDE DEF src, last
    <3> QED
      BY <3>1, <1>2
  <2> QED
    BY <2>1, <2>2, <2>3, <1>0, <1>1
<1>6. \A j \in 1 .. Len(A) : A[j].length > 0
  <2>1. \A j \in 1 .. Len(list) : list[j].length > 0
    BY <1>0 DEF Tiles
  <2> SUFFICES ASSUME NEW j \in 1 .. Len(A) PROVE A[j].length > 0
    OBVIOUS
  <2>2. list[src(j)].length > 0 /\ list[src(j)].length \in Nat
    BY <2>1, <1>2, <1>5
  <2>3. A[j].length \in Int /\ A[j].length >= list[src(j)].length
    BY <1>5
  <2> HIDE DEF src
  <2> QED
    BY <2>2, <2>3
<1>7. \A j \in 1 .. Len(A) - 1 : A[j + 1].offset = A[j].offset + A[j].length
  <2> SUFFICES ASSUME NEW j \in 1 .. Len(A) - 1
               PROVE  A[j + 1].offset = A[j].offset + A[j].length
    OBVIOUS
  <2>1. j \in 1 .. Len(A) /\ j + 1 \in 1 .. Len(A)
    BY <1>0, <1>1
  <2>2. src(j + 1) = last(j) + 1 /\ last(j) \in 1 .. Len(list) - 1
    BY <2>1, <1>0, <1>1
  <2>3. A[j + 1].offset = list[src(j + 1)].offset /\ A[j].offset + A[j].length = end(last(j))
    BY <2>1, <1>5
  <2>4. list[last(j) + 1].offset = end(last(j))
    BY <2>2, <1>4
  <2> HIDE DEF src, last, end
  <2> QED
    BY <2>2, <2>3, <2>4
<1>8. A # <<>> /\ A[1].offset = 0
  <2>1. 1 \in 1 .. Len(A) /\ src(1) = 1
    BY <1>0, <1>1
  <2>2. list[1].offset = 0
    BY DEF Tiles
  <2>3. A[1].offset = list[src(1)].offset
    BY <2>1, <1>5
  <2> QED
    BY <2>1, <2>2, <2>3, <1>0, <1>1
<1>9. A[Len(A)].offset + A[Len(A)].length = total
  <2>1. Len(A) \in 1 .. Len(A) /\ last(Len(A)) = Len(list)
    <3>1. Len(A) = Len(list) - 1 /\ k <= Len(list) - 1 /\ 1 <= k /\ k \in Int
      BY <1>1
    <3>2. Len(A) \in Int /\ 1 <= Len(A) /\ k <= Len(A) /\ Len(A) + 1 = Len(list)
      BY <3>1, <1>0
    <3> QED
      BY <3>2, <1>0
  <2>2. end(Len(list)) = total
    BY DEF Tiles
  <2>3. A[Len(A)].offset + A[Len(A)].length = end(last(Len(A)))
    BY <2>1, <1>5
  <2> HIDE DEF end, last
  <2> QED
    BY <2>1, <2>2, <2>3
<1>10. \A j \in 1 .. Len(A) : A[j].offset + A[j].length <= total
  <2>1. \A j \in 1 .. Len(list) : end(j) <= total
    BY <1>0 DEF InOrder
  <2> HIDE DEF end, last, src
  <2> QED
    BY <2>1, <1>5
<1>11. ASSUME NEW j \in 1 .. Len(A), NEW m \in 1 .. Len(A), j < m
       PROVE  A[j].offset + A[j].length <= A[m].offset
  <2>1. last(j) < src(m)
    BY <1>11, <1>0, <1>1
  <2>2. \A p, q \in 1 .. Len(list) : p < q => end(p) <= list[q].offset
    BY <1>0 DEF InOrder
  <2>3. A[j].offset + A[j].length = end(last(j)) /\ A[m].offset = list[src(m)].offset
        /\ last(j) \in 1 .. Len(list) /\ src(m) \in 1 .. Len(list)
    BY <1>5
  <2> HIDE DEF end, last, src
  <2> QED
    BY <2>1, <2>2, <2>3
<1> QED
  BY <1>1, <1>6, <1>7, <1>8, <1>9, <1>10, <1>11 DEF Tiles, InOrder, A

\* Marking a node keeps the tiling and the order.
LEMMA MarkedTiles ==
  ASSUME list \in Seq(MemoryNode), NEW total \in Nat,
         Tiles(list, total), InOrder(list, total),
         NEW i \in DOMAIN list, NEW hole \in BOOLEAN
  PROVE  Tiles(Marked(i, hole), total) /\ InOrder(Marked(i, hole), total)
<1> DEFINE M == Marked(i, hole)
<1>0. DOMAIN list = 1 .. Len(list) /\ Len(list) \in Nat /\ i \in 1 .. Len(list)
  BY ListElement
<1>1. Len(M) = Len(list) /\ DOMAIN M = 1 .. Len(list) /\ M \in Seq(MemoryNode)
  BY MarkedType
<1>2. \A j \in 1 .. Len(list) : M[j].offset = list[j].offset /\ M[j].length = list[j].length
  BY MarkedElements
<1> HIDE DEF M
<1>3. Tiles(M, total)
  BY <1>0, <1>1, <1>2 DEF Tiles
<1>4. InOrder(M, total)
  BY <1>0, <1>1, <1>2 DEF InOrder
<1> QED
  BY <1>3, <1>4 DEF M
-----------------------------------------------------------------------------
(* Words and addresses                                                     *)

\* Different words have different addresses.
LEMMA AddressInjective ==
  ASSUME NEW m \in Nat, NEW n \in Nat, m * WordSize = n * WordSize
  PROVE  m = n
BY WidthsAssumption

\* A word of the block has an address that fits an unsigned.
LEMMA AddressExact ==
  ASSUME NEW w \in Nat, w < U16
  PROVE  Address(w) = w * WordSize
<1>1. WordSize \in Nat /\ WordSize > 0 /\ U16 \in Nat /\ U32 \in Nat /\ U16 * WordSize <= U32
  BY WidthsAssumption
<1>2. w * WordSize < U16 * WordSize
  BY <1>1
<1>3. w * WordSize \in Nat /\ w * WordSize < U32
  BY <1>1, <1>2
<1>4. \A x \in Nat : x < U32 => x % U32 = x
  BY <1>1
<1> QED
  BY <1>3, <1>4 DEF Address

\* free computes the word its address names.
LEMMA TargetExact ==
  ASSUME InputsFit, NEW a \in Addresses
  PROVE  TargetOffset(a) \in Nat /\ TargetOffset(a) * WordSize = a
<1>1. a \in Nat /\ a % WordSize = 0 /\ a \div WordSize < U16 /\ WordSize \in Nat \ {0}
  BY Inputs, WidthsAssumption DEF InputsFit
<1>2. a \div WordSize \in Nat /\ a = WordSize * (a \div WordSize) + (a % WordSize)
  BY <1>1
<1>3. (a \div WordSize) % U16 = a \div WordSize
  BY <1>1, <1>2, NotTruncated
<1> QED
  BY <1>1, <1>2, <1>3 DEF TargetOffset

\* allocate rounds a request up to whole words.
LEMMA WordsNeededRoundsUp ==
  ASSUME InputsFit, NEW n \in Requests, n # 0
  PROVE  /\ WordsNeeded(n) \in Nat /\ WordsNeeded(n) > 0
         /\ AnswersRequest(WordsNeeded(n), n)
<1> DEFINE up == n + WordSize - 1
           w == up \div WordSize
<1>1. /\ n \in Nat /\ n > 0 /\ WordSize \in Nat \ {0} /\ up \in Nat /\ up < SizeT
      /\ w < U32 \div 2 /\ SizeT \in Nat /\ U32 \in Nat
  BY Inputs, WidthsAssumption DEF InputsFit
<1>2. up % SizeT = up
  BY <1>1
<1>3. w \in Nat /\ up = WordSize * w + (up % WordSize) /\ (up % WordSize) \in 0 .. WordSize - 1
  BY <1>1
<1>4. ToInt(w) = w
  <2>1. U32 \div 2 \in Nat /\ w + U32 \div 2 \in Nat /\ w + U32 \div 2 < U32
    BY <1>1, <1>3
  <2>2. (w + U32 \div 2) % U32 = w + U32 \div 2
    BY <2>1, <1>1
  <2> QED
    BY <2>1, <2>2, <1>3 DEF ToInt
<1>5. WordsNeeded(n) = w
  BY <1>2, <1>4 DEF WordsNeeded
<1>6. n <= WordSize * w /\ WordSize * w < n + WordSize
  <2> DEFINE p == WordSize * w
             r == up % WordSize
  <2>1. p \in Int /\ r \in Int /\ up = p + r /\ 0 <= r /\ r <= WordSize - 1
    BY <1>1, <1>3
  <2> HIDE DEF p, r
  <2>2. n <= p /\ p < n + WordSize
    BY <2>1, <1>1
  <2> QED
    BY <2>2 DEF p
<1>7. w > 0
  <2>1. w = 0 => WordSize * w = 0
    BY <1>1
  <2> HIDE DEF w
  <2> QED
    BY <2>1, <1>1, <1>3, <1>6
<1>8. WordSize * w = w * WordSize
  BY <1>1, <1>3
<1> HIDE DEF w
<1> QED
  BY <1>3, <1>5, <1>6, <1>7, <1>8 DEF AnswersRequest

-----------------------------------------------------------------------------
(* The client's blocks and the list                                        *)

\* No two nodes of a tiled list start at the same word.
LEMMA OffsetsDistinct ==
  ASSUME list \in Seq(MemoryNode), NEW total \in Nat,
         Tiles(list, total), InOrder(list, total), total < U16,
         NEW i \in 1 .. Len(list), NEW j \in 1 .. Len(list), i # j
  PROVE  list[i].offset # list[j].offset
<1>1. DOMAIN list = 1 .. Len(list)
  BY ListElement
<1>2. /\ list[i].offset \in Nat /\ list[i].length \in Nat /\ list[i].length > 0
      /\ list[j].offset \in Nat /\ list[j].length \in Nat /\ list[j].length > 0
  BY <1>1, NodeBounds DEF Tiles
<1>3. CASE i < j
  <2>1. list[i].offset + list[i].length <= list[j].offset
    BY <1>1, <1>3 DEF InOrder
  <2> QED
    BY <2>1, <1>2
<1>4. CASE j < i
  <2>1. list[j].offset + list[j].length <= list[i].offset
    BY <1>1, <1>4 DEF InOrder
  <2> QED
    BY <2>1, <1>2
<1> QED
  BY <1>3, <1>4

\* A block in use is a pair of naturals inside the block, and starts at a node.
LEMMA UsedElement ==
  ASSUME list \in Seq(MemoryNode), NEW total \in Nat, InOrder(list, total), total < U16,
         NEW b \in Used(list)
  PROVE  \E i \in 1 .. Len(list) :
            /\ ~ list[i].isHole
            /\ b = <<list[i].offset, list[i].length>>
            /\ b[1] = list[i].offset /\ b[2] = list[i].length
            /\ b[1] \in Nat /\ b[1] < U16
<1>1. PICK i \in 1 .. Len(list) : ~ list[i].isHole /\ b = <<list[i].offset, list[i].length>>
  BY ListElement DEF Used
<1>2. list[i].offset \in Nat /\ list[i].length \in Nat /\ list[i].offset + list[i].length < U16
  BY NodeBounds
<1>3. list[i].offset < U16
  BY <1>2, U16IsNat
<1> QED
  BY <1>1, <1>2, <1>3

\* A node in use contributes its block.
LEMMA UsedNode ==
  ASSUME NEW nodes, NEW i \in DOMAIN nodes, ~ nodes[i].isHole
  PROVE  <<nodes[i].offset, nodes[i].length>> \in Used(nodes)
BY DEF Used

\* Different blocks have different addresses, and no block has the address of
\* a hole.
LEMMA BlockAddresses ==
  ASSUME list \in Seq(MemoryNode), NEW total \in Nat,
         Tiles(list, total), InOrder(list, total), total < U16
  PROVE  /\ \A b, c \in Used(list) : b[1] * WordSize = c[1] * WordSize => b = c
         /\ \A b \in Used(list), i \in Holes : b[1] * WordSize # list[i].offset * WordSize
<1>1. ASSUME NEW b \in Used(list), NEW c \in Used(list), b[1] * WordSize = c[1] * WordSize
      PROVE  b = c
  <2>1. PICK i \in 1 .. Len(list) : b = <<list[i].offset, list[i].length>>
                                    /\ b[1] = list[i].offset /\ b[1] \in Nat
    BY UsedElement
  <2>2. PICK j \in 1 .. Len(list) : c = <<list[j].offset, list[j].length>>
                                    /\ c[1] = list[j].offset /\ c[1] \in Nat
    BY UsedElement
  <2>3. b[1] = c[1]
    BY <1>1, <2>1, <2>2, AddressInjective
  <2>4. i = j
    BY <2>1, <2>2, <2>3, OffsetsDistinct
  <2> QED
    BY <2>1, <2>2, <2>4
<1>2. ASSUME NEW b \in Used(list), NEW i \in Holes, b[1] * WordSize = list[i].offset * WordSize
      PROVE  FALSE
  <2>1. PICK j \in 1 .. Len(list) : ~ list[j].isHole /\ b[1] = list[j].offset /\ b[1] \in Nat
    BY UsedElement
  <2>2. i \in 1 .. Len(list) /\ list[i].isHole /\ list[i].offset \in Nat
    BY ListElement, WordIsNat DEF Holes
  <2>3. b[1] = list[i].offset
    BY <1>2, <2>1, <2>2, AddressInjective
  <2> QED
    BY <2>1, <2>2, <2>3, OffsetsDistinct
<1> QED
  BY <1>1, <1>2

\* What marking, splitting and absorbing do to the blocks in use.
LEMMA FreedUsed ==
  ASSUME list \in Seq(MemoryNode), NEW total \in Nat,
         Tiles(list, total), InOrder(list, total), total < U16,
         NEW i \in DOMAIN list, ~ list[i].isHole
  PROVE  Used(Marked(i, TRUE)) = Used(list) \ {<<list[i].offset, list[i].length>>}
<1> DEFINE M == Marked(i, TRUE)
<1>0. DOMAIN list = 1 .. Len(list) /\ DOMAIN M = 1 .. Len(list) /\ i \in 1 .. Len(list)
  BY ListElement, MarkedType
<1>1. /\ \A j \in 1 .. Len(list) : /\ M[j].offset = list[j].offset
                                   /\ M[j].length = list[j].length
                                   /\ j # i => M[j].isHole = list[j].isHole
      /\ M[i].isHole
  BY MarkedElements
<1>2. \A j \in 1 .. Len(list) : j # i => list[j].offset # list[i].offset
  BY <1>0, OffsetsDistinct
<1> HIDE DEF M
<1>3. ASSUME NEW b \in Used(M) PROVE b \in Used(list) \ {<<list[i].offset, list[i].length>>}
  <2>1. PICK j \in 1 .. Len(list) : ~ M[j].isHole /\ b = <<M[j].offset, M[j].length>>
    BY <1>0 DEF Used
  <2>2. j # i /\ ~ list[j].isHole /\ b = <<list[j].offset, list[j].length>>
    BY <2>1, <1>1
  <2>3. b \in Used(list)
    BY <2>2, <1>0, UsedNode
  <2>4. list[j].offset # list[i].offset
    BY <2>2, <1>2
  <2> QED
    BY <2>2, <2>3, <2>4
<1>4. ASSUME NEW b \in Used(list), b # <<list[i].offset, list[i].length>> PROVE b \in Used(M)
  <2>1. PICK j \in 1 .. Len(list) : ~ list[j].isHole /\ b = <<list[j].offset, list[j].length>>
    BY <1>0 DEF Used
  <2>2. j # i
    BY <2>1, <1>4
  <2>3. ~ M[j].isHole /\ b = <<M[j].offset, M[j].length>> /\ j \in DOMAIN M
    BY <2>1, <2>2, <1>0, <1>1
  <2> QED
    BY <2>3, UsedNode
<1> QED
  BY <1>3, <1>4 DEF M

LEMMA GrantedUsed ==
  ASSUME list \in Seq(MemoryNode), NEW i \in DOMAIN list, list[i].isHole
  PROVE  Used(Marked(i, FALSE)) = Used(list) \union {<<list[i].offset, list[i].length>>}
<1> DEFINE M == Marked(i, FALSE)
<1>0. DOMAIN list = 1 .. Len(list) /\ DOMAIN M = 1 .. Len(list) /\ i \in 1 .. Len(list)
  BY ListElement, MarkedType
<1>1. /\ \A j \in 1 .. Len(list) : /\ M[j].offset = list[j].offset
                                   /\ M[j].length = list[j].length
                                   /\ j # i => M[j].isHole = list[j].isHole
      /\ ~ M[i].isHole
  BY MarkedElements
<1> HIDE DEF M
<1>2. ASSUME NEW b \in Used(M), b # <<list[i].offset, list[i].length>> PROVE b \in Used(list)
  <2>1. PICK j \in 1 .. Len(list) : ~ M[j].isHole /\ b = <<M[j].offset, M[j].length>>
    BY <1>0 DEF Used
  <2>2. j # i /\ ~ list[j].isHole /\ b = <<list[j].offset, list[j].length>>
    BY <2>1, <1>1, <1>2
  <2> QED
    BY <2>2, <1>0, UsedNode
<1>3. <<list[i].offset, list[i].length>> \in Used(M)
  <2>1. <<M[i].offset, M[i].length>> \in Used(M)
    BY <1>0, <1>1, UsedNode
  <2> QED
    BY <2>1, <1>0, <1>1
<1>4. ASSUME NEW b \in Used(list) PROVE b \in Used(M)
  <2>1. PICK j \in 1 .. Len(list) : ~ list[j].isHole /\ b = <<list[j].offset, list[j].length>>
    BY <1>0 DEF Used
  <2>2. ~ M[j].isHole /\ b = <<M[j].offset, M[j].length>> /\ j \in DOMAIN M
    BY <2>1, <1>0, <1>1
  <2> QED
    BY <2>2, UsedNode
<1> QED
  BY <1>2, <1>3, <1>4 DEF M

LEMMA SplitUsed ==
  ASSUME list \in Seq(MemoryNode), NEW total \in Nat, InOrder(list, total), total < U16,
         NEW i \in DOMAIN list, words \in Nat, words < list[i].length, list[i].isHole
  PROVE  Used(Split(i)) = Used(list) \union {<<list[i].offset, words>>}
<1> DEFINE S == Split(i)
<1>0. /\ DOMAIN list = 1 .. Len(list) /\ DOMAIN S = 1 .. Len(list) + 1
      /\ i \in 1 .. Len(list) /\ Len(list) \in Nat
  BY ListElement, SplitType
<1>1. /\ \A j \in 1 .. i - 1 : S[j] = list[j]
      /\ S[i].offset = list[i].offset /\ S[i].length = words /\ ~ S[i].isHole
      /\ S[i + 1].isHole
      /\ \A j \in i + 2 .. Len(list) + 1 : S[j] = list[j - 1]
  BY SplitElements
<1> HIDE DEF S
<1>2. ASSUME NEW b \in Used(S), b # <<list[i].offset, words>> PROVE b \in Used(list)
  <2>1. PICK j \in 1 .. Len(list) + 1 : ~ S[j].isHole /\ b = <<S[j].offset, S[j].length>>
    BY <1>0 DEF Used
  <2>2. j # i /\ j # i + 1
    BY <2>1, <1>1, <1>2
  <2>3. CASE j < i
    <3>1. S[j] = list[j] /\ j \in DOMAIN list
      BY <2>3, <1>0, <1>1
    <3> QED
      BY <3>1, <2>1, UsedNode
  <2>4. CASE j > i + 1
    <3>1. S[j] = list[j - 1] /\ j - 1 \in DOMAIN list
      BY <2>4, <1>0, <1>1
    <3> QED
      BY <3>1, <2>1, UsedNode
  <2> QED
    BY <2>2, <2>3, <2>4, <1>0
<1>3. <<list[i].offset, words>> \in Used(S)
  <2>1. i \in DOMAIN S
    BY <1>0
  <2>2. <<S[i].offset, S[i].length>> \in Used(S)
    BY <2>1, <1>1, UsedNode
  <2> QED
    BY <2>2, <1>1
<1>4. ASSUME NEW b \in Used(list) PROVE b \in Used(S)
  <2>1. PICK j \in 1 .. Len(list) : ~ list[j].isHole /\ b = <<list[j].offset, list[j].length>>
    BY <1>0 DEF Used
  <2>2. j # i
    BY <2>1
  <2>3. CASE j < i
    <3>1. S[j] = list[j] /\ j \in DOMAIN S
      BY <2>3, <1>0, <1>1
    <3> QED
      BY <3>1, <2>1, UsedNode
  <2>4. CASE j > i
    <3>1. j + 1 \in i + 2 .. Len(list) + 1 /\ (j + 1) - 1 = j /\ j + 1 \in DOMAIN S
      BY <2>4, <1>0
    <3>2. S[j + 1] = list[j]
      BY <3>1, <1>1
    <3> QED
      BY <3>1, <3>2, <2>1, UsedNode
  <2> QED
    BY <2>2, <2>3, <2>4, <1>0
<1> QED
  BY <1>2, <1>3, <1>4 DEF S

LEMMA AbsorbUsed ==
  ASSUME list \in Seq(MemoryNode), NEW total \in Nat,
         Tiles(list, total), InOrder(list, total), total < U16,
         NEW k \in 1 .. Len(list) - 1, list[k].isHole, list[k + 1].isHole
  PROVE  Used(Absorb(k)) = Used(list)
<1> DEFINE A == Absorb(k)
<1>a. DOMAIN A = 1 .. Len(list) - 1
  BY AbsorbType
<1>b. DOMAIN list = 1 .. Len(list) /\ Len(list) \in Nat
  BY ListElement
<1>0. /\ DOMAIN list = 1 .. Len(list) /\ DOMAIN A = 1 .. Len(list) - 1
      /\ k \in 1 .. Len(list) /\ Len(list) \in Nat
  BY <1>a, <1>b
<1>1. /\ \A j \in 1 .. k - 1 : A[j] = list[j]
      /\ A[k].isHole
      /\ \A j \in k + 1 .. Len(list) - 1 : A[j] = list[j + 1]
  BY AbsorbElements
<1> HIDE DEF A
<1>2. ASSUME NEW b \in Used(A) PROVE b \in Used(list)
  <2>1. PICK j \in 1 .. Len(list) - 1 : ~ A[j].isHole /\ b = <<A[j].offset, A[j].length>>
    BY <1>0 DEF Used
  <2>2. j # k
    BY <2>1, <1>1
  <2>3. CASE j < k
    <3>1. A[j] = list[j] /\ j \in DOMAIN list
      BY <2>3, <1>0, <1>1
    <3> QED
      BY <3>1, <2>1, UsedNode
  <2>4. CASE j > k
    <3>1. A[j] = list[j + 1] /\ j + 1 \in DOMAIN list
      BY <2>4, <1>0, <1>1
    <3> QED
      BY <3>1, <2>1, UsedNode
  <2> QED
    BY <2>2, <2>3, <2>4, <1>0
<1>3. ASSUME NEW b \in Used(list) PROVE b \in Used(A)
  <2>1. PICK j \in 1 .. Len(list) : ~ list[j].isHole /\ b = <<list[j].offset, list[j].length>>
    BY <1>0 DEF Used
  <2>2. j # k /\ j # k + 1
    BY <2>1
  <2>3. CASE j < k
    <3>1. A[j] = list[j] /\ j \in DOMAIN A
      BY <2>3, <1>0, <1>1
    <3> QED
      BY <3>1, <2>1, UsedNode
  <2>4. CASE j > k + 1
    <3>1. j - 1 \in k + 1 .. Len(list) - 1 /\ (j - 1) + 1 = j /\ j - 1 \in DOMAIN A
      BY <2>4, <1>0
    <3>2. A[j - 1] = list[j]
      BY <3>1, <1>1
    <3> QED
      BY <3>1, <3>2, <2>1, UsedNode
  <2> QED
    BY <2>2, <2>3, <2>4, <1>0
<1> QED
  BY <1>2, <1>3 DEF A

\* A grant at a hole backs the client's new address.
LEMMA GrantBacked ==
  ASSUME list \in Seq(MemoryNode), NEW total \in Nat,
         Tiles(list, total), InOrder(list, total), total < U16,
         Backed(list, live),
         NEW i \in DOMAIN list, list[i].isHole,
         NEW nodes, NEW len \in Nat, AnswersRequest(len, bytes),
         Used(nodes) = Used(list) \union {<<list[i].offset, len>>}
  PROVE  Backed(nodes, Granted(list[i].offset * WordSize))
<1> DEFINE a == list[i].offset * WordSize
           new == <<list[i].offset, len>>
<1>1. new[1] = list[i].offset /\ new[2] = len
  OBVIOUS
<1>2. \A b \in Used(list) : b[1] * WordSize # a
  BY BlockAddresses DEF Holes
<1>3. DOMAIN live = {b[1] * WordSize : b \in Used(list)}
  BY DEF Backed
<1>4. \A b \in Used(list) : AnswersRequest(b[2], live[b[1] * WordSize])
  BY DEF Backed
<1>5. DOMAIN Granted(a) = {b[1] * WordSize : b \in Used(nodes)}
  <2>1. DOMAIN Granted(a) = DOMAIN live \union {a}
    BY DEF Granted
  <2>2. {b[1] * WordSize : b \in Used(nodes)}
           = {b[1] * WordSize : b \in Used(list)} \union {new[1] * WordSize}
    OBVIOUS
  <2> QED
    BY <2>1, <2>2, <1>1, <1>3
<1>6. ASSUME NEW b \in Used(nodes)
      PROVE  AnswersRequest(b[2], Granted(a)[b[1] * WordSize])
  <2>1. CASE b \in Used(list)
    <3>1. b[1] * WordSize \in DOMAIN live /\ b[1] * WordSize # a
      BY <2>1, <1>2, <1>3
    <3>2. Granted(a)[b[1] * WordSize] = live[b[1] * WordSize]
      BY <3>1 DEF Granted
    <3> QED
      BY <2>1, <3>2, <1>4
  <2>2. CASE b = new
    <3>1. Granted(a)[a] = bytes
      BY DEF Granted
    <3> QED
      BY <2>2, <3>1, <1>1
  <2> QED
    BY <2>1, <2>2
<1> QED
  BY <1>5, <1>6 DEF Backed

\* What is left of the client's view once it gives up address a.
Forgotten(a) == [b \in DOMAIN live \ {a} |-> live[b]]

\* free at the address of a block gives up that block and no other.
LEMMA FreeBacked ==
  ASSUME list \in Seq(MemoryNode), NEW total \in Nat,
         Tiles(list, total), InOrder(list, total), total < U16,
         Backed(list, live),
         NEW i \in DOMAIN list, ~ list[i].isHole
  PROVE  Backed(Marked(i, TRUE), Forgotten(list[i].offset * WordSize))
<1> DEFINE a == list[i].offset * WordSize
           old == <<list[i].offset, list[i].length>>
           M == Marked(i, TRUE)
<1>1. Used(M) = Used(list) \ {old}
  BY FreedUsed
<1>2. old \in Used(list) /\ old[1] = list[i].offset
  BY UsedNode
<1>3. \A b \in Used(list) : b[1] * WordSize = a => b = old
  BY <1>2, BlockAddresses
<1>4. DOMAIN live = {b[1] * WordSize : b \in Used(list)}
  BY DEF Backed
<1>5. \A b \in Used(list) : AnswersRequest(b[2], live[b[1] * WordSize])
  BY DEF Backed
<1>6. DOMAIN Forgotten(a) = DOMAIN live \ {a}
  BY DEF Forgotten
<1>7. {b[1] * WordSize : b \in Used(M)} = DOMAIN live \ {a}
  BY <1>1, <1>2, <1>3, <1>4
<1>8. ASSUME NEW b \in Used(M) PROVE AnswersRequest(b[2], Forgotten(a)[b[1] * WordSize])
  <2>1. b \in Used(list) /\ b[1] * WordSize \in DOMAIN live \ {a}
    BY <1>1, <1>7
  <2>2. Forgotten(a)[b[1] * WordSize] = live[b[1] * WordSize]
    BY <2>1 DEF Forgotten
  <2> QED
    BY <2>1, <2>2, <1>5
<1> QED
  BY <1>6, <1>7, <1>8 DEF Backed

\* An address at which no block in use starts is none of the client's.
LEMMA NothingFreed ==
  ASSUME list \in Seq(MemoryNode), NEW total \in Nat,
         Tiles(list, total), InOrder(list, total), total < U16,
         Backed(list, live), InputsFit,
         NEW a \in Addresses, \A i \in DOMAIN list : ~ Freed(i, a)
  PROVE  Backed(list, Forgotten(a))
<1>1. DOMAIN live = {b[1] * WordSize : b \in Used(list)}
  BY DEF Backed
<1>2. a \notin DOMAIN live
  <2> SUFFICES ASSUME a \in DOMAIN live PROVE FALSE
    OBVIOUS
  <2>1. PICK b \in Used(list) : a = b[1] * WordSize
    BY <1>1
  <2>2. PICK i \in 1 .. Len(list) : ~ list[i].isHole /\ b[1] = list[i].offset /\ b[1] \in Nat
    BY UsedElement
  <2>3. TargetOffset(a) \in Nat /\ TargetOffset(a) * WordSize = a
    BY TargetExact
  <2>4. list[i].offset = TargetOffset(a)
    BY <2>1, <2>2, <2>3, AddressInjective
  <2>5. i \in DOMAIN list /\ \A j \in 1 .. i - 1 : j \in 1 .. Len(list) /\ i # j
    BY ListElement
  <2>6. \A j \in 1 .. i - 1 : list[j].offset # TargetOffset(a)
    BY <2>4, <2>5, OffsetsDistinct
  <2>7. Freed(i, a)
    BY <2>2, <2>4, <2>6 DEF Freed
  <2> QED
    BY <2>5, <2>7
<1>3. \A b \in Used(list) : b[1] * WordSize \in DOMAIN live \ {a}
  BY <1>1, <1>2
<1>4. \A b \in Used(list) : Forgotten(a)[b[1] * WordSize] = live[b[1] * WordSize]
  BY <1>3 DEF Forgotten
<1>5. DOMAIN Forgotten(a) = DOMAIN live
  BY <1>2 DEF Forgotten
<1> QED
  BY <1>4, <1>5 DEF Backed

-----------------------------------------------------------------------------
(* The inductive invariant: one lemma per action that touches the list     *)

LEMMA InitIndInv == Init => IndInv
<1> SUFFICES ASSUME Init PROVE IndInv
  OBVIOUS
<1>1. list = <<>> /\ mapped = FALSE /\ live = NoBlocks
  BY DEF Init
<1>2. Used(list) = {}
  BY <1>1 DEF Used
<1>3. LiveBlocksBacked
  BY <1>1, <1>2, NoBlocksType DEF LiveBlocksBacked, Backed
<1>4. CursorOK /\ ListTilesMemory /\ NodesInOrder /\ MergedBehindCursor
  BY <1>1 DEF Init, CursorOK, ListTilesMemory, NodesInOrder, MergedBehindCursor
<1>5. RequestInProgress
  BY DEF Init, RequestInProgress
<1>6. ChoiceIsHole
  BY DEF Init, ChoiceIsHole
<1> QED
  BY <1>3, <1>4, <1>5, <1>6 DEF IndInv

\* The facts the list lemmas start from.
LEMMA BlockFacts ==
  ASSUME TypeInv, IndInv, mapped
  PROVE  /\ list \in Seq(MemoryNode) /\ totalWords \in Nat
         /\ Tiles(list, totalWords) /\ InOrder(list, totalWords) /\ totalWords < U16
         /\ Backed(list, live)
BY DEF TypeInv, TypeOK, IndInv, ListTilesMemory, NodesInOrder, LiveBlocksBacked

\* A step that leaves the block, its list and the client's view alone.
LEMMA BlocksUntouched ==
  ASSUME IndInv, UNCHANGED <<mapped, totalWords, list, live>>
  PROVE  ListTilesMemory' /\ NodesInOrder' /\ LiveBlocksBacked'
BY DEF IndInv, ListTilesMemory, NodesInOrder, LiveBlocksBacked

\* A call that leaves nothing mapped leaves an empty list.
LEMMA NothingMapped ==
  ASSUME TypeInv, IndInv, pc = "idle",
         mapped' = FALSE, list' = <<>>, live' = NoBlocks, UNCHANGED <<pc, locals>>
  PROVE  IndInv'
<1>1. Used(list)' = {}
  BY DEF Used
<1>2. LiveBlocksBacked'
  BY <1>1, NoBlocksType DEF LiveBlocksBacked, Backed
<1>3. ListTilesMemory' /\ NodesInOrder' /\ MergedBehindCursor' /\ CursorOK'
  BY DEF ListTilesMemory, NodesInOrder, MergedBehindCursor, CursorOK
<1>4. RequestInProgress'
  BY DEF IndInv, RequestInProgress, locals
<1>5. ChoiceIsHole'
  <2>1. caller = "none" /\ holeInfo = <<>> /\ best = -1
    BY DEF IndInv, RequestInProgress, ChoiceIsHole
  <2> QED
    BY <2>1 DEF ChoiceIsHole, locals
<1> QED
  BY <1>2, <1>3, <1>4, <1>5 DEF IndInv

LEMMA InitializeKeeps ==
  ASSUME InputsFit, TypeInv, IndInv,
         NEW size \in Sizes, NEW outcome, NEW granted \in BOOLEAN,
         Initialize(size, outcome, granted)
  PROVE  IndInv'
<1>1. /\ pc = "idle" /\ UNCHANGED <<pc, locals>> /\ live' = NoBlocks /\ totalWords' = size
      /\ mapped' \in BOOLEAN /\ size \in Nat /\ size < U16
  BY Inputs DEF Initialize, InputsFit
<1>2. CASE ~ mapped'
  <2>1. list' = <<>>
    BY <1>2 DEF Initialize, IndInv, ListTilesMemory
  <2> QED
    BY <1>1, <1>2, <2>1, NothingMapped
<1>3. CASE mapped'
  <2> DEFINE node == [offset |-> 0, length |-> size, isHole |-> TRUE]
  <2>1. list' = <<node>> /\ size > 0
    <3>1. size % U16 = size
      BY <1>1, NotTruncated
    <3>2. list' = << [offset |-> 0, length |-> size % U16, isHole |-> TRUE] >>
      BY <1>3 DEF Initialize, GenerateInitialNode
    <3>3. size # 0
      BY <1>3 DEF Initialize
    <3>4. list' = <<node>>
      BY <3>1, <3>2
    <3>5. size > 0
      BY <3>3, <1>1
    <3> QED
      BY <3>4, <3>5
  <2>2. /\ Len(list') = 1 /\ DOMAIN list' = {1}
        /\ list'[1].offset = 0 /\ list'[1].length = size /\ list'[1].isHole
    BY <2>1
  <2> HIDE DEF node
  <2>3. ListTilesMemory'
    <3>1. list' # <<>>
      BY <2>1
    <3> QED
      BY <3>1, <2>1, <2>2, <1>1, <1>3 DEF ListTilesMemory, Tiles
  <2>4. NodesInOrder'
    BY <2>2, <1>1 DEF NodesInOrder, InOrder
  <2>5. MergedBehindCursor'
    BY <2>2 DEF MergedBehindCursor
  <2>6. LiveBlocksBacked'
    <3>1. Used(list)' = {}
      BY <2>2 DEF Used
    <3> QED
      BY <3>1, <1>1, NoBlocksType DEF LiveBlocksBacked, Backed
  <2>7. RequestInProgress' /\ CursorOK'
    BY <1>1 DEF IndInv, RequestInProgress, CursorOK, locals
  <2>8. ChoiceIsHole'
    <3>1. caller = "none" /\ holeInfo = <<>> /\ best = -1
      BY <1>1 DEF IndInv, RequestInProgress, ChoiceIsHole
    <3> QED
      BY <3>1, <1>1 DEF ChoiceIsHole, locals
  <2> QED
    BY <2>3, <2>4, <2>5, <2>6, <2>7, <2>8 DEF IndInv
<1> QED
  BY <1>1, <1>2, <1>3

\* What Return leaves of the call that made it.
LEMMA ReturnKeeps ==
  ASSUME Return
  PROVE  RequestInProgress' /\ ChoiceIsHole' /\ CursorOK'
<1>1. pc' = "idle" /\ caller' = "none" /\ holeInfo' = <<>> /\ best' = -1
  BY DEF Return, IdleLocals
<1> QED
  BY <1>1 DEF RequestInProgress, ChoiceIsHole, CursorOK

\* The node allocate turns into a block, and what it does to list and client.
LEMMA PlaceFacts ==
  ASSUME TypeInv, IndInv, Place
  PROVE  /\ pc = "fit" /\ mapped /\ Return /\ UNCHANGED <<mapped, totalWords>>
         /\ words \in Nat /\ words > 0 /\ AnswersRequest(words, bytes)
         /\ \E i \in DOMAIN list :
               /\ list[i].isHole /\ list[i].offset \in Nat /\ list[i].length \in Nat
               /\ list[i].length >= words
               /\ list' = IF list[i].length > words THEN Split(i) ELSE Marked(i, FALSE)
               /\ live' = Granted(list[i].offset * WordSize)
<1>1. PICK i \in DOMAIN list :
         /\ Chosen(i)
         /\ list' = IF list[i].length > words THEN Split(i) ELSE Marked(i, FALSE)
         /\ live' = Granted(Address(list[i].offset))
  BY DEF Place
<1>2. pc = "fit" /\ UNCHANGED <<mapped, totalWords>> /\ Return
  BY DEF Place, AllocatorReturned
<1>3. mapped /\ words > 0 /\ AnswersRequest(words, bytes)
  BY <1>2 DEF IndInv, RequestInProgress
<1>4. /\ list \in Seq(MemoryNode) /\ totalWords \in Nat
      /\ Tiles(list, totalWords) /\ InOrder(list, totalWords) /\ totalWords < U16
  BY <1>3, BlockFacts
<1>5. DOMAIN list = 1 .. Len(list) /\ Len(list) \in Nat
  BY <1>4, ListElement
<1>6. /\ list[i].isHole /\ list[i].offset = best
      /\ list[i].offset \in Nat /\ list[i].length \in Nat
      /\ list[i].offset < U16 /\ words \in Nat
  <2>1. list[i].isHole /\ list[i].offset = best
    BY <1>1 DEF Chosen
  <2>2. list[i].offset \in Nat /\ list[i].length \in Nat /\ list[i].offset < U16
    BY <1>4, <1>5, ListElement, WordIsNat
  <2>3. words \in Int
    BY DEF TypeInv, TypeOK
  <2> QED
    BY <2>1, <2>2, <2>3, <1>3
<1>7. list[i].length >= words
  <2>1. best # -1
    BY <1>6
  <2>2. bestLen >= words /\ IsListed([offset |-> best, length |-> bestLen])
    BY <2>1 DEF IndInv, ChoiceIsHole
  <2>3. PICK j \in 1 .. Len(list) : best = list[j].offset /\ bestLen = list[j].length
    BY <2>2, <1>5 DEF IsListed, Holes
  <2>4. j = i
    BY <2>3, <1>4, <1>5, <1>6, OffsetsDistinct
  <2> QED
    BY <2>2, <2>3, <2>4
<1>8. Address(list[i].offset) = list[i].offset * WordSize
  BY <1>6, AddressExact
<1> QED
  BY <1>1, <1>2, <1>3, <1>6, <1>7, <1>8

LEMMA PlaceKeeps ==
  ASSUME TypeInv, IndInv, Place
  PROVE  IndInv'
<1>1. PICK i \in DOMAIN list :
         /\ list[i].isHole /\ list[i].offset \in Nat /\ list[i].length \in Nat
         /\ list[i].length >= words
         /\ list' = IF list[i].length > words THEN Split(i) ELSE Marked(i, FALSE)
         /\ live' = Granted(list[i].offset * WordSize)
  BY PlaceFacts
<1>2. /\ pc = "fit" /\ mapped /\ Return /\ UNCHANGED <<mapped, totalWords>>
      /\ words \in Nat /\ words > 0 /\ AnswersRequest(words, bytes)
  BY PlaceFacts
<1>4. /\ list \in Seq(MemoryNode) /\ totalWords \in Nat
      /\ Tiles(list, totalWords) /\ InOrder(list, totalWords) /\ totalWords < U16
      /\ Backed(list, live)
  BY <1>2, BlockFacts
<1>5. DOMAIN list = 1 .. Len(list) /\ Len(list) \in Nat
  BY <1>4, ListElement
<1>9. \A j \in 1 .. Len(list) - 1 : ~ (list[j].isHole /\ list[j + 1].isHole)
  BY <1>2 DEF IndInv, MergedBehindCursor
<1>10. RequestInProgress' /\ ChoiceIsHole' /\ CursorOK'
  BY <1>2, ReturnKeeps
<1>11. CASE list[i].length > words
  <2>1. list' = Split(i) /\ words < list[i].length /\ words \in Nat \ {0}
    <3>1. list' = Split(i)
      BY <1>1, <1>11
    <3>2. words < list[i].length /\ words \in Nat \ {0}
      BY <1>1, <1>2, <1>11
    <3> QED
      BY <3>1, <3>2
  <2>2. Tiles(Split(i), totalWords) /\ InOrder(Split(i), totalWords)
    BY <2>1, <1>4, SplitTiles
  <2>3. Used(Split(i)) = Used(list) \union {<<list[i].offset, words>>}
    BY <2>1, <1>4, <1>1, SplitUsed
  <2>4. Backed(Split(i), Granted(list[i].offset * WordSize))
    BY <2>3, <1>2, <1>4, <1>1, GrantBacked
  <2>5. MergedBehindCursor'
    <3> DEFINE S == Split(i)
    <3>1. /\ \A j \in 1 .. i - 1 : S[j] = list[j]
          /\ S[i].isHole = FALSE
          /\ \A j \in i + 2 .. Len(list) + 1 : S[j] = list[j - 1]
      BY <2>1, <1>4, SplitElements
    <3>2. Len(S) = Len(list) + 1
      <4>1. words \in Int
        BY <1>2
      <4> QED
        BY <4>1, <1>4, SplitType
    <3> HIDE DEF S
    <3>3. ASSUME NEW j \in 1 .. Len(S) - 1, S[j].isHole, S[j + 1].isHole PROVE FALSE
      <4>1. j # i /\ j + 1 # i
        BY <3>1, <3>3
      <4>2. CASE j < i
        <5>1. j \in 1 .. i - 1 /\ j + 1 \in 1 .. i - 1 /\ j \in 1 .. Len(list) - 1
          BY <4>1, <4>2, <1>5, <3>2
        <5>2. S[j] = list[j] /\ S[j + 1] = list[j + 1]
          BY <3>1, <5>1
        <5> QED
          BY <5>1, <5>2, <3>3, <1>9
      <4>3. CASE j > i + 1
        <5>1. /\ j \in i + 2 .. Len(list) + 1 /\ j + 1 \in i + 2 .. Len(list) + 1
              /\ j - 1 \in 1 .. Len(list) - 1 /\ (j + 1) - 1 = (j - 1) + 1
          BY <4>3, <1>5, <3>2
        <5>2. S[j] = list[j - 1] /\ S[j + 1] = list[(j - 1) + 1]
          BY <3>1, <5>1
        <5> QED
          BY <5>1, <5>2, <3>3, <1>9
      <4>4. CASE j = i + 1
        <5>1. /\ j + 1 \in i + 2 .. Len(list) + 1
              /\ i \in 1 .. Len(list) - 1 /\ (j + 1) - 1 = i + 1
          BY <4>4, <1>5, <3>2
        <5>2. S[j + 1] = list[i + 1]
          BY <3>1, <5>1
        <5> QED
          BY <5>1, <5>2, <3>3, <1>1, <1>9
      <4> QED
        BY <4>1, <4>2, <4>3, <4>4, <1>5, <3>2
    <3>4. list' = S
      BY <2>1 DEF S
    <3> QED
      BY <3>3, <3>4 DEF MergedBehindCursor
  <2>6. ListTilesMemory' /\ NodesInOrder' /\ LiveBlocksBacked'
    BY <2>1, <2>2, <2>4, <1>1, <1>2, <1>4
       DEF ListTilesMemory, NodesInOrder, LiveBlocksBacked
  <2> QED
    BY <2>5, <2>6, <1>10 DEF IndInv
<1>12. CASE ~ (list[i].length > words)
  <2>1. list' = Marked(i, FALSE) /\ words = list[i].length
    <3>1. list' = Marked(i, FALSE)
      BY <1>1, <1>12
    <3>2. words = list[i].length
      BY <1>1, <1>2, <1>12
    <3> QED
      BY <3>1, <3>2
  <2>2. Tiles(Marked(i, FALSE), totalWords) /\ InOrder(Marked(i, FALSE), totalWords)
    BY <1>4, MarkedTiles
  <2>3. Used(Marked(i, FALSE)) = Used(list) \union {<<list[i].offset, words>>}
    BY <2>1, <1>4, <1>1, GrantedUsed
  <2>4. Backed(Marked(i, FALSE), Granted(list[i].offset * WordSize))
    BY <2>3, <1>2, <1>4, <1>1, GrantBacked
  <2>5. MergedBehindCursor'
    <3> DEFINE M == Marked(i, FALSE)
    <3>1. /\ \A j \in 1 .. Len(list) : j # i => M[j].isHole = list[j].isHole
          /\ M[i].isHole = FALSE
      BY <1>4, MarkedElements
    <3>2. Len(M) = Len(list)
      BY <1>4, MarkedType
    <3> HIDE DEF M
    <3>3. \A j \in 1 .. Len(M) - 1 : ~ (M[j].isHole /\ M[j + 1].isHole)
      BY <3>1, <3>2, <1>5, <1>9
    <3>4. list' = M
      BY <2>1 DEF M
    <3> QED
      BY <3>3, <3>4 DEF MergedBehindCursor
  <2>6. ListTilesMemory' /\ NodesInOrder' /\ LiveBlocksBacked'
    BY <2>1, <2>2, <2>4, <1>1, <1>2, <1>4
       DEF ListTilesMemory, NodesInOrder, LiveBlocksBacked
  <2> QED
    BY <2>5, <2>6, <1>10 DEF IndInv
<1> QED
  BY <1>11, <1>12

LEMMA FreeKeeps ==
  ASSUME InputsFit, TypeInv, IndInv, NEW a \in Addresses, Free(a)
  PROVE  IndInv'
<1>1. /\ pc = "idle" /\ mapped /\ pc' = "merge" /\ cur' = 1 /\ live' = Forgotten(a)
      /\ UNCHANGED <<mapped, totalWords, caller, holeInfo, best>>
  BY DEF Free, Forgotten
<1>2. /\ list \in Seq(MemoryNode) /\ totalWords \in Nat
      /\ Tiles(list, totalWords) /\ InOrder(list, totalWords) /\ totalWords < U16
      /\ Backed(list, live)
  BY <1>1, BlockFacts
<1>3. Tiles(list', totalWords) /\ InOrder(list', totalWords) /\ Backed(list', Forgotten(a))
  <2>1. CASE \A i \in DOMAIN list : ~ Freed(i, a)
    <3>1. list' = list
      BY <2>1 DEF Free
    <3>2. Backed(list, Forgotten(a))
      BY <2>1, <1>2, NothingFreed
    <3> QED
      BY <3>1, <3>2, <1>2
  <2>2. CASE \E i \in DOMAIN list : Freed(i, a)
    <3>1. PICK i \in DOMAIN list : Freed(i, a) /\ list' = Marked(i, TRUE)
      BY <2>2 DEF Free
    <3>2. ~ list[i].isHole /\ list[i].offset * WordSize = a
      BY <3>1, TargetExact DEF Freed
    <3>3. Tiles(Marked(i, TRUE), totalWords) /\ InOrder(Marked(i, TRUE), totalWords)
      BY <1>2, MarkedTiles
    <3>4. Backed(Marked(i, TRUE), Forgotten(list[i].offset * WordSize))
      BY <3>2, <1>2, FreeBacked
    <3> QED
      BY <3>1, <3>2, <3>3, <3>4
  <2> QED
    BY <2>1, <2>2
<1>4. ListTilesMemory' /\ NodesInOrder' /\ LiveBlocksBacked'
  BY <1>1, <1>2, <1>3 DEF ListTilesMemory, NodesInOrder, LiveBlocksBacked
<1>5. MergedBehindCursor' /\ CursorOK'
  BY <1>1 DEF MergedBehindCursor, CursorOK
<1>6. RequestInProgress'
  BY <1>1 DEF IndInv, RequestInProgress
<1>7. ChoiceIsHole'
  <2>1. caller = "none" /\ holeInfo = <<>> /\ best = -1
    BY <1>1 DEF IndInv, RequestInProgress, ChoiceIsHole
  <2> QED
    BY <2>1, <1>1 DEF ChoiceIsHole
<1> QED
  BY <1>4, <1>5, <1>6, <1>7 DEF IndInv

LEMMA MergeStepKeeps ==
  ASSUME TypeInv, IndInv, MergeStep
  PROVE  IndInv'
<1>1. /\ pc = "merge" /\ cur < Len(list)
      /\ UNCHANGED <<mapped, totalWords, live, pc, caller, bytes, words, holeInfo, best, bestLen>>
  BY DEF MergeStep
<1>2. /\ mapped /\ cur \in Nat /\ cur > 0
      /\ list \in Seq(MemoryNode) /\ totalWords \in Nat
      /\ Tiles(list, totalWords) /\ InOrder(list, totalWords) /\ totalWords < U16
      /\ Backed(list, live)
  <2>1. mapped /\ cur \in Nat /\ cur > 0
    BY <1>1 DEF IndInv, RequestInProgress, CursorOK, TypeInv, TypeOK
  <2> QED
    BY <2>1, BlockFacts
<1>3. Len(list) \in Nat
  BY <1>2, ListElement
<1>4. cur \in 1 .. Len(list) - 1
  BY <1>1, <1>2, <1>3
<1>5. \A j \in 1 .. Len(list) - 1 : list[j].isHole /\ list[j + 1].isHole => j >= cur
  BY DEF IndInv, MergedBehindCursor
<1>6. RequestInProgress'
  BY <1>1 DEF IndInv, RequestInProgress
<1>7. ChoiceIsHole'
  <2>1. caller = "none" /\ holeInfo = <<>> /\ best = -1
    BY <1>1 DEF IndInv, RequestInProgress, ChoiceIsHole
  <2> QED
    BY <2>1, <1>1 DEF ChoiceIsHole
<1>8. CASE Merges(cur)
  <2>1. list' = Absorb(cur) /\ cur' = cur
    BY <1>8 DEF MergeStep, Advance
  <2>2. list[cur].isHole /\ list[cur + 1].isHole
    BY <1>8 DEF Merges
  <2>3. Tiles(Absorb(cur), totalWords) /\ InOrder(Absorb(cur), totalWords)
    BY <1>2, <1>4, AbsorbTiles
  <2>4. Used(Absorb(cur)) = Used(list)
    BY <2>2, <1>2, <1>4, AbsorbUsed
  <2>5. ListTilesMemory' /\ NodesInOrder'
    BY <2>1, <2>3, <1>1, <1>2 DEF ListTilesMemory, NodesInOrder
  <2>6. LiveBlocksBacked'
    BY <2>1, <2>4, <1>1, <1>2 DEF LiveBlocksBacked, Backed
  <2>7. MergedBehindCursor'
    <3> DEFINE A == Absorb(cur)
    <3>1. (\A j \in 1 .. cur - 1 : A[j] = list[j]) /\ A[cur].isHole = list[cur].isHole
      BY <1>2, <1>4, AbsorbElements
    <3>2. Len(A) = Len(list) - 1
      BY <1>2, <1>4, AbsorbType
    <3> HIDE DEF A
    <3>3. ASSUME NEW j \in 1 .. Len(A) - 1, A[j].isHole, A[j + 1].isHole, j < cur
          PROVE  FALSE
      <4>1. /\ j \in 1 .. cur - 1 /\ j \in 1 .. Len(list) - 1
            /\ j + 1 \in 1 .. cur - 1 \/ j + 1 = cur
        BY <3>2, <3>3, <1>3, <1>4
      <4>2. A[j].isHole = list[j].isHole /\ A[j + 1].isHole = list[j + 1].isHole
        BY <4>1, <3>1
      <4>3. j >= cur
        BY <4>1, <4>2, <3>3, <1>5
      <4> QED
        BY <4>1, <4>3, <3>3, <1>2
    <3>4. list' = A
      BY <2>1 DEF A
    <3>5. \A j \in 1 .. Len(A) - 1 : A[j].isHole /\ A[j + 1].isHole => j >= cur
      BY <3>2, <3>3, <1>2, <1>3
    <3> QED
      BY <3>4, <3>5, <2>1, <1>1 DEF MergedBehindCursor
  <2>8. CursorOK'
    BY <2>1, <1>1, <1>2 DEF CursorOK
  <2> QED
    BY <2>5, <2>6, <2>7, <2>8, <1>6, <1>7 DEF IndInv
<1>9. CASE ~ Merges(cur)
  <2>1. list' = list /\ cur' = cur + 1
    BY <1>9 DEF MergeStep, Advance
  <2>2. ~ (list[cur].isHole /\ list[cur + 1].isHole)
    BY <1>9 DEF Merges
  <2>3. MergedBehindCursor'
    <3>1. \A j \in 1 .. Len(list) - 1 : list[j].isHole /\ list[j + 1].isHole => j >= cur + 1
      BY <2>2, <1>2, <1>3, <1>5
    <3> QED
      BY <3>1, <2>1, <1>1 DEF MergedBehindCursor
  <2>4. ListTilesMemory' /\ NodesInOrder' /\ LiveBlocksBacked'
    BY <2>1, <1>1, BlocksUntouched
  <2>5. CursorOK'
    BY <2>1, <1>1, <1>2 DEF CursorOK
  <2> QED
    BY <2>3, <2>4, <2>5, <1>6, <1>7 DEF IndInv
<1> QED
  BY <1>8, <1>9
-----------------------------------------------------------------------------
(* The other actions                                                       *)

\* A step that changes neither the list, nor the merging pass.
LEMMA ListUntouched ==
  ASSUME IndInv, UNCHANGED <<mapped, totalWords, list, live>>, pc # "merge"
  PROVE  ListTilesMemory' /\ NodesInOrder' /\ LiveBlocksBacked' /\ MergedBehindCursor'
<1>1. \A i \in 1 .. Len(list) - 1 : ~ (list[i].isHole /\ list[i + 1].isHole)
  BY DEF IndInv, MergedBehindCursor
<1> QED
  BY <1>1, BlocksUntouched DEF MergedBehindCursor

\* A call that returns without touching the list.
LEMMA QuietReturn ==
  ASSUME IndInv, UNCHANGED <<mapped, totalWords, list, live>>, pc # "merge", Return
  PROVE  IndInv'
BY ListUntouched, ReturnKeeps DEF IndInv

LEMMA AllocateKeeps ==
  ASSUME InputsFit, TypeInv, IndInv, NEW n \in Requests, Allocate(n)
  PROVE  IndInv'
<1>1. /\ pc = "idle" /\ mapped /\ n # 0 /\ bytes' = n /\ words' = WordsNeeded(n)
      /\ caller' = "allocate" /\ pc' = "getList" /\ cur' = 1
      /\ UNCHANGED <<mapped, totalWords, list, live, holeInfo, best, bestLen>>
  BY DEF Allocate, StartGetList, manager
<1>2. WordsNeeded(n) > 0 /\ AnswersRequest(WordsNeeded(n), n)
  BY <1>1, WordsNeededRoundsUp
<1>3. RequestInProgress' /\ CursorOK'
  <2>1. words' > 0 /\ AnswersRequest(words', bytes')
    BY <1>1, <1>2
  <2> QED
    BY <2>1, <1>1 DEF RequestInProgress, CursorOK, AnswersRequest
<1>4. ChoiceIsHole'
  <2>1. caller = "none" /\ holeInfo = <<>> /\ best = -1
    BY <1>1 DEF IndInv, RequestInProgress, ChoiceIsHole
  <2> QED
    BY <2>1, <1>1 DEF ChoiceIsHole
<1> QED
  BY <1>1, <1>3, <1>4, ListUntouched DEF IndInv

LEMMA DumpKeeps ==
  ASSUME TypeInv, IndInv, Dump
  PROVE  IndInv'
<1>1. /\ pc = "idle" /\ UNCHANGED <<mapped, totalWords, list, live, holeInfo, best, bestLen>>
      /\ \/ pc' = "crashed" /\ UNCHANGED locals
         \/ list # <<>> /\ pc' = "getList" /\ caller' = "dump" /\ cur' = 1
  BY DEF Dump, StartGetList, manager, locals
<1>2. caller = "none" /\ holeInfo = <<>> /\ best = -1 /\ (list # <<>> => mapped)
  BY <1>1 DEF IndInv, RequestInProgress, ChoiceIsHole, ListTilesMemory
<1>3. RequestInProgress' /\ CursorOK' /\ ChoiceIsHole'
  BY <1>1, <1>2 DEF RequestInProgress, CursorOK, ChoiceIsHole, locals
<1> QED
  BY <1>1, <1>3, ListUntouched DEF IndInv

LEMMA GetListStepKeeps ==
  ASSUME TypeInv, IndInv, GetListStep
  PROVE  IndInv'
<1>1. /\ pc = "getList" /\ cur <= Len(list) /\ cur' = cur + 1
      /\ UNCHANGED <<mapped, totalWords, list, live, pc, caller, bytes, words, best, bestLen>>
  BY DEF GetListStep, manager
<1>2. /\ mapped /\ cur \in Nat /\ cur > 0 /\ caller # "none" /\ best = -1
      /\ list \in Seq(MemoryNode) /\ holeInfo \in Seq(Hole)
  BY <1>1 DEF IndInv, RequestInProgress, ChoiceIsHole, CursorOK, TypeInv, TypeOK
<1>3. cur \in DOMAIN list
  BY <1>1, <1>2, ListElement
<1>4. \A k \in DOMAIN holeInfo' : IsListed(holeInfo'[k])
  <2>1. \A k \in DOMAIN holeInfo : IsListed(holeInfo[k])
    BY DEF IndInv, ChoiceIsHole
  <2>2. CASE ~ list[cur].isHole
    BY <2>1, <2>2 DEF GetListStep
  <2>3. CASE list[cur].isHole
    <3> DEFINE h == [offset |-> list[cur].offset, length |-> list[cur].length]
    <3>1. IsListed(h)
      BY <2>3, <1>3 DEF IsListed, Holes
    <3>2. holeInfo' = Append(holeInfo, h)
      BY <2>3 DEF GetListStep
    <3>3. h \in Hole
      BY <1>2, <1>3, ListElement DEF Hole
    <3> HIDE DEF h
    <3>4. /\ DOMAIN holeInfo' = 1 .. Len(holeInfo) + 1
          /\ \A k \in 1 .. Len(holeInfo) : holeInfo'[k] = holeInfo[k] /\ k \in DOMAIN holeInfo
          /\ holeInfo'[Len(holeInfo) + 1] = h
          /\ Len(holeInfo) \in Nat
      BY <3>2, <3>3, <1>2
    <3>5. ASSUME NEW k \in DOMAIN holeInfo' PROVE IsListed(holeInfo'[k])
      <4>1. k \in 1 .. Len(holeInfo) \/ k = Len(holeInfo) + 1
        BY <3>4
      <4> QED
        BY <4>1, <2>1, <3>1, <3>4
    <3> QED
      BY <3>5
  <2> QED
    BY <2>2, <2>3
<1>5. ChoiceIsHole'
  BY <1>1, <1>2, <1>4 DEF ChoiceIsHole, IsListed, Holes
<1>6. RequestInProgress' /\ CursorOK'
  BY <1>1, <1>2 DEF IndInv, RequestInProgress, CursorOK, AnswersRequest
<1> QED
  BY <1>1, <1>5, <1>6, ListUntouched DEF IndInv

LEMMA GetListReturnKeeps ==
  ASSUME TypeInv, IndInv, GetListReturn
  PROVE  IndInv'
<1>1. /\ pc = "getList" /\ cur' = 1 /\ pc' = IF caller = "allocate" THEN "fit" ELSE "write"
      /\ UNCHANGED <<mapped, totalWords, list, live, caller, bytes, words, holeInfo, best, bestLen>>
  BY DEF GetListReturn, manager
<1>2. mapped /\ caller # "none" /\ best = -1
  BY <1>1 DEF IndInv, RequestInProgress, ChoiceIsHole
<1>3. RequestInProgress' /\ CursorOK'
  BY <1>1, <1>2 DEF IndInv, RequestInProgress, CursorOK, AnswersRequest
<1>4. ChoiceIsHole'
  BY <1>1, <1>2 DEF IndInv, ChoiceIsHole, IsListed, Holes
<1> QED
  BY <1>1, <1>3, <1>4, ListUntouched DEF IndInv

\* The allocator's choice so far is a listed hole that fits.
LEMMA FitKeeps ==
  ASSUME TypeInv, IndInv, pc = "fit", cur' \in Nat, cur' > 0,
         UNCHANGED <<mapped, totalWords, list, live, pc, caller, bytes, words, holeInfo>>,
         \/ UNCHANGED <<best, bestLen>>
         \/ \E k \in DOMAIN holeInfo : /\ holeInfo[k].length >= words
                                       /\ best' = holeInfo[k].offset
                                       /\ bestLen' = holeInfo[k].length
  PROVE  IndInv'
<1>1. RequestInProgress' /\ CursorOK'
  BY DEF IndInv, RequestInProgress, CursorOK, AnswersRequest
<1>2. \A k \in DOMAIN holeInfo : IsListed(holeInfo[k])
  BY DEF IndInv, ChoiceIsHole
<1>3. best' # -1 => IsListed([offset |-> best', length |-> bestLen']) /\ bestLen' >= words
  <2>1. CASE UNCHANGED <<best, bestLen>>
    BY <2>1 DEF IndInv, ChoiceIsHole
  <2>2. ASSUME NEW k \in DOMAIN holeInfo, holeInfo[k].length >= words,
               best' = holeInfo[k].offset, bestLen' = holeInfo[k].length
        PROVE  IsListed([offset |-> best', length |-> bestLen']) /\ bestLen' >= words
    <3>1. IsListed(holeInfo[k])
      BY <1>2
    <3> QED
      BY <2>2, <3>1 DEF IsListed
  <2> QED
    BY <2>1, <2>2
<1>4. caller # "none"
  BY DEF IndInv, RequestInProgress
<1>5. ChoiceIsHole'
  BY <1>2, <1>3, <1>4 DEF ChoiceIsHole, IsListed, Holes
<1> QED
  BY <1>1, <1>5, ListUntouched DEF IndInv

LEMMA FitStepKeeps ==
  ASSUME TypeInv, IndInv, FitStep
  PROVE  IndInv'
<1>1. /\ pc = "fit" /\ cur' = cur + 1
      /\ UNCHANGED <<mapped, totalWords, list, live, pc, caller, bytes, words, holeInfo>>
  BY DEF FitStep, manager
<1>2. cur' \in Nat /\ cur' > 0 /\ cur \in Nat /\ cur > 0
  BY <1>1 DEF IndInv, CursorOK, TypeInv, TypeOK
<1>3. cur \in DOMAIN holeInfo
  BY <1>2 DEF FitStep, TypeInv, TypeOK
<1>4. \/ UNCHANGED <<best, bestLen>>
      \/ /\ holeInfo[cur].length >= words
         /\ best' = holeInfo[cur].offset
         /\ bestLen' = holeInfo[cur].length
  BY DEF FitStep, BestFitTakes, WorstFitTakes
<1> QED
  BY <1>1, <1>2, <1>3, <1>4, FitKeeps

LEMMA CustomFitKeeps ==
  ASSUME TypeInv, IndInv, CustomFit
  PROVE  IndInv'
<1>1. /\ pc = "fit" /\ cur' = Len(holeInfo) + 2 /\ Len(holeInfo) \in Nat
      /\ DOMAIN holeInfo = 1 .. Len(holeInfo)
      /\ UNCHANGED <<mapped, totalWords, list, live, pc, caller, bytes, words, holeInfo>>
  BY DEF CustomFit, manager, TypeInv, TypeOK
<1>2. cur' \in Nat /\ cur' > 0
  BY <1>1
<1>3. PICK i \in 0 .. Len(holeInfo) :
          IF i = 0 THEN UNCHANGED <<best, bestLen>>
          ELSE /\ holeInfo[i].length >= words
               /\ best' = holeInfo[i].offset
               /\ bestLen' = holeInfo[i].length
  BY DEF CustomFit
<1>4. i = 0 \/ i \in DOMAIN holeInfo
  BY <1>1
<1> QED
  BY <1>1, <1>2, <1>3, <1>4, FitKeeps

LEMMA FreeReturnKeeps ==
  ASSUME TypeInv, IndInv, FreeReturn
  PROVE  IndInv'
<1>1. /\ pc = "merge" /\ cur >= Len(list) /\ Return
      /\ UNCHANGED <<mapped, totalWords, list, live>>
  BY DEF FreeReturn, manager
<1>2. mapped /\ cur \in Nat
  BY <1>1 DEF IndInv, RequestInProgress, TypeInv, TypeOK
<1>3. Len(list) \in Nat
  BY <1>2, BlockFacts, ListElement
<1>4. \A i \in 1 .. Len(list) - 1 : ~ (list[i].isHole /\ list[i + 1].isHole)
  <2> SUFFICES ASSUME NEW i \in 1 .. Len(list) - 1, list[i].isHole, list[i + 1].isHole
               PROVE  FALSE
    OBVIOUS
  <2>1. i >= cur
    BY DEF IndInv, MergedBehindCursor
  <2> QED
    BY <2>1, <1>1, <1>2, <1>3
<1>5. MergedBehindCursor'
  BY <1>1, <1>4 DEF MergedBehindCursor
<1> QED
  BY <1>1, <1>5, BlocksUntouched, ReturnKeeps DEF IndInv

LEMMA NextIndInv == InputsFit /\ TypeInv /\ IndInv /\ [Next]_vars => IndInv'
<1> SUFFICES ASSUME InputsFit, TypeInv, IndInv, [Next]_vars PROVE IndInv'
  OBVIOUS
<1>1. ASSUME NEW size \in Sizes, NEW outcome \in DevZero, NEW granted \in Grants,
             Initialize(size, outcome, granted)
      PROVE  IndInv'
  BY <1>1, InitializeKeeps, Inputs
<1>2. CASE Shutdown
  <2>1. /\ pc = "idle" /\ mapped' = FALSE /\ list' = <<>> /\ live' = NoBlocks
        /\ UNCHANGED <<pc, locals>>
    BY <1>2 DEF Shutdown
  <2> QED
    BY <2>1, NothingMapped
<1>3. CASE UNCHANGED <<mapped, totalWords, list, live, pc, locals>>
  BY <1>3, BlocksUntouched
     DEF IndInv, locals, MergedBehindCursor, CursorOK, RequestInProgress, AnswersRequest,
         ChoiceIsHole, IsListed, Holes
<1>4. ASSUME NEW n \in Requests, Allocate(n) PROVE IndInv'
  BY <1>4, AllocateKeeps
<1>5. ASSUME NEW a \in Addresses, Free(a) PROVE IndInv'
  BY <1>5, FreeKeeps
<1>6. CASE Dump
  BY <1>6, DumpKeeps
<1>7. CASE GetListStep
  BY <1>7, GetListStepKeeps
<1>8. CASE GetListReturn
  BY <1>8, GetListReturnKeeps
<1>9. CASE FitStep
  BY <1>9, FitStepKeeps
<1>10. CASE CustomFit
  BY <1>10, CustomFitKeeps
<1>11. CASE Place
  BY <1>11, PlaceKeeps
<1>12. CASE ReturnNull
  <2>1. pc # "merge" /\ Return /\ UNCHANGED <<mapped, totalWords, list, live>>
    BY <1>12 DEF ReturnNull, AllocatorReturned, manager
  <2> QED
    BY <2>1, QuietReturn
<1>13. CASE MergeStep
  BY <1>13, MergeStepKeeps
<1>14. CASE FreeReturn
  BY <1>14, FreeReturnKeeps
<1>15. CASE DumpWrite
  <2>1. pc # "merge" /\ Return /\ UNCHANGED <<mapped, totalWords, list, live>>
    BY <1>15 DEF DumpWrite, manager
  <2> QED
    BY <2>1, QuietReturn
<1>16. ASSUME NEW a \in Allocators, SetAllocator(a) PROVE IndInv'
  BY <1>16, <1>3 DEF SetAllocator
<1>17. CASE DumpOpenFails
  BY <1>17, <1>3 DEF DumpOpenFails, manager
<1>18. CASE UNCHANGED vars
  BY <1>18, <1>3 DEF vars, manager
<1> QED
  BY <1>1, <1>2, <1>4, <1>5, <1>6, <1>7, <1>8, <1>9, <1>10, <1>11, <1>12, <1>13, <1>14,
     <1>15, <1>16, <1>17, <1>18
     DEF Next, Call, Run, AllocateNothing, FreeNothing

LEMMA Invariant == ASSUME InputsFit PROVE Spec => [](TypeInv /\ IndInv)
<1>1. Init => TypeInv /\ IndInv
  BY InitTypeInv, InitIndInv
<1>2. (TypeInv /\ IndInv) /\ [Next]_vars => (TypeInv /\ IndInv)'
  BY NextTypeInv, NextIndInv
<1> QED
  BY <1>1, <1>2, PTL DEF Spec

\* The inductive invariant of the allocation path: tiling, order, merging behind
\* the cursor, the client's blocks and the choice of a running allocate.
THEOREM IndInvAlways == ASSUME InputsFit PROVE Spec => []IndInv
BY Invariant, PTL
-----------------------------------------------------------------------------
(* The theorems                                                            *)

\* For every word size, block size, sequence of calls and policy, a client that
\* stays within the widths finds the block cut into consecutive non-empty nodes
\* from its first word to its last.
THEOREM TilesAlways == ASSUME InputsFit PROVE Spec => []ListTilesMemory
<1>1. IndInv => ListTilesMemory
  BY DEF IndInv
<1> QED
  BY <1>1, Invariant, PTL

\* The merging pass of one free is enough: outside it no two holes touch.
THEOREM CoalescedAlways == ASSUME InputsFit PROVE Spec => []HolesCoalesced
<1>1. IndInv => HolesCoalesced
  BY DEF IndInv, MergedBehindCursor, HolesCoalesced
<1> QED
  BY <1>1, Invariant, PTL

\* The client holds exactly the blocks in use, each of the words it asked for.
THEOREM BackedAlways == ASSUME InputsFit PROVE Spec => []LiveBlocksBacked
<1>1. IndInv => LiveBlocksBacked
  BY DEF IndInv
<1> QED
  BY <1>1, Invariant, PTL

-----------------------------------------------------------------------------
(* Blocks stay where they are                                              *)

\* A block other than the one at address a is not affected.
LEMMA OtherBlocksStay ==
  ASSUME NEW used, NEW new, NEW b, NEW a, a # b[1] * WordSize,
         new = used \union {b} \/ new = used \ {b}
  PROVE  {c \in new : c[1] * WordSize = a} = {c \in used : c[1] * WordSize = a}
OBVIOUS

LEMMA PlaceStays ==
  ASSUME TypeInv, IndInv, Place, NEW a \in DOMAIN live
  PROVE  Extent(a)' = Extent(a)
<1>1. PICK i \in DOMAIN list :
         /\ list[i].isHole /\ list[i].offset \in Nat /\ list[i].length \in Nat
         /\ list[i].length >= words
         /\ list' = IF list[i].length > words THEN Split(i) ELSE Marked(i, FALSE)
  BY PlaceFacts
<1>2. mapped /\ words \in Nat
  BY PlaceFacts
<1>3. /\ list \in Seq(MemoryNode) /\ totalWords \in Nat
      /\ Tiles(list, totalWords) /\ InOrder(list, totalWords) /\ totalWords < U16
      /\ Backed(list, live)
  BY <1>2, BlockFacts
<1> DEFINE new == <<list[i].offset, words>>
<1>4. Used(list') = Used(list) \union {new}
  <2>1. CASE list[i].length > words
    <3>1. list' = Split(i)
      BY <1>1, <2>1
    <3>2. words < list[i].length
      BY <1>1, <1>2, <2>1
    <3> QED
      BY <3>1, <3>2, <1>1, <1>2, <1>3, SplitUsed
  <2>2. CASE ~ (list[i].length > words)
    <3>1. list' = Marked(i, FALSE)
      BY <1>1, <2>2
    <3>2. words = list[i].length
      BY <1>1, <1>2, <2>2
    <3> QED
      BY <3>1, <3>2, <1>1, <1>3, GrantedUsed
  <2> QED
    BY <2>1, <2>2
<1>5. a # new[1] * WordSize
  <2>1. PICK b \in Used(list) : a = b[1] * WordSize
    BY <1>3 DEF Backed
  <2>2. b[1] * WordSize # list[i].offset * WordSize
    BY <1>1, <1>3, BlockAddresses DEF Holes
  <2> QED
    BY <2>1, <2>2
<1> HIDE DEF new
<1> QED
  BY <1>4, <1>5, OtherBlocksStay DEF Extent

LEMMA FreeStays ==
  ASSUME InputsFit, TypeInv, IndInv, NEW f \in Addresses, Free(f), NEW a \in DOMAIN live'
  PROVE  Extent(a)' = Extent(a)
<1>1. mapped /\ a # f
  BY DEF Free
<1>2. /\ list \in Seq(MemoryNode) /\ totalWords \in Nat
      /\ Tiles(list, totalWords) /\ InOrder(list, totalWords) /\ totalWords < U16
  BY <1>1, BlockFacts
<1>3. CASE list' = list
  BY <1>3 DEF Extent
<1>4. CASE list' # list
  <2>1. PICK i \in DOMAIN list : Freed(i, f) /\ list' = Marked(i, TRUE)
    BY <1>4 DEF Free
  <2> DEFINE old == <<list[i].offset, list[i].length>>
  <2>2. ~ list[i].isHole /\ old[1] * WordSize = f
    BY <2>1, TargetExact DEF Freed
  <2>3. Used(list') = Used(list) \ {old}
    BY <2>1, <2>2, <1>2, FreedUsed
  <2> HIDE DEF old
  <2> QED
    BY <2>2, <2>3, <1>1, OtherBlocksStay DEF Extent
<1> QED
  BY <1>3, <1>4

LEMMA MergeStays ==
  ASSUME TypeInv, IndInv, MergeStep
  PROVE  Used(list') = Used(list)
<1>1. /\ cur < Len(list) /\ pc = "merge"
      /\ list' = IF Merges(cur) THEN Absorb(cur) ELSE list
  BY DEF MergeStep
<1>2. mapped /\ cur \in Nat /\ cur > 0
  BY <1>1 DEF IndInv, RequestInProgress, CursorOK, TypeInv, TypeOK
<1>3. /\ list \in Seq(MemoryNode) /\ totalWords \in Nat
      /\ Tiles(list, totalWords) /\ InOrder(list, totalWords) /\ totalWords < U16
  BY <1>2, BlockFacts
<1>4. cur \in 1 .. Len(list) - 1
  BY <1>1, <1>2, <1>3, ListElement
<1>5. CASE Merges(cur)
  BY <1>1, <1>3, <1>4, <1>5, AbsorbUsed DEF Merges
<1>6. CASE ~ Merges(cur)
  BY <1>1, <1>6
<1> QED
  BY <1>5, <1>6

\* No call, of allocate or free or a policy change, moves or resizes a block
\* the client still holds after it.
THEOREM BlocksStay == ASSUME InputsFit PROVE Spec => LiveBlocksStay
<1> DEFINE Stay == \A a \in DOMAIN live \intersect DOMAIN live' : Extent(a)' = Extent(a)
<1>1. (TypeInv /\ IndInv) /\ [Next]_vars => [Stay]_vars
  <2> SUFFICES ASSUME TypeInv, IndInv, Next PROVE Stay
    OBVIOUS
  <2>1. CASE list' = list
    BY <2>1 DEF Extent
  <2>2. CASE live' = NoBlocks
    BY <2>2, NoBlocksType
  <2>3. CASE Place
    BY <2>3, PlaceStays
  <2>4. ASSUME NEW f \in Addresses, Free(f) PROVE Stay
    BY <2>4, FreeStays
  <2>5. CASE MergeStep
    BY <2>5, MergeStays DEF Extent
  <2> QED
    BY <2>1, <2>2, <2>3, <2>4, <2>5
       DEF Next, Call, Run, Initialize, Shutdown, SetAllocator, Allocate, AllocateNothing,
           FreeNothing, DumpOpenFails, Dump, GetListStep, GetListReturn, FitStep, CustomFit,
           ReturnNull, FreeReturn, DumpWrite, manager, vars
<1>2. Spec => [](TypeInv /\ IndInv)
  BY Invariant
<1>3. Spec => [][Stay]_vars
  <2> HIDE DEF Stay
  <2> QED
    BY <1>1, <1>2, PTL DEF Spec
<1> QED
  BY <1>3 DEF LiveBlocksStay
=============================================================================
