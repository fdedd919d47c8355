-------------------------- MODULE AllocatorProofs ---------------------------
(***************************************************************************)
(* Theorems about what the walks of MemoryManager find: completeness and   *)
(* placement of the allocators, the reports of bitmap and dump, and the    *)
(* refinement of WordHeap, for every value of the constants.               *)
(***************************************************************************)
EXTENDS MemoryManagerProofs, NaturalsInduction, WellFoundedInduction

-----------------------------------------------------------------------------
(* Nodes and the words they cover                                          *)

\* A node list that tiles its block, within the widths.
WellTiled ==
    /\ list \in Seq(MemoryNode) /\ totalWords \in Nat /\ totalWords < U16
    /\ Tiles(list, totalWords) /\ InOrder(list, totalWords)

LEMMA MappedWellTiled == ASSUME TypeInv, IndInv, mapped PROVE WellTiled
BY BlockFacts DEF WellTiled

\* What the tiling says of the nodes, one by one.
LEMMA NodeFacts ==
  ASSUME WellTiled
  PROVE  /\ DOMAIN list = 1 .. Len(list) /\ Len(list) \in Nat /\ Len(list) > 0
         /\ list[1].offset = 0
         /\ list[Len(list)].offset + list[Len(list)].length = totalWords
         /\ \A i \in 1 .. Len(list) :
               /\ list[i].offset \in Nat /\ list[i].length \in Nat /\ list[i].length > 0
               /\ list[i].offset + list[i].length <= totalWords
               /\ list[i].isHole \in BOOLEAN
         /\ \A i \in 1 .. Len(list) - 1 :
               list[i + 1].offset = list[i].offset + list[i].length
         /\ \A i, j \in 1 .. Len(list) :
               i < j => list[i].offset + list[i].length <= list[j].offset
<1>1. list \in Seq(MemoryNode) /\ totalWords \in Nat /\ totalWords < U16
      /\ Tiles(list, totalWords) /\ InOrder(list, totalWords)
  BY DEF WellTiled
<1>2. DOMAIN list = 1 .. Len(list) /\ Len(list) \in Nat
      /\ \A i \in 1 .. Len(list) : list[i].isHole \in BOOLEAN
  BY <1>1, ListElement
<1>3. Len(list) > 0
  BY <1>1 DEF Tiles
<1>4. \A i \in 1 .. Len(list) : list[i].offset \in Nat /\ list[i].length \in Nat
  BY <1>1, NodeBounds
<1> QED
  BY <1>1, <1>2, <1>3, <1>4 DEF Tiles, InOrder

\* Induction over the nodes, as the least number of a set.
LEMMA LeastOf ==
  ASSUME NEW S \in SUBSET Nat, S # {}
  PROVE  \E n \in S : \A m \in S : n <= m
<1> DEFINE R == OpToRel(<, Nat)
<1>1. \A m, n \in Nat : m < n => <<m, n>> \in R
  BY Zenon DEF OpToRel
<1>2. IsWellFoundedOn(R, Nat)
  BY NatLessThanWellFounded
<1> HIDE DEF R
<1>3. PICK n \in S : \A m \in S : <<m, n>> \notin R
  BY <1>2, WFMin
<1>4. n \in Nat /\ \A m \in S : m \in Nat /\ ~ (m < n)
  BY <1>1, <1>3, Zenon
<1> QED
  BY <1>4

\* The words of a node, as bounds.
LEMMA WordBounds ==
  ASSUME WellTiled, NEW i \in 1 .. Len(list), NEW w
  PROVE  w \in WordsOf(i) <=> /\ w \in Nat /\ list[i].offset <= w
                              /\ w < list[i].offset + list[i].length
<1>1. list[i].offset \in Nat /\ list[i].length \in Nat
  BY NodeFacts
<1> QED
  BY <1>1 DEF WordsOf

\* Every word of the block belongs to a node.
LEMMA EveryWordHasNode ==
  ASSUME WellTiled, NEW w \in 0 .. totalWords - 1
  PROVE  \E i \in 1 .. Len(list) : w \in WordsOf(i)
<1> DEFINE S == {i \in 1 .. Len(list) : w < list[i].offset + list[i].length}
<1>1. totalWords \in Nat
  BY DEF WellTiled
<1>2. Len(list) \in S
  BY <1>1, NodeFacts
<1>3. S \in SUBSET Nat
  OBVIOUS
<1>4. PICK i \in S : \A m \in S : i <= m
  <2> HIDE DEF S
  <2> QED
    BY <1>2, <1>3, LeastOf
<1>5. list[i].offset <= w
  <2>1. CASE i = 1
    BY <1>1, <2>1, NodeFacts
  <2>2. CASE i # 1
    <3>1. i - 1 \in 1 .. Len(list) - 1 /\ i - 1 \in 1 .. Len(list) /\ (i - 1) + 1 = i
      BY <2>2, NodeFacts
    <3>2. i - 1 \notin S
      BY <1>4, <3>1
    <3>3. list[i].offset = list[i - 1].offset + list[i - 1].length
      BY <3>1, NodeFacts
    <3>4. ~ (w < list[i - 1].offset + list[i - 1].length)
      BY <3>1, <3>2
    <3>5. list[i - 1].offset + list[i - 1].length \in Nat
      BY <3>1, NodeFacts
    <3> QED
      BY <1>1, <3>3, <3>4, <3>5
  <2> QED
    BY <2>1, <2>2
<1>6. w \in WordsOf(i)
  BY <1>1, <1>4, <1>5, WordBounds
<1> QED
  BY <1>4, <1>6

\* No word belongs to two nodes.
LEMMA OneNodePerWord ==
  ASSUME WellTiled, NEW i \in 1 .. Len(list), NEW j \in 1 .. Len(list),
         NEW w, w \in WordsOf(i), w \in WordsOf(j)
  PROVE  i = j
<1>1. /\ w \in Nat
      /\ list[i].offset <= w /\ w < list[i].offset + list[i].length
      /\ list[j].offset <= w /\ w < list[j].offset + list[j].length
  BY WordBounds
<1>2. /\ list[i].offset \in Nat /\ list[i].length \in Nat
      /\ list[j].offset \in Nat /\ list[j].length \in Nat
  BY NodeFacts
<1>3. ~ (i < j)
  BY <1>1, <1>2, NodeFacts
<1>4. ~ (j < i)
  BY <1>1, <1>2, NodeFacts
<1> QED
  BY <1>3, <1>4, NodeFacts

\* Nodes of different offsets lie in the order of their offsets.
LEMMA OrderByOffset ==
  ASSUME WellTiled, NEW i \in 1 .. Len(list), NEW j \in 1 .. Len(list)
  PROVE  /\ list[i].offset < list[j].offset <=> i < j
         /\ list[i].offset = list[j].offset <=> i = j
<1>1. /\ list[i].offset \in Nat /\ list[i].length \in Nat /\ list[i].length > 0
      /\ list[j].offset \in Nat /\ list[j].length \in Nat /\ list[j].length > 0
      /\ i < j => list[i].offset + list[i].length <= list[j].offset
      /\ j < i => list[j].offset + list[j].length <= list[i].offset
  BY NodeFacts
<1> QED
  BY <1>1, NodeFacts

Coalesced ==
    \A i \in 1 .. Len(list) - 1 : ~ (list[i].isHole /\ list[i + 1].isHole)

\* When no two holes touch, a run of free words lies within one hole.
LEMMA FreeRunInOneHole ==
  ASSUME WellTiled, Coalesced, NEW s \in Nat, NEW n \in Nat, n > 0,
         s .. s + n - 1 \subseteq FreeWords
  PROVE  \E i \in Holes : list[i].length >= n
<1>1. \A w \in s .. s + n - 1 : \E i \in Holes : w \in WordsOf(i)
  BY DEF FreeWords
<1>2. \A i \in Holes : i \in 1 .. Len(list) /\ list[i].isHole
  BY NodeFacts DEF Holes
<1>3. PICK i \in Holes : s \in WordsOf(i)
  BY <1>1
<1> DEFINE e == list[i].offset + list[i].length
<1>4. /\ list[i].offset \in Nat /\ list[i].length \in Nat
      /\ list[i].offset <= s /\ s < e /\ e <= totalWords /\ e \in Nat
  BY <1>2, <1>3, WordBounds, NodeFacts
<1>5. SUFFICES ASSUME e < s + n PROVE FALSE
  BY <1>4
<1>6. e \in s .. s + n - 1
  BY <1>4, <1>5
<1>7. PICK j \in Holes : e \in WordsOf(j)
  BY <1>1, <1>6
<1>8. list[j].offset <= e /\ e < list[j].offset + list[j].length
  BY <1>2, <1>7, WordBounds
<1>9. e < totalWords
  BY <1>2, <1>4, <1>7, <1>8, NodeFacts DEF WellTiled
<1>10. i \in 1 .. Len(list) - 1
  BY <1>2, <1>9, NodeFacts
<1>11. i + 1 \in 1 .. Len(list) /\ list[i + 1].offset = e
       /\ list[i + 1].length > 0 /\ list[i + 1].length \in Nat
  BY <1>10, NodeFacts
<1>12. e \in WordsOf(i + 1)
  <2> HIDE DEF e
  <2> QED
    BY <1>4, <1>11, WordBounds
<1>13. i + 1 = j
  BY <1>2, <1>7, <1>11, <1>12, OneNodePerWord
<1> QED
  BY <1>2, <1>3, <1>7, <1>10, <1>13 DEF Coalesced

-----------------------------------------------------------------------------
(* The walks: ScanInv is preserved                                         *)

LEMMA InitScanInv == Init => ScanInv
<1> SUFFICES ASSUME Init PROVE ScanInv
  OBVIOUS
<1>1. pc = "idle" /\ best = -1 /\ bestLen = -1
  BY DEF Init
<1> QED
  BY <1>1 DEF ScanInv, ArrayListsWalkedHoles, ChoiceIsBest

\* Where nothing walks, ScanInv speaks of best and bestLen alone.
LEMMA NoWalk ==
  ASSUME pc' \notin {"getList", "fit", "write"},
         (best' = -1 <=> bestLen' = -1)
  PROVE  ScanInv'
BY DEF ScanInv, ArrayListsWalkedHoles, ChoiceIsBest

LEMMA ReturnScans == ASSUME Return PROVE ScanInv'
<1>1. pc' = "idle" /\ best' = -1 /\ bestLen' = -1
  BY DEF Return, IdleLocals
<1> QED
  BY <1>1, NoWalk

\* getList starts with an empty array and nothing walked.
LEMMA StartScans ==
  ASSUME TypeInv, IndInv, ScanInv, pc = "idle",
         pc' = "getList", cur' = 1, UNCHANGED <<list, holeInfo, best, bestLen>>
  PROVE  ScanInv'
<1>1. holeInfo' = <<>>
  BY DEF IndInv, RequestInProgress, ChoiceIsHole
<1>2. Walked' = {}
  <2>1. \A i \in DOMAIN list : ~ (i < 1)
    BY ListElement DEF TypeInv, TypeOK
  <2> QED
    BY <2>1 DEF Walked
<1>3. DOMAIN holeInfo' = {}
  BY <1>1
<1>4. ArrayListsWalkedHoles'
  BY <1>2, <1>3 DEF ArrayListsWalkedHoles
<1>5. ChoiceIsBest'
  BY DEF ScanInv, ChoiceIsBest
<1> QED
  BY <1>4, <1>5 DEF ScanInv

\* The elements of the array have types, like those of the list.
LEMMA ArrayElement ==
  ASSUME TypeInv
  PROVE  /\ DOMAIN holeInfo = 1 .. Len(holeInfo) /\ Len(holeInfo) \in Nat
         /\ \A k \in 1 .. Len(holeInfo) : /\ holeInfo[k] \in Hole
                                          /\ holeInfo[k].offset \in Nat
                                          /\ holeInfo[k].length \in Nat
<1>1. holeInfo \in Seq(Hole)
  BY DEF TypeInv, TypeOK
<1>2. DOMAIN holeInfo = 1 .. Len(holeInfo) /\ Len(holeInfo) \in Nat
      /\ \A k \in 1 .. Len(holeInfo) : holeInfo[k] \in Hole
  BY <1>1
<1> QED
  BY <1>2, WordIsNat DEF Hole

\* getList appends the node under its cursor when it is a hole: it lies behind
\* all those listed before.
LEMMA GetListStepScans ==
  ASSUME TypeInv, IndInv, ScanInv, GetListStep
  PROVE  ScanInv'
<1>1. /\ pc = "getList" /\ pc' = "getList" /\ cur <= Len(list) /\ cur' = cur + 1
      /\ UNCHANGED <<list, best, bestLen>> /\ mapped
  BY DEF GetListStep, manager, IndInv, RequestInProgress
<1>2. cur \in Nat /\ cur > 0 /\ WellTiled
  BY <1>1, MappedWellTiled DEF IndInv, CursorOK, TypeInv, TypeOK
<1>3. cur \in DOMAIN list /\ DOMAIN list = 1 .. Len(list)
  BY <1>1, <1>2, NodeFacts
<1>4. Walked' = Walked \union {cur} /\ cur \notin Walked
  BY <1>1, <1>2, <1>3 DEF Walked
<1>5. Holes' = Holes
  BY <1>1 DEF Holes
<1>6. /\ \A i \in Holes \intersect Walked : \E k \in DOMAIN holeInfo : Lists(k, i)
      /\ \A k \in DOMAIN holeInfo : \E i \in Holes \intersect Walked : Lists(k, i)
      /\ \A k, m \in DOMAIN holeInfo : k < m => holeInfo[k].offset < holeInfo[m].offset
  BY <1>1 DEF ScanInv, ArrayListsWalkedHoles
<1>7. ChoiceIsBest'
  BY <1>1 DEF ScanInv, ChoiceIsBest
<1>8. CASE ~ list[cur].isHole
  <2>1. holeInfo' = holeInfo
    BY <1>8 DEF GetListStep
  <2>2. (Holes \intersect Walked)' = Holes \intersect Walked
    BY <1>4, <1>5, <1>8 DEF Holes
  <2>3. \A k, i : Lists(k, i)' <=> Lists(k, i)
    BY <1>1, <2>1 DEF Lists
  <2>4. ArrayListsWalkedHoles'
    BY <1>6, <2>1, <2>2, <2>3, Zenon DEF ArrayListsWalkedHoles
  <2> QED
    BY <1>7, <2>4 DEF ScanInv
<1>9. CASE list[cur].isHole
  <2> DEFINE h == [offset |-> list[cur].offset, length |-> list[cur].length]
             n == Len(holeInfo)
  <2>1. holeInfo' = Append(holeInfo, h)
    BY <1>9 DEF GetListStep
  <2>2. holeInfo \in Seq(Hole) /\ n \in Nat /\ DOMAIN holeInfo = 1 .. n
    BY ArrayElement DEF TypeInv, TypeOK
  <2>3. h \in Hole /\ h.offset = list[cur].offset /\ h.length = list[cur].length
    <3>1. list[cur].offset \in Words /\ list[cur].length \in Words
      BY <1>3, ListElement DEF TypeInv, TypeOK
    <3> QED
      BY <3>1 DEF Hole
  <2> HIDE DEF h
  <2>4. /\ DOMAIN holeInfo' = 1 .. n + 1
        /\ \A k \in 1 .. n : holeInfo'[k] = holeInfo[k]
        /\ holeInfo'[n + 1] = h
    BY <2>1, <2>2, <2>3
  <2> HIDE DEF n
  <2>5. (Holes \intersect Walked)' = (Holes \intersect Walked) \union {cur}
    BY <1>3, <1>4, <1>5, <1>9 DEF Holes
  <2>6. \A k \in 1 .. n : \A i : Lists(k, i)' <=> Lists(k, i)
    BY <1>1, <2>4 DEF Lists
  <2>7. \A k, i : k = n + 1 /\ i = cur => Lists(k, i)'
    BY <1>1, <2>3, <2>4 DEF Lists
  <2>8. \A i \in (Holes \intersect Walked)' : \E k \in DOMAIN holeInfo' : Lists(k, i)'
    <3> SUFFICES ASSUME NEW i \in (Holes \intersect Walked)'
                 PROVE  \E k \in DOMAIN holeInfo' : Lists(k, i)'
      OBVIOUS
    <3>1. CASE i = cur
      <4>1. n + 1 \in DOMAIN holeInfo'
        BY <2>2, <2>4
      <4> QED
        BY <2>7, <3>1, <4>1
    <3>2. CASE i \in Holes \intersect Walked
      <4>1. PICK k \in 1 .. n : Lists(k, i)
        BY <1>6, <2>2, <3>2
      <4>2. k \in DOMAIN holeInfo'
        BY <2>2, <2>4
      <4> QED
        BY <2>6, <4>1, <4>2
    <3> QED
      BY <2>5, <3>1, <3>2
  <2>9. \A k \in DOMAIN holeInfo' : \E i \in (Holes \intersect Walked)' : Lists(k, i)'
    <3> SUFFICES ASSUME NEW k \in DOMAIN holeInfo'
                 PROVE  \E i \in (Holes \intersect Walked)' : Lists(k, i)'
      OBVIOUS
    <3>1. k \in 1 .. n \/ k = n + 1
      BY <2>2, <2>4
    <3>2. CASE k = n + 1
      BY <2>5, <2>7, <3>2
    <3>3. CASE k \in 1 .. n
      <4>1. PICK i \in Holes \intersect Walked : Lists(k, i)
        BY <1>6, <2>2, <3>3
      <4> QED
        BY <2>5, <2>6, <3>3, <4>1
    <3> QED
      BY <3>1, <3>2, <3>3
  <2>10. \A k, m \in DOMAIN holeInfo' :
            k < m => holeInfo'[k].offset < holeInfo'[m].offset
    <3> SUFFICES ASSUME NEW k \in 1 .. n + 1, NEW m \in 1 .. n + 1, k < m
                 PROVE  holeInfo'[k].offset < holeInfo'[m].offset
      BY <2>4
    <3>1. k \in 1 .. n
      BY <2>2
    <3>2. CASE m \in 1 .. n
      BY <1>6, <2>2, <2>4, <3>1, <3>2
    <3>3. CASE m = n + 1
      <4>1. PICK i \in Holes \intersect Walked : Lists(k, i)
        BY <1>6, <2>2, <3>1
      <4>2. i \in 1 .. Len(list) /\ i < cur
        BY <1>1, <1>3, <4>1 DEF Walked
      <4>3. list[i].offset < list[cur].offset
        BY <1>2, <1>3, <4>2, OrderByOffset
      <4>4. holeInfo'[k].offset = list[i].offset
        BY <2>4, <3>1, <4>1 DEF Lists
      <4> QED
        BY <2>3, <2>4, <3>3, <4>3, <4>4
    <3> QED
      BY <2>2, <3>2, <3>3
  <2>11. ArrayListsWalkedHoles'
    BY <2>8, <2>9, <2>10, Zenon DEF ArrayListsWalkedHoles
  <2> QED
    BY <1>7, <2>11 DEF ScanInv
<1> QED
  BY <1>8, <1>9

\* getList is done: every hole is in its array, and the allocator has looked at
\* none.
LEMMA GetListReturnScans ==
  ASSUME TypeInv, IndInv, ScanInv, GetListReturn
  PROVE  ScanInv'
<1>1. /\ pc = "getList" /\ pc' \in {"fit", "write"} /\ cur > Len(list) /\ cur' = 1
      /\ UNCHANGED <<list, holeInfo, best, bestLen>>
  BY DEF GetListReturn, manager
<1>2. Walked = DOMAIN list /\ Walked' = DOMAIN list
  <2>1. DOMAIN list = 1 .. Len(list) /\ Len(list) \in Nat /\ cur \in Nat
    BY ListElement DEF TypeInv, TypeOK
  <2> QED
    BY <1>1, <2>1 DEF Walked
<1>3. Holes' = Holes /\ \A k, i : Lists(k, i)' <=> Lists(k, i)
  BY <1>1 DEF Holes, Lists
<1>4. ArrayListsWalkedHoles'
  BY <1>1, <1>2, <1>3 DEF ScanInv, ArrayListsWalkedHoles
<1>5. best = -1 /\ bestLen = -1
  BY <1>1 DEF IndInv, ChoiceIsHole, ScanInv, ChoiceIsBest
<1>6. \A k \in DOMAIN holeInfo : ~ (k < 1)
  BY ArrayElement
<1>7. ChoiceIsBest'
  BY <1>1, <1>5, <1>6 DEF ChoiceIsBest
<1> QED
  BY <1>4, <1>7 DEF ScanInv

\* bestFit and worstFit replace their choice by a hole that suits their policy
\* better; holes come in address order, so of equal holes the first one stays.
LEMMA FitStepScans ==
  ASSUME TypeInv, IndInv, ScanInv, FitStep
  PROVE  ScanInv'
<1> DEFINE h == holeInfo[cur]
           takes == IF allocator = "bestFit" THEN BestFitTakes(h) ELSE WorstFitTakes(h)
<1>1. /\ pc = "fit" /\ pc' = "fit" /\ allocator # "custom" /\ cur <= Len(holeInfo)
      /\ best' = (IF takes THEN h.offset ELSE best)
      /\ bestLen' = (IF takes THEN h.length ELSE bestLen)
      /\ cur' = cur + 1
      /\ UNCHANGED <<list, allocator, holeInfo, words>>
  BY DEF FitStep, manager
<1>2. cur \in Nat /\ cur > 0 /\ allocator \in {"bestFit", "worstFit"} /\ words \in Int
  BY <1>1, Inputs DEF IndInv, CursorOK, TypeInv, TypeOK, AllocatorKinds
<1>3. cur \in 1 .. Len(holeInfo) /\ cur \in DOMAIN holeInfo
  BY <1>1, <1>2, ArrayElement
<1>4. h.offset \in Nat /\ h.length \in Nat
  BY <1>3, ArrayElement
<1>5. \A k \in DOMAIN holeInfo : k \in Nat /\ holeInfo[k].offset \in Nat /\ holeInfo[k].length \in Nat
  BY ArrayElement
<1>6. best \in Nat \union {-1} /\ bestLen \in Nat \union {-1}
  BY WordIsNat DEF TypeInv, TypeOK
<1>7. /\ best = -1 <=> bestLen = -1
      /\ best # -1 => \E k \in DOMAIN holeInfo :
             k < cur /\ holeInfo[k].offset = best /\ holeInfo[k].length = bestLen
      /\ \A k \in DOMAIN holeInfo :
             k < cur /\ holeInfo[k].length >= words =>
                /\ best # -1
                /\ \/ (bestLen = holeInfo[k].length /\ best <= holeInfo[k].offset)
                   \/ (allocator = "bestFit" /\ bestLen < holeInfo[k].length)
                   \/ (allocator = "worstFit" /\ bestLen > holeInfo[k].length)
  BY <1>1 DEF ScanInv, ChoiceIsBest
<1>8. \A k, m \in DOMAIN holeInfo : k < m => holeInfo[k].offset < holeInfo[m].offset
  BY <1>1 DEF ScanInv, ArrayListsWalkedHoles
<1>9. ArrayListsWalkedHoles'
  <2>1. /\ Holes' = Holes /\ Walked = DOMAIN list /\ Walked' = DOMAIN list
        /\ \A k, i : Lists(k, i)' <=> Lists(k, i)
    BY <1>1 DEF Holes, Walked, Lists
  <2> QED
    BY <1>1, <2>1 DEF ScanInv, ArrayListsWalkedHoles
<1>10. \A k \in DOMAIN holeInfo : k < cur + 1 <=> k < cur \/ k = cur
  BY <1>2, <1>5
<1>11. best # -1 => best < h.offset
  BY <1>3, <1>5, <1>7, <1>8
<1> HIDE DEF h
<1>12. \A k \in DOMAIN holeInfo :
          k < cur' /\ holeInfo[k].length >= words =>
             /\ best' # -1
             /\ \/ (bestLen' = holeInfo[k].length /\ best' <= holeInfo[k].offset)
                \/ (allocator = "bestFit" /\ bestLen' < holeInfo[k].length)
                \/ (allocator = "worstFit" /\ bestLen' > holeInfo[k].length)
  <2> SUFFICES ASSUME NEW k \in DOMAIN holeInfo, k < cur + 1, holeInfo[k].length >= words
               PROVE  /\ best' # -1
                      /\ \/ (bestLen' = holeInfo[k].length /\ best' <= holeInfo[k].offset)
                         \/ (allocator = "bestFit" /\ bestLen' < holeInfo[k].length)
                         \/ (allocator = "worstFit" /\ bestLen' > holeInfo[k].length)
    BY <1>1
  <2> DEFINE len == holeInfo[k].length
             off == holeInfo[k].offset
  <2>0. len \in Nat /\ off \in Nat /\ len >= words
    BY <1>5
  <2>1. CASE k = cur
    <3>1. len = h.length /\ off = h.offset
      BY <2>1 DEF h
    <3> HIDE DEF len, off
    <3>2. CASE takes
      BY <1>1, <1>4, <2>0, <3>1, <3>2 DEF len, off
    <3>3. CASE ~ takes
      <4>1. bestLen' = bestLen /\ best' = best
        BY <1>1, <3>3
      <4>2. CASE allocator = "bestFit"
        <5>1. bestLen # -1 /\ ~ (h.length < bestLen)
          BY <2>0, <3>1, <3>3, <4>2 DEF BestFitTakes
        <5>2. best # -1 /\ best < h.offset
          BY <1>7, <1>11, <5>1
        <5>3. bestLen = len \/ bestLen < len
          BY <1>4, <1>6, <3>1, <5>1
        <5> QED
          BY <1>4, <1>6, <3>1, <4>1, <4>2, <5>2, <5>3 DEF len, off
      <4>3. CASE allocator = "worstFit"
        <5>1. ~ (h.length > bestLen)
          BY <2>0, <3>1, <3>3, <4>3 DEF WorstFitTakes
        <5>2. bestLen # -1
          BY <1>4, <5>1
        <5>3. best # -1 /\ best < h.offset
          BY <1>7, <1>11, <5>2
        <5>4. bestLen = len \/ bestLen > len
          BY <1>4, <1>6, <3>1, <5>1
        <5> QED
          BY <1>4, <1>6, <3>1, <4>1, <4>3, <5>3, <5>4 DEF len, off
      <4> QED
        BY <1>2, <4>2, <4>3
    <3> QED
      BY <3>2, <3>3
  <2>2. CASE k < cur
    <3>1. /\ best # -1
          /\ \/ (bestLen = len /\ best <= off)
             \/ (allocator = "bestFit" /\ bestLen < len)
             \/ (allocator = "worstFit" /\ bestLen > len)
      BY <1>7, <2>2
    <3>2. CASE ~ takes
      BY <1>1, <3>1, <3>2
    <3>3. CASE takes
      <4>1. bestLen' = h.length /\ best' = h.offset /\ best' # -1 /\ bestLen # -1
        BY <1>1, <1>4, <1>7, <3>1, <3>3
      <4>2. CASE allocator = "bestFit"
        <5>1. h.length < bestLen
          BY <3>3, <4>1, <4>2 DEF BestFitTakes
        <5>2. h.length < len
          BY <1>4, <1>6, <2>0, <3>1, <4>1, <4>2, <5>1
        <5> QED
          BY <4>1, <4>2, <5>2
      <4>3. CASE allocator = "worstFit"
        <5>1. h.length > bestLen
          BY <3>3, <4>1, <4>3 DEF WorstFitTakes
        <5>2. h.length > len
          BY <1>4, <1>6, <2>0, <3>1, <4>1, <4>3, <5>1
        <5> QED
          BY <4>1, <4>3, <5>2
      <4> QED
        BY <1>2, <4>2, <4>3
    <3> QED
      BY <3>2, <3>3
  <2> QED
    BY <1>10, <2>1, <2>2
<1>13. best' # -1 => \E k \in DOMAIN holeInfo :
          k < cur' /\ holeInfo[k].offset = best' /\ holeInfo[k].length = bestLen'
  <2>1. CASE takes
    <3>1. best' = holeInfo[cur].offset /\ bestLen' = holeInfo[cur].length /\ cur < cur'
      BY <1>1, <1>2, <2>1 DEF h
    <3> QED
      BY <1>3, <3>1
  <2>2. CASE ~ takes
    <3>1. best' = best /\ bestLen' = bestLen
      BY <1>1, <2>2
    <3>2. ASSUME best # -1
          PROVE  \E k \in DOMAIN holeInfo :
                    k < cur' /\ holeInfo[k].offset = best /\ holeInfo[k].length = bestLen
      <4>1. PICK k \in DOMAIN holeInfo :
                k < cur /\ holeInfo[k].offset = best /\ holeInfo[k].length = bestLen
        BY <1>7, <3>2
      <4>2. k < cur'
        BY <1>1, <1>2, <1>5, <4>1
      <4> QED
        BY <4>1, <4>2
    <3> QED
      BY <3>1, <3>2
  <2> QED
    BY <2>1, <2>2
<1>14. best' = -1 <=> bestLen' = -1
  BY <1>1, <1>4, <1>7
<1>15. ChoiceIsBest'
  BY <1>1, <1>12, <1>13, <1>14 DEF ChoiceIsBest
<1> QED
  BY <1>9, <1>15 DEF ScanInv

LEMMA CustomFitScans ==
  ASSUME TypeInv, IndInv, ScanInv, CustomFit
  PROVE  ScanInv'
<1>1. /\ pc = "fit" /\ pc' = "fit" /\ allocator' = "custom"
      /\ UNCHANGED <<list, holeInfo, words>>
  BY DEF CustomFit, manager
<1>2. PICK i \in 0 .. Len(holeInfo) :
          IF i = 0 THEN UNCHANGED <<best, bestLen>>
          ELSE best' = holeInfo[i].offset /\ bestLen' = holeInfo[i].length
  BY DEF CustomFit
<1>3. best' = -1 <=> bestLen' = -1
  <2>1. CASE i = 0
    BY <1>2, <2>1 DEF ScanInv, ChoiceIsBest
  <2>2. CASE i # 0
    <3>1. holeInfo[i].offset \in Nat /\ holeInfo[i].length \in Nat
      BY <2>2, ArrayElement
    <3> QED
      BY <1>2, <2>2, <3>1
  <2> QED
    BY <2>1, <2>2
<1>4. ArrayListsWalkedHoles'
  <2>1. /\ Holes' = Holes /\ Walked = DOMAIN list /\ Walked' = DOMAIN list
        /\ \A k, j : Lists(k, j)' <=> Lists(k, j)
    BY <1>1 DEF Holes, Walked, Lists
  <2> QED
    BY <1>1, <2>1 DEF ScanInv, ArrayListsWalkedHoles
<1> QED
  BY <1>1, <1>3, <1>4 DEF ScanInv, ChoiceIsBest

\* Every call, and every step of a running call, keeps ScanInv.
LEMMA NextScanInv == TypeInv /\ IndInv /\ ScanInv /\ [Next]_vars => ScanInv'
<1> SUFFICES ASSUME TypeInv, IndInv, ScanInv, [Next]_vars PROVE ScanInv'
  OBVIOUS
<1>0. best = -1 <=> bestLen = -1
  BY DEF ScanInv, ChoiceIsBest
<1>1. CASE pc' \notin {"getList", "fit", "write"} /\ UNCHANGED <<best, bestLen>>
  BY <1>0, <1>1, NoWalk
<1>2. CASE Return
  BY <1>2, ReturnScans
<1>3. CASE /\ pc = "idle" /\ pc' = "getList" /\ cur' = 1
           /\ UNCHANGED <<list, holeInfo, best, bestLen>>
  BY <1>3, StartScans
<1>4. CASE GetListStep
  BY <1>4, GetListStepScans
<1>5. CASE GetListReturn
  BY <1>5, GetListReturnScans
<1>6. CASE FitStep
  BY <1>6, FitStepScans
<1>7. CASE CustomFit
  BY <1>7, CustomFitScans
<1>8. CASE UNCHANGED vars
  <2>1. /\ Holes' = Holes /\ Walked' = Walked /\ \A k, i : Lists(k, i)' <=> Lists(k, i)
    BY <1>8 DEF vars, manager, locals, Holes, Walked, Lists
  <2>2. ArrayListsWalkedHoles'
    BY <1>8, <2>1 DEF vars, manager, locals, ScanInv, ArrayListsWalkedHoles
  <2> QED
    BY <1>8, <2>2 DEF vars, manager, locals, ScanInv, ChoiceIsBest
<1>9. CASE Call
  <2>1. ASSUME NEW n \in Requests, Allocate(n) PROVE ScanInv'
    BY <1>3, <2>1 DEF Allocate, StartGetList, manager
  <2>2. CASE Dump
    BY <1>1, <1>3, <2>2 DEF Dump, StartGetList, manager, locals
  <2>3. ASSUME NEW n \in Requests, AllocateNothing(n) PROVE ScanInv'
    BY <1>8, <2>3 DEF AllocateNothing
  <2>4. CASE FreeNothing
    BY <1>8, <2>4 DEF FreeNothing
  <2>5. ASSUME NEW size \in Sizes, NEW outcome \in DevZero, NEW granted \in Grants,
               Initialize(size, outcome, granted)
        PROVE  ScanInv'
    BY <1>1, <2>5 DEF Initialize, locals
  <2>6. ASSUME NEW a \in Allocators, SetAllocator(a) PROVE ScanInv'
    BY <1>1, <2>6 DEF SetAllocator, locals
  <2>7. ASSUME NEW a \in Addresses, Free(a) PROVE ScanInv'
    BY <1>1, <2>7 DEF Free
  <2>8. CASE Shutdown
    BY <1>1, <2>8 DEF Shutdown, locals
  <2>9. CASE DumpOpenFails
    BY <1>1, <2>9 DEF DumpOpenFails, locals
  <2> QED
    BY <1>9, <2>1, <2>2, <2>3, <2>4, <2>5, <2>6, <2>7, <2>8, <2>9 DEF Call
<1>10. CASE MergeStep
  BY <1>1, <1>10 DEF MergeStep
<1>11. CASE Place \/ ReturnNull \/ FreeReturn \/ DumpWrite
  BY <1>2, <1>11 DEF Place, ReturnNull, FreeReturn, DumpWrite
<1> QED
  BY <1>4, <1>5, <1>6, <1>7, <1>8, <1>9, <1>10, <1>11 DEF Next, Run

AllInv == TypeInv /\ IndInv /\ ScanInv

LEMMA Invariants == ASSUME InputsFit PROVE Spec => []AllInv
<1>1. Init => ScanInv
  BY InitScanInv
<1>2. (TypeInv /\ IndInv) /\ ScanInv /\ [Next]_vars => ScanInv'
  BY NextScanInv
<1>3. Spec => [](TypeInv /\ IndInv)
  BY Invariant
<1> QED
  BY <1>1, <1>2, <1>3, PTL DEF Spec, AllInv

\* What a running allocate or dump has listed is what it has walked, and the
\* choice of bestFit and worstFit is the best so far.
THEOREM ScanInvAlways == ASSUME InputsFit PROVE Spec => []ScanInv
<1>1. AllInv => ScanInv
  BY DEF AllInv
<1> QED
  BY <1>1, Invariants, PTL

-----------------------------------------------------------------------------
(* The allocators                                                          *)

\* A running allocator has every hole of the list before it.
LEMMA FitFacts ==
  ASSUME AllInv, pc = "fit"
  PROVE  /\ mapped /\ WellTiled /\ Coalesced /\ words \in Nat /\ words > 0
         /\ \A i \in Holes : i \in 1 .. Len(list) /\ list[i].isHole
         /\ \A i \in Holes : \E k \in 1 .. Len(holeInfo) : Lists(k, i)
<1>1. TypeInv /\ IndInv /\ ScanInv
  BY DEF AllInv
<1>2. mapped /\ caller = "allocate"
  BY <1>1 DEF IndInv, RequestInProgress
<1>3. WellTiled
  BY <1>1, <1>2, MappedWellTiled
<1>4. Coalesced
  BY <1>1 DEF IndInv, MergedBehindCursor, Coalesced
<1>5. words \in Nat /\ words > 0
  BY <1>1, <1>2 DEF IndInv, RequestInProgress, TypeInv, TypeOK
<1>6. \A i \in Holes : i \in 1 .. Len(list) /\ list[i].isHole
  BY <1>3, NodeFacts DEF Holes
<1>7. \A i \in Holes : \E k \in 1 .. Len(holeInfo) : Lists(k, i)
  <2>1. Holes \intersect Walked = Holes
    BY DEF Holes, Walked
  <2> QED
    BY <1>1, <2>1, ArrayElement DEF ScanInv, ArrayListsWalkedHoles
<1> QED
  BY <1>2, <1>3, <1>4, <1>5, <1>6, <1>7

\* Once bestFit or worstFit has returned, no hole suits it better than its
\* choice.
LEMMA PolicyFacts ==
  ASSUME AllInv, AllocatorReturned, allocator # "custom",
         NEW j \in Holes, list[j].length >= words
  PROVE  /\ best # -1
         /\ \/ (bestLen = list[j].length /\ best <= list[j].offset)
            \/ (allocator = "bestFit" /\ bestLen < list[j].length)
            \/ (allocator = "worstFit" /\ bestLen > list[j].length)
<1>1. pc = "fit" /\ cur > Len(holeInfo)
  BY DEF AllocatorReturned
<1>2. PICK k \in 1 .. Len(holeInfo) : Lists(k, j)
  BY <1>1, FitFacts
<1>3. holeInfo[k].offset = list[j].offset /\ holeInfo[k].length = list[j].length
  BY <1>2 DEF Lists
<1>4. k \in DOMAIN holeInfo /\ k < cur
  BY <1>1, ArrayElement DEF AllInv, TypeInv, TypeOK
<1> QED
  BY <1>1, <1>3, <1>4 DEF AllInv, ScanInv, ChoiceIsBest

\* The choice of an allocator, when there is one, is a node that is found.
LEMMA ChoiceIsChosen ==
  ASSUME AllInv, pc = "fit", best # -1
  PROVE  \E i \in Holes : /\ Chosen(i)
                          /\ list[i].length = bestLen /\ bestLen >= words
<1>1. WellTiled /\ \A i \in Holes : i \in 1 .. Len(list) /\ list[i].isHole
  BY FitFacts
<1>2. IsListed([offset |-> best, length |-> bestLen]) /\ bestLen >= words
  BY DEF AllInv, IndInv, ChoiceIsHole
<1>3. PICK i \in Holes : best = list[i].offset /\ bestLen = list[i].length
  BY <1>2 DEF IsListed
<1>4. \A j \in 1 .. i - 1 : list[j].offset # best
  <2> SUFFICES ASSUME NEW j \in 1 .. i - 1 PROVE list[j].offset # best
    OBVIOUS
  <2>1. j \in 1 .. Len(list) /\ i \in 1 .. Len(list) /\ j # i
    BY <1>1, <1>3
  <2> QED
    BY <1>1, <1>3, <2>1, OrderByOffset
<1>5. Chosen(i)
  BY <1>1, <1>3, <1>4 DEF Chosen
<1> QED
  BY <1>2, <1>3, <1>5

\* An allocate that answers nullptr under bestFit or worstFit found no hole of
\* the request's length.
LEMMA RefusedForLackOfHoles ==
  ASSUME AllInv, ReturnNull, allocator # "custom"
  PROVE  \A i \in Holes : ~ (list[i].length >= words)
<1>1. AllocatorReturned /\ pc = "fit" /\ (best = -1 \/ \A i \in DOMAIN list : ~ Chosen(i))
  BY DEF ReturnNull, AllocatorReturned
<1>2. best = -1
  <2>1. ASSUME best # -1 PROVE FALSE
    <3>1. PICK i \in Holes : Chosen(i)
      BY <1>1, <2>1, ChoiceIsChosen
    <3>2. i \in DOMAIN list
      BY DEF Holes
    <3> QED
      BY <1>1, <2>1, <3>1, <3>2
  <2> QED
    BY <2>1
<1> QED
  BY <1>1, <1>2, PolicyFacts

\* bestFit and worstFit make allocate fail only when no run of free words,
\* wherever it lies, is as long as the request.
THEOREM CompleteAlways == ASSUME InputsFit PROVE Spec => AllocateComplete
<1> DEFINE P == ReturnNull /\ allocator # "custom" =>
                   \A s \in 0 .. totalWords : ~ (s .. s + words - 1 \subseteq FreeWords)
<1>1. AllInv => P
  <2> SUFFICES ASSUME AllInv, ReturnNull, allocator # "custom", NEW s \in 0 .. totalWords,
                      s .. s + words - 1 \subseteq FreeWords
               PROVE  FALSE
    OBVIOUS
  <2>1. pc = "fit"
    BY DEF ReturnNull, AllocatorReturned
  <2>2. WellTiled /\ Coalesced /\ words \in Nat /\ words > 0 /\ s \in Nat
    BY <2>1, FitFacts DEF WellTiled
  <2>3. \E i \in Holes : list[i].length >= words
    BY <2>2, FreeRunInOneHole
  <2> QED
    BY <2>3, RefusedForLackOfHoles
<1>2. AllInv /\ [Next]_vars => [P]_vars
  BY <1>1
<1>3. Spec => []AllInv
  BY Invariants
<1>4. Spec => [][P]_vars
  <2> HIDE DEF P
  <2> QED
    BY <1>2, <1>3, PTL DEF Spec
<1> QED
  BY <1>4 DEF AllocateComplete

\* allocate turns into a block a smallest (bestFit) or largest (worstFit) hole
\* that fits, the lowest-addressed one of that length.
THEOREM PolicyAlways == ASSUME InputsFit PROVE Spec => PlacementFollowsPolicy
<1> DEFINE P == Place /\ allocator # "custom" =>
                   \A i \in DOMAIN list : Chosen(i) => Preferred(i)
<1>1. AllInv => P
  <2> SUFFICES ASSUME AllInv, Place, allocator # "custom", NEW i \in DOMAIN list, Chosen(i)
               PROVE  Preferred(i)
    OBVIOUS
  <2>1. AllocatorReturned /\ pc = "fit"
    BY DEF Place, AllocatorReturned
  <2>2. WellTiled /\ words \in Nat /\ \A j \in Holes : j \in 1 .. Len(list)
    BY <2>1, FitFacts
  <2>3. i \in Holes /\ i \in 1 .. Len(list) /\ list[i].offset = best /\ list[i].offset \in Nat
    BY <2>2, NodeFacts DEF Chosen, Holes
  <2>4. best # -1
    BY <2>3
  <2>5. PICK m \in Holes : Chosen(m) /\ list[m].length = bestLen /\ bestLen >= words
    BY <2>1, <2>4, ChoiceIsChosen
  <2>6. m = i
    BY <2>2, <2>3, <2>5, OrderByOffset DEF Chosen
  <2>7. Fits(i)
    BY <2>3, <2>5, <2>6 DEF Fits
  <2>8. ASSUME NEW j \in DOMAIN list, Fits(j), j # i
        PROVE  \/ (list[i].length = list[j].length /\ i < j)
               \/ (allocator = "bestFit" /\ list[i].length < list[j].length)
               \/ (allocator = "worstFit" /\ list[i].length > list[j].length)
    <3>1. j \in Holes /\ list[j].length >= words /\ j \in 1 .. Len(list)
      BY <2>2, <2>8 DEF Fits
    <3>2. \/ (bestLen = list[j].length /\ best <= list[j].offset)
          \/ (allocator = "bestFit" /\ bestLen < list[j].length)
          \/ (allocator = "worstFit" /\ bestLen > list[j].length)
      BY <2>1, <3>1, PolicyFacts
    <3>3. CASE bestLen = list[j].length /\ best <= list[j].offset
      <4>1. list[i].offset # list[j].offset
        BY <2>2, <2>3, <2>8, <3>1, OrderByOffset
      <4>2. list[j].offset \in Nat
        BY <2>2, <3>1, NodeFacts
      <4>3. list[i].offset < list[j].offset
        BY <2>3, <3>3, <4>1, <4>2
      <4>4. i < j
        BY <2>2, <2>3, <3>1, <4>3, OrderByOffset
      <4> QED
        BY <2>5, <2>6, <3>3, <4>4
    <3> QED
      BY <2>5, <2>6, <3>2, <3>3
  <2> QED
    BY <2>7, <2>8 DEF Preferred
<1>2. AllInv /\ [Next]_vars => [P]_vars
  BY <1>1
<1>3. Spec => []AllInv
  BY Invariants
<1>4. Spec => [][P]_vars
  <2> HIDE DEF P
  <2> QED
    BY <1>2, <1>3, PTL DEF Spec
<1> QED
  BY <1>4 DEF PlacementFollowsPolicy

-----------------------------------------------------------------------------
(* The reports                                                             *)

\* Free words and words in use part the block.
LEMMA WordsParted ==
  ASSUME WellTiled
  PROVE  UNION {WordsOf(i) : i \in InUse} = (0 .. totalWords - 1) \ FreeWords
<1>1. /\ \A i \in InUse : i \in 1 .. Len(list) /\ ~ list[i].isHole
      /\ \A i \in Holes : i \in 1 .. Len(list) /\ list[i].isHole
      /\ \A i \in 1 .. Len(list) : i \in InUse \/ i \in Holes
  BY NodeFacts DEF InUse, Holes
<1>2. ASSUME NEW i \in InUse, NEW w \in WordsOf(i)
      PROVE  w \in 0 .. totalWords - 1 /\ w \notin FreeWords
  <2>1. /\ w \in Nat /\ w < list[i].offset + list[i].length
        /\ list[i].offset + list[i].length <= totalWords
        /\ list[i].offset \in Nat /\ list[i].length \in Nat
    BY <1>1, <1>2, WordBounds, NodeFacts
  <2>2. totalWords \in Nat
    BY DEF WellTiled
  <2>3. ASSUME NEW j \in Holes, w \in WordsOf(j) PROVE FALSE
    BY <1>1, <1>2, <2>3, OneNodePerWord
  <2> QED
    BY <2>1, <2>2, <2>3 DEF FreeWords
<1>3. ASSUME NEW w \in 0 .. totalWords - 1, w \notin FreeWords
      PROVE  \E i \in InUse : w \in WordsOf(i)
  <2>1. PICK i \in 1 .. Len(list) : w \in WordsOf(i)
    BY EveryWordHasNode
  <2> QED
    BY <1>1, <1>3, <2>1 DEF FreeWords
<1> QED
  BY <1>2, <1>3

\* Byte and bit of a word give the word back, and lie inside the bitmap.
LEMMA BitInside ==
  ASSUME NEW total \in Nat, total < U16, NEW w \in 0 .. total - 1
  PROVE  /\ BitOf(w)[1] \in 2 .. (((total + 7) \div 8) % U16) + 1
         /\ 8 * (BitOf(w)[1] - 2) + BitOf(w)[2] = w
<1> DEFINE q == w \div 8
           r == w % 8
           n == (total + 7) \div 8
<1>1. q \in Nat /\ r \in Nat /\ 8 * q + r = w
  OBVIOUS
<1>2. n \in Nat /\ 8 * n >= total /\ n <= total
  OBVIOUS
<1>3. n % U16 = n
  BY <1>2, NotTruncated, U16IsNat
<1>4. BitOf(w)[1] = 2 + q /\ BitOf(w)[2] = r
  BY DEF BitOf
<1> HIDE DEF q, r
<1>5. q < n
  <2> HIDE DEF n
  <2> QED
    BY <1>1, <1>2
<1>6. BitOf(w)[1] \in 2 .. n + 1
  <2> HIDE DEF n
  <2> QED
    BY <1>1, <1>2, <1>4, <1>5
<1>7. 8 * (BitOf(w)[1] - 2) + BitOf(w)[2] = w
  BY <1>1, <1>4
<1> QED
  BY <1>3, <1>6, <1>7

\* The bitmap sets, inside its array, exactly the bits of the words that are
\* not free.
THEOREM BitmapAlways == ASSUME InputsFit PROVE Spec => []BitmapComplementsHoleList
<1>1. AllInv => BitmapComplementsHoleList
  <2> SUFFICES ASSUME AllInv, mapped
               PROVE  /\ \A b \in GetBitmap.bits : b[1] \in 2 .. GetBitmap.byteCount + 1
                      /\ {8 * (b[1] - 2) + b[2] : b \in GetBitmap.bits}
                            = (0 .. totalWords - 1) \ FreeWords
    BY DEF BitmapComplementsHoleList
  <2> DEFINE W == UNION {WordsOf(i) : i \in InUse}
  <2>1. WellTiled /\ totalWords \in Nat /\ totalWords < U16
    BY MappedWellTiled DEF AllInv, WellTiled
  <2>2. W = (0 .. totalWords - 1) \ FreeWords
    BY <2>1, WordsParted
  <2>3. /\ GetBitmap.bits = {BitOf(w) : w \in W}
        /\ GetBitmap.byteCount = ((totalWords + 7) \div 8) % U16
    BY DEF GetBitmap
  <2> HIDE DEF W
  <2>4. \A w \in W : /\ BitOf(w)[1] \in 2 .. GetBitmap.byteCount + 1
                     /\ 8 * (BitOf(w)[1] - 2) + BitOf(w)[2] = w
    BY <2>1, <2>2, <2>3, BitInside
  <2>5. \A b \in GetBitmap.bits : b[1] \in 2 .. GetBitmap.byteCount + 1
    BY <2>3, <2>4
  <2>6. {8 * (b[1] - 2) + b[2] : b \in GetBitmap.bits} = W
    BY <2>3, <2>4
  <2> QED
    BY <2>2, <2>5, <2>6
<1> QED
  BY <1>1, Invariants, PTL

\* Two holes of a coalesced list, the first one before the second, do not touch.
LEMMA HolesApart ==
  ASSUME WellTiled, Coalesced, NEW i \in 1 .. Len(list), NEW j \in 1 .. Len(list),
         list[i].isHole, list[j].isHole, i < j
  PROVE  list[i].offset + list[i].length < list[j].offset
<1>1. i \in 1 .. Len(list) - 1 /\ i + 1 \in 1 .. Len(list)
  BY NodeFacts
<1>2. i + 1 # j
  BY <1>1 DEF Coalesced
<1>3. i + 1 < j
  BY <1>1, <1>2
<1>4. /\ list[i + 1].offset = list[i].offset + list[i].length
      /\ list[i + 1].offset \in Nat /\ list[i + 1].length \in Nat /\ list[i + 1].length > 0
      /\ list[i + 1].offset + list[i + 1].length <= list[j].offset
      /\ list[j].offset \in Nat
  BY <1>1, <1>3, NodeFacts
<1> QED
  BY <1>4

\* What a dump leaves in its file is, in address order, an initial part of the
\* maximal free runs, and all of them when the write was complete.
THEOREM DumpAlways == ASSUME InputsFit PROVE Spec => DumpListsFreeRuns
<1> DEFINE Runs == {[offset |-> list[i].offset, length |-> list[i].length] : i \in Holes}
           Reported(dumped) == {dumped[k] : k \in DOMAIN dumped}
           Shows(dumped) ==
              /\ Reported(dumped) \subseteq Runs
              /\ \A k \in 1 .. Len(dumped) - 1 :
                    dumped[k].offset + dumped[k].length < dumped[k + 1].offset
              /\ \A h \in Runs \ Reported(dumped), k \in DOMAIN dumped :
                    dumped[k].offset < h.offset
              /\ Len(dumped) = Len(holeInfo) => Reported(dumped) = Runs
           P == DumpWrite => ShowsFreeRuns(file'.holes)
<1>1. AllInv => P
  <2> SUFFICES ASSUME AllInv, DumpWrite PROVE Shows(file'.holes)
    BY Zenon DEF ShowsFreeRuns
  <2>1. pc = "write" /\ mapped /\ WellTiled /\ Coalesced
    BY MappedWellTiled
       DEF DumpWrite, AllInv, IndInv, RequestInProgress, MergedBehindCursor, Coalesced
  <2>2. PICK n \in 0 .. Len(holeInfo) :
           file' = [result |-> "success", holes |-> SubSeq(holeInfo, 1, n)]
    BY DEF DumpWrite
  <2> DEFINE dumped == SubSeq(holeInfo, 1, n)
  <2>3. holeInfo \in Seq(Hole) /\ n \in Nat /\ n <= Len(holeInfo) /\ Len(holeInfo) \in Nat
    BY ArrayElement DEF AllInv, TypeInv, TypeOK
  <2>4. /\ Len(dumped) = n /\ DOMAIN dumped = 1 .. n
        /\ \A k \in 1 .. n : dumped[k] = holeInfo[k]
    BY <2>3
  <2> HIDE DEF dumped
  <2>5. /\ \A i \in Holes : \E k \in 1 .. Len(holeInfo) : Lists(k, i)
        /\ \A k \in 1 .. Len(holeInfo) : \E i \in Holes : Lists(k, i)
        /\ \A k, m \in 1 .. Len(holeInfo) : k < m => holeInfo[k].offset < holeInfo[m].offset
    <3>1. Holes \intersect Walked = Holes
      BY <2>1 DEF Holes, Walked
    <3> QED
      BY <2>1, <3>1, ArrayElement DEF AllInv, ScanInv, ArrayListsWalkedHoles
  <2>6. \A i \in Holes : i \in 1 .. Len(list) /\ list[i].isHole
    BY <2>1, NodeFacts DEF Holes
  <2>7. \A k \in 1 .. Len(holeInfo), i \in Holes :
           Lists(k, i) => holeInfo[k] = [offset |-> list[i].offset, length |-> list[i].length]
    <3>1. \A k \in 1 .. Len(holeInfo) :
             holeInfo[k] = [offset |-> holeInfo[k].offset, length |-> holeInfo[k].length]
      BY ArrayElement DEF AllInv, Hole
    <3> QED
      BY <3>1 DEF Lists
  <2>8. \A k \in 1 .. n : k \in 1 .. Len(holeInfo)
    BY <2>3
  <2>9. Reported(dumped) \subseteq Runs
    <3> SUFFICES ASSUME NEW k \in 1 .. n PROVE holeInfo[k] \in Runs
      BY <2>4
    <3>1. PICK i \in Holes : Lists(k, i)
      BY <2>5, <2>8
    <3> QED
      BY <2>7, <2>8, <3>1
  <2>10. \A h \in Runs : \E m \in 1 .. Len(holeInfo) : h = holeInfo[m]
    <3> SUFFICES ASSUME NEW i \in Holes
                 PROVE  \E m \in 1 .. Len(holeInfo) :
                           [offset |-> list[i].offset, length |-> list[i].length] = holeInfo[m]
      OBVIOUS
    <3>1. PICK m \in 1 .. Len(holeInfo) : Lists(m, i)
      BY <2>5
    <3> QED
      BY <2>7, <3>1
  <2>11. \A k \in 1 .. n - 1 :
            dumped[k].offset + dumped[k].length < dumped[k + 1].offset
    <3> SUFFICES ASSUME NEW k \in 1 .. n - 1
                 PROVE  holeInfo[k].offset + holeInfo[k].length < holeInfo[k + 1].offset
      BY <2>3, <2>4
    <3>1. k \in 1 .. Len(holeInfo) /\ k + 1 \in 1 .. Len(holeInfo) /\ k < k + 1
      BY <2>3
    <3>2. PICK i \in Holes : Lists(k, i)
      BY <2>5, <3>1
    <3>3. PICK j \in Holes : Lists(k + 1, j)
      BY <2>5, <3>1
    <3>4. /\ holeInfo[k].offset = list[i].offset /\ holeInfo[k].length = list[i].length
          /\ holeInfo[k + 1].offset = list[j].offset
      BY <3>2, <3>3 DEF Lists
    <3>5. i < j
      <4>1. list[i].offset < list[j].offset
        BY <2>5, <3>1, <3>4
      <4> QED
        BY <2>1, <2>6, <4>1, OrderByOffset
    <3>6. list[i].offset + list[i].length < list[j].offset
      BY <2>1, <2>6, <3>5, HolesApart
    <3> QED
      BY <3>4, <3>6
  <2>12. ASSUME NEW h \in Runs \ Reported(dumped), NEW k \in 1 .. n
         PROVE  dumped[k].offset < h.offset
    <3>1. PICK m \in 1 .. Len(holeInfo) : h = holeInfo[m]
      BY <2>10, <2>12
    <3>2. m \notin 1 .. n
      BY <2>4, <2>12, <3>1
    <3>3. k < m
      BY <2>3, <3>2
    <3> QED
      BY <2>4, <2>5, <2>8, <3>1, <3>3
  <2>13. n = Len(holeInfo) => Runs \subseteq Reported(dumped)
    BY <2>4, <2>10
  <2>14. file'.holes = dumped
    BY <2>2 DEF dumped
  <2>15. Shows(dumped)
    <3> HIDE DEF Runs
    <3>1. \A h \in Runs \ Reported(dumped), k \in DOMAIN dumped : dumped[k].offset < h.offset
      BY <2>4, <2>12
    <3>2. Len(dumped) = Len(holeInfo) => Reported(dumped) = Runs
      BY <2>4, <2>9, <2>13
    <3>3. \A k \in 1 .. Len(dumped) - 1 :
             dumped[k].offset + dumped[k].length < dumped[k + 1].offset
      BY <2>4, <2>11
    <3> HIDE DEF Reported
    <3> QED
      BY <2>9, <3>1, <3>2, <3>3
  <2> HIDE DEF Shows
  <2> QED
    BY <2>14, <2>15
<1>2. AllInv /\ [Next]_vars => [P]_vars
  BY <1>1
<1>3. Spec => []AllInv
  BY Invariants
<1>4. Spec => [][P]_vars
  <2> HIDE DEF P
  <2> QED
    BY <1>2, <1>3, PTL DEF Spec
<1> QED
  BY <1>4 DEF DumpListsFreeRuns

-----------------------------------------------------------------------------
(* The manager implements the abstract heap                                *)

\* The state of WordHeap that a state of the manager stands for.
Capacity == IF mapped THEN totalWords ELSE 0
BlockMap ==
    [s \in {list[i].offset : i \in InUse} |->
        list[CHOOSE i \in InUse : list[i].offset = s].length]
Honest == allocator # "custom"
Pending == IF caller = "allocate" THEN words ELSE 0

\* What a step of the manager must be for the heap.
HeapStep == [Heap!Next]_(Heap!vars)

LEMMA HeapStutter ==
  ASSUME UNCHANGED <<Capacity, BlockMap, Honest, Pending>>
  PROVE  HeapStep
BY DEF HeapStep, Heap!vars, Capacity, BlockMap, Honest, Pending

\* Blocks of different lengths have different offsets.
OneBlockPerOffset(used) == \A b, c \in used : b[1] = c[1] => b = c

\* A list seen from its blocks alone.
MapOf(nodes) ==
    [s \in {nodes[i].offset : i \in {j \in DOMAIN nodes : ~ nodes[j].isHole}} |->
        nodes[CHOOSE i \in {j \in DOMAIN nodes : ~ nodes[j].isHole} : nodes[i].offset = s].length]

LEMMA MapOfList == BlockMap = MapOf(list) /\ BlockMap' = MapOf(list')
BY Zenon DEF BlockMap, MapOf, InUse

\* The map from offsets to lengths is determined by the blocks.
LEMMA MapOfUsed ==
  ASSUME NEW nodes, OneBlockPerOffset(Used(nodes)),
         NEW f, f = [s \in DOMAIN f |-> f[s]],
         DOMAIN f = {b[1] : b \in Used(nodes)},
         \A b \in Used(nodes) : f[b[1]] = b[2]
  PROVE  MapOf(nodes) = f
<1> DEFINE I == {j \in DOMAIN nodes : ~ nodes[j].isHole}
           D == {nodes[i].offset : i \in I}
           at(s) == CHOOSE i \in I : nodes[i].offset = s
<1>1. Used(nodes) = {<<nodes[i].offset, nodes[i].length>> : i \in I}
  BY DEF Used
<1>2. MapOf(nodes) = [s \in D |-> nodes[at(s)].length]
  BY Zenon DEF MapOf
<1> HIDE DEF I
<1>3. DOMAIN f = D
  <2>1. \A i \in I : \E b \in Used(nodes) : b[1] = nodes[i].offset
    <3> SUFFICES ASSUME NEW i \in I
                 PROVE  \E b \in Used(nodes) : b[1] = nodes[i].offset
      OBVIOUS
    <3>1. <<nodes[i].offset, nodes[i].length>> \in Used(nodes)
      BY <1>1
    <3> QED
      BY <3>1
  <2>2. \A b \in Used(nodes) : \E i \in I : b[1] = nodes[i].offset
    BY <1>1
  <2> QED
    BY <2>1, <2>2
<1>4. ASSUME NEW s \in D PROVE nodes[at(s)].length = f[s]
  <2>1. at(s) \in I /\ nodes[at(s)].offset = s
    BY <1>4
  <2>2. PICK b \in Used(nodes) : b = <<nodes[at(s)].offset, nodes[at(s)].length>>
    BY <1>1, <2>1
  <2> HIDE DEF at
  <2>3. b[1] = s /\ b[2] = nodes[at(s)].length
    BY <2>1, <2>2
  <2> QED
    BY <2>3
<1> HIDE DEF D, at
<1>5. [s \in D |-> nodes[at(s)].length] = [s \in D |-> f[s]]
  BY <1>4
<1> QED
  BY <1>2, <1>3, <1>5

\* The map of a well-tiled list gives each block its length.
LEMMA BlockMapFacts ==
  ASSUME WellTiled
  PROVE  /\ OneBlockPerOffset(Used(list))
         /\ DOMAIN BlockMap = {b[1] : b \in Used(list)}
         /\ \A b \in Used(list) : BlockMap[b[1]] = b[2]
         /\ BlockMap = [s \in DOMAIN BlockMap |-> BlockMap[s]]
<1>1. /\ \A b \in Used(list) : \E i \in InUse :
            b[1] = list[i].offset /\ b[2] = list[i].length /\ b = <<list[i].offset, list[i].length>>
      /\ \A i \in InUse : \E b \in Used(list) : b[1] = list[i].offset
  <2>0. InUse = {j \in DOMAIN list : ~ list[j].isHole}
    BY DEF InUse
  <2>1. Used(list) = {<<list[i].offset, list[i].length>> : i \in InUse}
    BY <2>0, Zenon DEF Used
  <2>2. \A b \in Used(list) : \E i \in InUse : b = <<list[i].offset, list[i].length>>
    BY <2>1
  <2>3. \A i \in InUse : <<list[i].offset, list[i].length>> \in Used(list)
    BY <2>1
  <2>4. \A i \in InUse : \E b \in Used(list) : b[1] = list[i].offset
    <3> SUFFICES ASSUME NEW i \in InUse
                 PROVE  \E b \in Used(list) : b[1] = list[i].offset
      OBVIOUS
    <3>1. <<list[i].offset, list[i].length>>[1] = list[i].offset
      OBVIOUS
    <3> QED
      BY <2>3, <3>1
  <2>5. ASSUME NEW b \in Used(list)
        PROVE  \E i \in InUse : /\ b[1] = list[i].offset /\ b[2] = list[i].length
                                /\ b = <<list[i].offset, list[i].length>>
    <3>1. PICK i \in InUse : b = <<list[i].offset, list[i].length>>
      BY <2>2
    <3>2. b[1] = list[i].offset /\ b[2] = list[i].length
      BY <3>1
    <3> QED
      BY <3>1, <3>2
  <2> QED
    BY <2>4, <2>5
<1>2. \A i, j \in InUse : list[i].offset = list[j].offset => i = j
  BY NodeFacts, OrderByOffset DEF InUse
<1>3. OneBlockPerOffset(Used(list))
  BY <1>1, <1>2 DEF OneBlockPerOffset
<1>4. DOMAIN BlockMap = {b[1] : b \in Used(list)}
  <2>1. DOMAIN BlockMap = {list[i].offset : i \in InUse}
    BY DEF BlockMap
  <2> QED
    BY <1>1, <2>1
<1>5. ASSUME NEW b \in Used(list) PROVE BlockMap[b[1]] = b[2]
  <2>1. PICK i \in InUse : b[1] = list[i].offset /\ b[2] = list[i].length
    BY <1>1
  <2> DEFINE c == CHOOSE j \in InUse : list[j].offset = b[1]
  <2>2. c \in InUse /\ list[c].offset = b[1]
    BY <2>1
  <2>3. c = i
    BY <1>2, <2>1, <2>2
  <2>4. BlockMap[b[1]] = list[c].length
    BY <2>1 DEF BlockMap
  <2> QED
    BY <2>1, <2>3, <2>4
<1>6. BlockMap = [s \in DOMAIN BlockMap |-> BlockMap[s]]
  BY DEF BlockMap
<1> QED
  BY <1>3, <1>4, <1>5, <1>6

\* What the heap calls free words are the words of the holes.
LEMMA HeapFreeWords ==
  ASSUME WellTiled, mapped
  PROVE  Heap!FreeWords = FreeWords /\ FreeWords \subseteq 0 .. totalWords - 1
<1>1. FreeWords \subseteq 0 .. totalWords - 1
  <2> SUFFICES ASSUME NEW i \in Holes, NEW w \in WordsOf(i) PROVE w \in 0 .. totalWords - 1
    BY DEF FreeWords
  <2>1. i \in 1 .. Len(list)
    BY NodeFacts DEF Holes
  <2>2. /\ w \in Nat /\ w < list[i].offset + list[i].length
        /\ list[i].offset + list[i].length <= totalWords
        /\ list[i].offset \in Nat /\ list[i].length \in Nat
    BY <2>1, WordBounds, NodeFacts
  <2> QED
    BY <2>2 DEF WellTiled
<1>2. UNION {Heap!BlockWords(s) : s \in DOMAIN BlockMap} = UNION {WordsOf(i) : i \in InUse}
  <2>1. \A i \in InUse : /\ list[i].offset \in DOMAIN BlockMap
                         /\ BlockMap[list[i].offset] = list[i].length
    <3> SUFFICES ASSUME NEW i \in InUse
                 PROVE  /\ list[i].offset \in DOMAIN BlockMap
                        /\ BlockMap[list[i].offset] = list[i].length
      OBVIOUS
    <3>1. <<list[i].offset, list[i].length>> \in Used(list)
      BY UsedNode DEF InUse
    <3>2. BlockMap[<<list[i].offset, list[i].length>>[1]] = <<list[i].offset, list[i].length>>[2]
      BY <3>1, BlockMapFacts
    <3>3. list[i].offset \in DOMAIN BlockMap
      BY DEF BlockMap
    <3> QED
      BY <3>2, <3>3
  <2>2. \A s \in DOMAIN BlockMap : \E i \in InUse : s = list[i].offset
    BY DEF BlockMap
  <2>3. \A s : Heap!BlockWords(s) = s .. s + BlockMap[s] - 1
    BY Zenon DEF Heap!BlockWords, BlockMap
  <2>4. \A i \in InUse : Heap!BlockWords(list[i].offset) = WordsOf(i)
    BY <2>1, <2>3, Zenon DEF WordsOf
  <2> QED
    BY <2>1, <2>2, <2>4
<1>3. Heap!FreeWords = (0 .. totalWords - 1) \ UNION {Heap!BlockWords(s) : s \in DOMAIN BlockMap}
  BY Zenon DEF Heap!FreeWords, BlockMap
<1> QED
  BY <1>1, <1>2, <1>3, WordsParted

\* The heap's actions in terms of the state that stands for it.
LEMMA HeapReset ==
  ASSUME Pending = 0, Capacity' \in Nat, BlockMap' = [s \in {} |-> 0],
         UNCHANGED <<Honest, Pending>>
  PROVE  HeapStep
<1>1. Heap!Reset
  BY Zenon DEF Heap!Reset, Capacity, BlockMap, Honest, Pending
<1> QED
  BY <1>1, Zenon DEF HeapStep, Heap!Next

LEMMA HeapSetAllocator ==
  ASSUME Pending = 0, UNCHANGED <<Capacity, BlockMap, Pending>>
  PROVE  HeapStep
<1>1. Honest' \in BOOLEAN
  BY DEF Honest
<1>2. Heap!SetAllocator
  BY <1>1, Zenon DEF Heap!SetAllocator, Capacity, BlockMap, Honest, Pending
<1> QED
  BY <1>2, Zenon DEF HeapStep, Heap!Next

LEMMA HeapRequest ==
  ASSUME Pending = 0, Capacity > 0, Pending' \in Nat \ {0},
         UNCHANGED <<Capacity, BlockMap, Honest>>
  PROVE  HeapStep
<1>1. Heap!Request
  BY Zenon DEF Heap!Request, Capacity, BlockMap, Honest, Pending
<1> QED
  BY <1>1, Zenon DEF HeapStep, Heap!Next

LEMMA HeapGrant ==
  ASSUME Pending > 0, Pending' = 0, UNCHANGED <<Capacity, Honest>>,
         NEW s \in 0 .. Capacity - 1,
         s .. s + Pending - 1 \subseteq Heap!FreeWords,
         BlockMap' = [t \in DOMAIN BlockMap \union {s} |->
                         IF t = s THEN Pending ELSE BlockMap[t]]
  PROVE  HeapStep
<1>1. Heap!IsFreeRun(s, Pending)
  BY Zenon DEF Heap!IsFreeRun
<1>2. Heap!Grant
  BY <1>1, Zenon DEF Heap!Grant, Capacity, BlockMap, Honest, Pending
<1> QED
  BY <1>2, Zenon DEF HeapStep, Heap!Next

LEMMA HeapRefuse ==
  ASSUME Pending > 0, Pending' = 0, UNCHANGED <<Capacity, BlockMap, Honest>>,
         Honest => \A s \in 0 .. Capacity - 1 :
                      ~ (s .. s + Pending - 1 \subseteq Heap!FreeWords)
  PROVE  HeapStep
<1>1. Honest => \A s \in 0 .. Capacity - 1 : ~ Heap!IsFreeRun(s, Pending)
  BY Zenon DEF Heap!IsFreeRun
<1>2. Heap!Refuse
  BY <1>1, Zenon DEF Heap!Refuse, Capacity, BlockMap, Honest, Pending
<1> QED
  BY <1>2, Zenon DEF HeapStep, Heap!Next

LEMMA HeapFree ==
  ASSUME Pending = 0, UNCHANGED <<Capacity, Honest, Pending>>,
         NEW s \in DOMAIN BlockMap,
         BlockMap' = [t \in DOMAIN BlockMap \ {s} |-> BlockMap[t]]
  PROVE  HeapStep
<1>1. Heap!Free
  BY Zenon DEF Heap!Free, Capacity, BlockMap, Honest, Pending
<1> QED
  BY <1>1, Zenon DEF HeapStep, Heap!Next

\* No block, no map.
LEMMA NoBlockNoMap ==
  ASSUME NEW nodes, \A i \in DOMAIN nodes : nodes[i].isHole
  PROVE  MapOf(nodes) = [s \in {} |-> 0]
<1> DEFINE f == [s \in {} |-> 0]
<1>1. Used(nodes) = {}
  BY DEF Used
<1>2. OneBlockPerOffset(Used(nodes))
  BY <1>1 DEF OneBlockPerOffset
<1>3. DOMAIN f = {b[1] : b \in Used(nodes)} /\ \A b \in Used(nodes) : f[b[1]] = b[2]
  BY <1>1
<1>4. f = [s \in DOMAIN f |-> f[s]]
  OBVIOUS
<1> HIDE DEF f
<1>5. MapOf(nodes) = f
  BY <1>2, <1>3, <1>4, MapOfUsed
<1> QED
  BY <1>5 DEF f

\* Between calls no request is pending.
LEMMA NothingPending ==
  ASSUME AllInv, pc \in {"idle", "merge", "write"}
  PROVE  caller # "allocate" /\ Pending = 0
BY DEF AllInv, IndInv, RequestInProgress, Pending

\* initialize and shutdown give every block up.
LEMMA ResetSteps ==
  ASSUME AllInv, pc = "idle", UNCHANGED <<allocator, caller>>,
         totalWords' \in Nat,
         \A i \in DOMAIN list' : list'[i].isHole
  PROVE  HeapStep
<1>1. Pending = 0 /\ Pending' = 0
  BY NothingPending DEF Pending
<1>2. Capacity' \in Nat
  BY DEF Capacity
<1>3. BlockMap' = [s \in {} |-> 0]
  BY MapOfList, NoBlockNoMap, Zenon
<1>4. Honest' = Honest
  BY DEF Honest
<1> QED
  BY <1>1, <1>2, <1>3, <1>4, HeapReset

\* A list left alone is a heap left alone.
LEMMA SameMap == ASSUME UNCHANGED list PROVE BlockMap' = BlockMap
BY MapOfList, Zenon

\* allocate's request is the heap's.
LEMMA RequestSteps ==
  ASSUME InputsFit, AllInv, NEW n \in Requests, Allocate(n)
  PROVE  HeapStep
<1>1. /\ pc = "idle" /\ mapped /\ n # 0 /\ words' = WordsNeeded(n) /\ caller' = "allocate"
      /\ UNCHANGED <<mapped, totalWords, list, allocator>>
  BY DEF Allocate, StartGetList, manager
<1>2. Pending' \in Nat \ {0}
  BY <1>1, WordsNeededRoundsUp DEF Pending
<1>3. Capacity > 0
  <2>1. WellTiled
    BY <1>1, MappedWellTiled DEF AllInv
  <2>2. list[1].offset = 0 /\ 1 \in 1 .. Len(list)
    BY <2>1, NodeFacts
  <2>3. /\ list[1].length \in Nat /\ list[1].length > 0 /\ list[1].offset + list[1].length <= totalWords
        /\ totalWords \in Nat
    BY <2>1, <2>2, NodeFacts DEF WellTiled
  <2> QED
    BY <1>1, <2>2, <2>3 DEF Capacity
<1>4. UNCHANGED <<Capacity, Honest>>
  BY <1>1 DEF Capacity, Honest
<1> QED
  BY <1>1, <1>2, <1>3, <1>4, SameMap, NothingPending, HeapRequest

\* Marking or splitting the chosen hole is the heap's grant.
LEMMA GrantSteps ==
  ASSUME AllInv, Place
  PROVE  HeapStep
<1>0. TypeInv /\ IndInv
  BY DEF AllInv
<1>1. /\ pc = "fit" /\ mapped /\ UNCHANGED <<mapped, totalWords, allocator>>
      /\ caller' = "none" /\ caller = "allocate"
  BY <1>0, PlaceFacts DEF Place, Return, IdleLocals, IndInv, RequestInProgress
<1>2. PICK i \in DOMAIN list :
         /\ list[i].isHole /\ list[i].offset \in Nat /\ list[i].length \in Nat
         /\ list[i].length >= words
         /\ list' = IF list[i].length > words THEN Split(i) ELSE Marked(i, FALSE)
  BY <1>0, PlaceFacts
<1> DEFINE s == list[i].offset
           f == [t \in DOMAIN BlockMap \union {s} |-> IF t = s THEN words ELSE BlockMap[t]]
<1>3. words \in Nat /\ words > 0 /\ WellTiled /\ i \in Holes /\ i \in 1 .. Len(list)
  BY <1>1, <1>2, FitFacts DEF Holes
<1>4. /\ list \in Seq(MemoryNode) /\ totalWords \in Nat
      /\ Tiles(list, totalWords) /\ InOrder(list, totalWords) /\ totalWords < U16
  BY <1>3 DEF WellTiled
<1>5. Used(list') = Used(list) \union {<<s, words>>}
  <2>1. CASE list[i].length > words
    BY <1>2, <1>3, <1>4, <2>1, SplitUsed
  <2>2. CASE ~ (list[i].length > words)
    <3>1. list[i].length = words
      BY <1>2, <1>3, <2>2
    <3> QED
      BY <1>2, <1>4, <2>2, <3>1, GrantedUsed
  <2> QED
    BY <2>1, <2>2
<1>6. \A b \in Used(list) : b[1] # s
  BY <1>3, <1>4, BlockAddresses
<1>7. /\ OneBlockPerOffset(Used(list))
      /\ DOMAIN BlockMap = {b[1] : b \in Used(list)}
      /\ \A b \in Used(list) : BlockMap[b[1]] = b[2]
  BY <1>3, BlockMapFacts
<1> HIDE DEF s
<1>8. BlockMap' = f
  <2>1. <<s, words>>[1] = s /\ <<s, words>>[2] = words
    OBVIOUS
  <2>2. OneBlockPerOffset(Used(list'))
    BY <1>5, <1>6, <1>7, <2>1 DEF OneBlockPerOffset
  <2>3. DOMAIN f = {b[1] : b \in Used(list')}
    BY <1>5, <1>7, <2>1
  <2>4. \A b \in Used(list') : f[b[1]] = b[2]
    BY <1>5, <1>6, <1>7, <2>1
  <2>5. f = [t \in DOMAIN f |-> f[t]]
    OBVIOUS
  <2> HIDE DEF f
  <2>6. MapOf(list') = f
    BY <2>2, <2>3, <2>4, <2>5, MapOfUsed
  <2> QED
    BY <2>6, MapOfList
<1>9. s \in 0 .. totalWords - 1 /\ s .. s + words - 1 \subseteq FreeWords
  <2>1. /\ s \in Nat /\ list[i].length \in Nat /\ list[i].length > 0
        /\ s + list[i].length <= totalWords /\ list[i].length >= words
    BY <1>2, <1>3, NodeFacts DEF s
  <2>2. s .. s + words - 1 \subseteq WordsOf(i)
    <3>1. WordsOf(i) = s .. s + list[i].length - 1
      BY DEF WordsOf, s
    <3> QED
      BY <1>3, <2>1, <3>1
  <2>3. WordsOf(i) \subseteq FreeWords
    BY <1>3 DEF FreeWords
  <2> QED
    BY <1>4, <2>1, <2>2, <2>3
<1>10. Capacity = totalWords /\ Pending = words /\ Pending' = 0
       /\ UNCHANGED <<Capacity, Honest>>
  BY <1>1 DEF Capacity, Pending, Honest
<1>11. Heap!FreeWords = FreeWords
  BY <1>1, <1>3, HeapFreeWords
<1>12. s .. s + Pending - 1 \subseteq Heap!FreeWords
  BY <1>9, <1>10, <1>11
<1>13. BlockMap' = [t \in DOMAIN BlockMap \union {s} |-> IF t = s THEN Pending ELSE BlockMap[t]]
  BY <1>8, <1>10
<1> QED
  BY <1>3, <1>9, <1>10, <1>12, <1>13, HeapGrant

\* A call that answers nullptr is the heap's refusal.
LEMMA RefuseSteps ==
  ASSUME AllInv, ReturnNull
  PROVE  HeapStep
<1>1. /\ pc = "fit" /\ caller' = "none"
      /\ UNCHANGED <<mapped, totalWords, list, allocator>>
  BY DEF ReturnNull, AllocatorReturned, Return, IdleLocals, manager
<1>2. caller = "allocate" /\ mapped
  BY <1>1 DEF AllInv, IndInv, RequestInProgress
<1>3. WellTiled /\ Coalesced /\ words \in Nat /\ words > 0
  BY <1>1, FitFacts
<1>4. Capacity = totalWords /\ Pending = words /\ Pending' = 0
      /\ UNCHANGED <<Capacity, Honest>>
  BY <1>1, <1>2 DEF Capacity, Pending, Honest
<1>5. Heap!FreeWords = FreeWords
  BY <1>2, <1>3, HeapFreeWords
<1>6. ASSUME Honest, NEW s \in 0 .. totalWords - 1, s .. s + words - 1 \subseteq FreeWords
      PROVE  FALSE
  <2>0. s \in Nat
    BY <1>3, <1>6 DEF WellTiled
  <2>1. \E i \in Holes : list[i].length >= words
    BY <1>3, <1>6, <2>0, FreeRunInOneHole
  <2> QED
    BY <1>6, <2>1, RefusedForLackOfHoles DEF Honest
<1>7. Honest => \A s \in 0 .. Capacity - 1 :
                   ~ (s .. s + Pending - 1 \subseteq Heap!FreeWords)
  BY <1>4, <1>5, <1>6
<1> QED
  BY <1>1, <1>3, <1>4, <1>7, SameMap, HeapRefuse

\* free unmarks one block, or none.
LEMMA FreeSteps ==
  ASSUME AllInv, NEW a \in Addresses, Free(a)
  PROVE  HeapStep
<1>1. /\ pc = "idle" /\ mapped
      /\ UNCHANGED <<mapped, totalWords, allocator, caller>>
      /\ (list' = list \/ \E i \in DOMAIN list : Freed(i, a) /\ list' = Marked(i, TRUE))
  BY DEF Free
<1>2. Pending = 0 /\ Pending' = 0 /\ UNCHANGED <<Capacity, Honest>>
  BY <1>1, NothingPending DEF Pending, Capacity, Honest
<1>3. CASE list' = list
  BY <1>2, <1>3, SameMap, HeapStutter
<1>4. CASE list' # list
  <2>1. PICK i \in DOMAIN list : Freed(i, a) /\ list' = Marked(i, TRUE)
    BY <1>1, <1>4
  <2> DEFINE s == list[i].offset
             old == <<s, list[i].length>>
             f == [t \in DOMAIN BlockMap \ {s} |-> BlockMap[t]]
  <2>2. WellTiled /\ ~ list[i].isHole
    BY <1>1, <2>1, MappedWellTiled DEF AllInv, Freed
  <2>3. Used(list') = Used(list) \ {old}
    BY <2>1, <2>2, FreedUsed DEF WellTiled
  <2>4. /\ OneBlockPerOffset(Used(list))
        /\ DOMAIN BlockMap = {b[1] : b \in Used(list)}
        /\ \A b \in Used(list) : BlockMap[b[1]] = b[2]
    BY <2>2, BlockMapFacts
  <2>5. old \in Used(list) /\ old[1] = s
    BY <2>2, UsedNode
  <2> HIDE DEF s, old
  <2>6. \A b \in Used(list) : b[1] = s <=> b = old
    BY <2>4, <2>5 DEF OneBlockPerOffset
  <2>7. BlockMap' = f
    <3>1. OneBlockPerOffset(Used(list'))
      BY <2>3, <2>4 DEF OneBlockPerOffset
    <3>2. DOMAIN f = {b[1] : b \in Used(list')}
      BY <2>3, <2>4, <2>6
    <3>3. \A b \in Used(list') : f[b[1]] = b[2]
      BY <2>3, <2>4, <2>6
    <3>4. f = [t \in DOMAIN f |-> f[t]]
      OBVIOUS
    <3> HIDE DEF f
    <3>5. MapOf(list') = f
      BY <3>1, <3>2, <3>3, <3>4, MapOfUsed
    <3> QED
      BY <3>5, MapOfList
  <2>8. s \in DOMAIN BlockMap
    BY <2>4, <2>5
  <2> QED
    BY <1>2, <2>7, <2>8, HeapFree
<1> QED
  BY <1>3, <1>4

\* Joining two holes is no step of the heap.
LEMMA MergeSteps ==
  ASSUME AllInv, MergeStep
  PROVE  HeapStep
<1>1. TypeInv /\ IndInv /\ pc = "merge"
      /\ UNCHANGED <<mapped, totalWords, allocator, caller>>
  BY DEF AllInv, MergeStep
<1>2. Used(list') = Used(list)
  BY <1>1, MergeStays
<1>3. mapped
  BY <1>1 DEF IndInv, RequestInProgress
<1>4. WellTiled
  BY <1>1, <1>3, MappedWellTiled
<1>5. BlockMap' = BlockMap
  <2>1. MapOf(list') = BlockMap
    BY <1>2, <1>4, BlockMapFacts, MapOfUsed
  <2> QED
    BY <2>1, MapOfList
<1>6. Pending = 0 /\ Pending' = 0 /\ UNCHANGED <<Capacity, Honest>>
  BY <1>1, NothingPending DEF Pending, Capacity, Honest
<1> QED
  BY <1>5, <1>6, HeapStutter

LEMMA EveryHeapStep ==
  ASSUME InputsFit, AllInv, [Next]_vars
  PROVE  HeapStep
<1>1. CASE UNCHANGED <<mapped, totalWords, list, allocator>> /\ Pending' = Pending
  <2>1. UNCHANGED <<Capacity, Honest>>
    BY <1>1 DEF Capacity, Honest
  <2> QED
    BY <1>1, <2>1, SameMap, HeapStutter
<1>2. ASSUME NEW size \in Sizes, NEW outcome \in DevZero, NEW granted \in Grants,
             Initialize(size, outcome, granted)
      PROVE  HeapStep
  <2>1. /\ pc = "idle" /\ UNCHANGED <<allocator, caller>> /\ totalWords' = size
        /\ mapped' \in BOOLEAN /\ mapped \in BOOLEAN
    BY <1>2, Inputs DEF Initialize, locals, AllInv, TypeInv, TypeOK
  <2>2. \A i \in DOMAIN list' : list'[i].isHole
    <3>1. CASE mapped'
      <4>1. list' = << [offset |-> 0, length |-> size % U16, isHole |-> TRUE] >>
        BY <1>2, <3>1 DEF Initialize, GenerateInitialNode
      <4> QED
        BY <4>1
    <3>2. CASE ~ mapped'
      <4>1. list' = IF mapped THEN <<>> ELSE list
        BY <1>2, <3>2 DEF Initialize
      <4>2. ~ mapped => list = <<>>
        BY DEF AllInv, IndInv, ListTilesMemory
      <4>3. list' = <<>>
        BY <4>1, <4>2
      <4> QED
        BY <4>3
    <3> QED
      BY <3>1, <3>2
  <2> QED
    BY <2>1, <2>2, Inputs, ResetSteps
<1>3. CASE Shutdown
  <2>1. list' = <<>> /\ pc = "idle" /\ totalWords' = 0 /\ UNCHANGED <<allocator, caller>>
    BY <1>3 DEF Shutdown, locals
  <2>2. \A i \in DOMAIN list' : list'[i].isHole
    BY <2>1
  <2> QED
    BY <2>1, <2>2, ResetSteps
<1>4. ASSUME NEW a \in Allocators, SetAllocator(a) PROVE HeapStep
  <2>1. pc = "idle" /\ UNCHANGED <<mapped, totalWords, list, caller>>
    BY <1>4 DEF SetAllocator, locals
  <2>2. Pending = 0 /\ Pending' = 0 /\ UNCHANGED Capacity
    BY <2>1, NothingPending DEF Pending, Capacity
  <2> QED
    BY <2>1, <2>2, SameMap, HeapSetAllocator
<1>5. ASSUME NEW n \in Requests, Allocate(n) PROVE HeapStep
  BY <1>5, RequestSteps
<1>6. ASSUME NEW a \in Addresses, Free(a) PROVE HeapStep
  BY <1>6, FreeSteps
<1>7. CASE UNCHANGED vars
  <2>1. Pending' = Pending
    BY <1>7 DEF vars, locals, Pending
  <2> QED
    BY <1>1, <1>7, <2>1 DEF vars, manager
<1>8. CASE DumpOpenFails
  <2>1. Pending' = Pending
    BY <1>8 DEF DumpOpenFails, locals, Pending
  <2> QED
    BY <1>1, <1>8, <2>1 DEF DumpOpenFails, manager
<1>9. CASE Dump
  <2>1. Pending = 0 /\ Pending' = 0
    <3>1. pc = "idle" /\ (UNCHANGED caller \/ caller' = "dump")
      BY <1>9 DEF Dump, StartGetList, locals
    <3> QED
      BY <3>1, NothingPending DEF Pending
  <2> QED
    BY <1>1, <1>9, <2>1 DEF Dump, manager
<1>10. CASE GetListStep \/ GetListReturn \/ FitStep \/ CustomFit
  <2>1. UNCHANGED <<manager, caller, words>>
    BY <1>10 DEF GetListStep, GetListReturn, FitStep, CustomFit
  <2>2. Pending' = Pending
    BY <2>1 DEF Pending
  <2> QED
    BY <1>1, <2>1, <2>2 DEF manager
<1>11. CASE FreeReturn \/ DumpWrite
  <2>1. UNCHANGED manager /\ pc \in {"merge", "write"} /\ caller' = "none"
    BY <1>11 DEF FreeReturn, DumpWrite, Return, IdleLocals
  <2>2. Pending = 0 /\ Pending' = 0
    BY <2>1, NothingPending DEF Pending
  <2> QED
    BY <1>1, <2>1, <2>2 DEF manager
<1>12. CASE Place
  BY <1>12, GrantSteps
<1>13. CASE ReturnNull
  BY <1>13, RefuseSteps
<1>14. CASE MergeStep
  BY <1>14, MergeSteps
<1> QED
  BY <1>2, <1>3, <1>4, <1>5, <1>6, <1>7, <1>8, <1>9, <1>10, <1>11, <1>12, <1>13, <1>14
     DEF Next, Call, Run, AllocateNothing, FreeNothing

\* The manager's list, holes, cursors and allocators are an implementation of
\* the abstract heap: allocate grants free words and refuses, with an honest
\* allocator, only when no run of them is long enough; free gives back one
\* block; nothing else changes what the client holds.
THEOREM ImplementsHeap == ASSUME InputsFit PROVE Spec => HeapSpec
<1>1. Init => Heap!Init
  <2> SUFFICES ASSUME Init PROVE Heap!Init
    OBVIOUS
  <2>1. list = <<>> /\ mapped = FALSE /\ caller = "none"
    BY DEF Init
  <2>2. \A i \in DOMAIN list : list[i].isHole
    BY <2>1
  <2>3. BlockMap = [s \in {} |-> 0]
    BY <2>2, MapOfList, NoBlockNoMap
  <2>4. Capacity = 0 /\ Pending = 0 /\ Honest \in BOOLEAN
    BY <2>1 DEF Capacity, Pending, Honest
  <2> QED
    BY <2>3, <2>4, Zenon DEF Heap!Init, Capacity, BlockMap, Honest, Pending
<1>2. AllInv /\ [Next]_vars => [Heap!Next]_(Heap!vars)
  BY EveryHeapStep DEF HeapStep
<1>3. Spec => []AllInv
  BY Invariants
<1>4. Spec => Heap!Init /\ [][Heap!Next]_(Heap!vars)
  BY <1>1, <1>2, <1>3, PTL DEF Spec
<1> QED
  BY <1>4 DEF HeapSpec, Heap!Spec
=============================================================================
