----------------------------- MODULE WadProofs ------------------------------
(***************************************************************************)
(* Theorems about libWad, for any WAD files, paths and buffers, any sizes, *)
(* crashes at any point, writes that fall short and torn lists.            *)
(***************************************************************************)
EXTENDS Wad, TLAPS, WellFoundedInduction

-----------------------------------------------------------------------------
(* Induction over an interval of the natural numbers, and what it says of  *)
(* functions defined by recursion over one.  The induction theorems of the *)
(* library take an operator, which the provers cannot instantiate: here    *)
(* the induction is over a set, and a recursive definition is given by a   *)
(* function from a value and an index to the next value.                   *)

\* The least number of a set.
LEMMA Least ==
  ASSUME NEW S \in SUBSET Nat, S # {}
  PROVE  \E n \in S : \A m \in S : n <= m
<1>1. PICK n \in S : \A m \in S : ~ (<<m, n>> \in OpToRel(<, Nat))
  BY WFMin, NatLessThanWellFounded, Zenon
<1>2. \A m \in S : ~ (m < n)
  BY <1>1 DEF OpToRel
<1> QED
  BY <1>2

\* A set of numbers with 0 and, below n, every successor holds 0 .. n.
THEOREM IntervalInduction ==
  ASSUME NEW n \in Nat, NEW S, 0 \in S, \A k \in 0 .. n - 1 : k \in S => k + 1 \in S
  PROVE  0 .. n \subseteq S
<1> DEFINE T == {k \in 0 .. n : k \notin S}
<1> SUFFICES ASSUME T # {} PROVE FALSE
  OBVIOUS
<1>1. T \in SUBSET Nat
  OBVIOUS
<1>2. PICK x \in T : \A y \in T : x <= y
  <2> HIDE DEF T
  <2> QED
    BY <1>1, Least
<1>3. \A y \in T : ~ (y < x)
  BY <1>1, <1>2
<1>4. x # 0 /\ x - 1 \in 0 .. n - 1
  OBVIOUS
<1>5. x - 1 \in S
  BY <1>3, <1>4
<1> QED
  BY <1>4, <1>5

\* A function that gives the first value and every next one is the
\* recursive function, as far as it is computed.
Computes(f, n, first, next) ==
    f = [k \in 0 .. n |-> IF k = 0 THEN first ELSE next[k][f[k - 1]]]

THEOREM RecursionExists ==
  ASSUME NEW n \in Nat, NEW V, NEW first \in V, NEW next \in [1 .. n -> [V -> V]]
  PROVE  \E f \in [0 .. n -> V] : Computes(f, n, first, next)
<1> DEFINE S == {m \in 0 .. n : \E f \in [0 .. m -> V] : Computes(f, m, first, next)}
<1>1. 0 \in S
  <2> DEFINE f == [k \in 0 .. 0 |-> first]
  <2>1. f \in [0 .. 0 -> V] /\ Computes(f, 0, first, next)
    BY DEF Computes
  <2> QED
    BY <2>1
<1>2. ASSUME NEW m \in 0 .. n - 1, m \in S PROVE m + 1 \in S
  <2>1. PICK f \in [0 .. m -> V] : Computes(f, m, first, next)
    BY <1>2
  <2> DEFINE g == [k \in 0 .. m + 1 |-> IF k = m + 1 THEN next[m + 1][f[m]] ELSE f[k]]
  <2>2. next[m + 1][f[m]] \in V
    BY <2>1
  <2>3. g \in [0 .. m + 1 -> V]
    BY <2>1, <2>2
  <2>4. ASSUME NEW k \in 0 .. m + 1
        PROVE  g[k] = IF k = 0 THEN first ELSE next[k][g[k - 1]]
    <3>1. CASE k = m + 1
      BY <3>1
    <3>2. CASE k # m + 1
      <4>1. k \in 0 .. m /\ g[k] = f[k] /\ (k # 0 => k - 1 \in 0 .. m /\ g[k - 1] = f[k - 1])
        BY <3>2
      <4>2. f[k] = IF k = 0 THEN first ELSE next[k][f[k - 1]]
        BY <2>1, <4>1 DEF Computes
      <4> QED
        BY <4>1, <4>2
    <3> QED
      BY <3>1, <3>2
  <2>5. Computes(g, m + 1, first, next)
    BY <2>3, <2>4 DEF Computes
  <2>6. m + 1 \in 0 .. n
    OBVIOUS
  <2> HIDE DEF g
  <2> QED
    BY <2>3, <2>5, <2>6
<1>3. n \in S
  <2> HIDE DEF S
  <2>1. \A m \in 0 .. n - 1 : m \in S => m + 1 \in S
    BY <1>2
  <2>2. 0 .. n \subseteq S
    BY <1>1, <2>1, IntervalInduction
  <2> QED
    BY <2>2
<1> QED
  BY <1>3

-----------------------------------------------------------------------------
(* Cells                                                                   *)

LEMMA CellKinds ==
  ASSUME NEW d, NEW k, NEW b
  PROVE  /\ DOMAIN Part(d, k) = {"desc", "part"} /\ "desc" \in DOMAIN Part(d, k)
         /\ Part(d, k).desc = d /\ Part(d, k).part = k
         /\ "desc" \notin DOMAIN Byte(b) /\ IsCell(Byte(b))
BY DEF Part, Byte, IsCell

-----------------------------------------------------------------------------
(* What parse makes of a list                                              *)

\* The states parse can be in.
ParseStates ==
    {p \in [nodes : Seq(Nodes), cur : Nat, left : Nat, failed : BOOLEAN] :
        /\ Len(p.nodes) > 0
        /\ p.cur <= Len(p.nodes)
        /\ \A n \in DOMAIN p.nodes : p.nodes[n].parent < n}

ParseStart(count) ==
    [nodes |-> << RootNode(count) >>, cur |-> Root, left |-> 0, failed |-> FALSE]

LEMMA PlainIsName == ASSUME NEW name \in Names PROVE Plain(name.base) \in Names
BY DEF Names, Plain, Marked

\* A directory or a file found at index i becomes the last node.
LEMMA Appended ==
  ASSUME NEW p \in ParseStates, NEW node \in Nodes, node.parent <= Len(p.nodes)
  PROVE  /\ Append(p.nodes, node) \in Seq(Nodes)
         /\ Len(Append(p.nodes, node)) = Len(p.nodes) + 1
         /\ \A n \in DOMAIN p.nodes : Append(p.nodes, node)[n] = p.nodes[n]
         /\ Append(p.nodes, node)[Len(p.nodes) + 1] = node
         /\ \A n \in DOMAIN Append(p.nodes, node) : Append(p.nodes, node)[n].parent < n
<1>1. p.nodes \in Seq(Nodes)
  BY DEF ParseStates
<1>2. /\ Append(p.nodes, node) \in Seq(Nodes)
      /\ Len(Append(p.nodes, node)) = Len(p.nodes) + 1
      /\ \A n \in DOMAIN p.nodes : Append(p.nodes, node)[n] = p.nodes[n]
      /\ Append(p.nodes, node)[Len(p.nodes) + 1] = node
  BY <1>1
<1>3. ASSUME NEW n \in DOMAIN Append(p.nodes, node)
      PROVE  Append(p.nodes, node)[n].parent < n
  <2>1. n \in DOMAIN p.nodes \/ n = Len(p.nodes) + 1
    BY <1>1, <1>2
  <2>2. node.parent \in Nat /\ Len(p.nodes) \in Nat
    BY <1>1 DEF Nodes
  <2> QED
    BY <1>2, <2>1, <2>2 DEF ParseStates
<1> QED
  BY <1>2, <1>3

\* What a step of parse does with a descriptor.
Opens(p, d) == p.left = 0 /\ d.name.mark \in {"map", "start"}
Closes(p, d) == p.left = 0 /\ d.name.mark = "end"
DirName(d) == IF d.name.mark = "map" THEN d.name ELSE Plain(d.name.base)

State(nodes, cur, left, failed) ==
    [nodes |-> nodes, cur |-> cur, left |-> left, failed |-> failed]
Opened(p, i, d) ==
    State(Append(p.nodes, DirNode(DirName(d), p.cur, i, 0)), Len(p.nodes) + 1,
          IF d.name.mark = "map" THEN MapElements ELSE 0, p.failed)
Closed(p, i) ==
    State([p.nodes EXCEPT ![p.cur].end = i], p.nodes[p.cur].parent, p.left, p.failed)
Filed(p, i, d) ==
    State(Append(p.nodes, FileNode(d, p.cur, i)),
          IF p.left = 1 THEN p.nodes[p.cur].parent ELSE p.cur,
          IF p.left > 0 THEN p.left - 1 ELSE 0, p.failed)

EndSet(nodes, n, i) == [nodes EXCEPT ![n].end = i]

IsState(p) == p = State(p.nodes, p.cur, p.left, p.failed)

LEMMA StateFields ==
  ASSUME NEW nodes, NEW cur, NEW left, NEW failed
  PROVE  LET p == State(nodes, cur, left, failed)
         IN  /\ IsState(p)
             /\ p.nodes = nodes /\ p.cur = cur /\ p.left = left /\ p.failed = failed
BY DEF State, IsState

LEMMA FieldReplaced ==
  ASSUME NEW p, IsState(p), NEW x
  PROVE  /\ [p EXCEPT !.nodes = x] = State(x, p.cur, p.left, p.failed)
         /\ [p EXCEPT !.cur = x] = State(p.nodes, x, p.left, p.failed)
         /\ [p EXCEPT !.left = x] = State(p.nodes, p.cur, x, p.failed)
         /\ [p EXCEPT !.failed = x] = State(p.nodes, p.cur, p.left, x)
BY DEF IsState, State

LEMMA FieldsReplaced ==
  ASSUME NEW p, IsState(p), NEW nodes, NEW cur, NEW left
  PROVE  /\ [p EXCEPT !.nodes = nodes, !.cur = cur] = State(nodes, cur, p.left, p.failed)
         /\ [p EXCEPT !.nodes = nodes, !.cur = cur, !.left = left]
               = State(nodes, cur, left, p.failed)
<1> DEFINE q == [p EXCEPT !.nodes = nodes]
           r == [q EXCEPT !.cur = cur]
<1>1. q = State(nodes, p.cur, p.left, p.failed)
  BY FieldReplaced
<1>2. IsState(q) /\ q.nodes = nodes /\ q.left = p.left /\ q.failed = p.failed
  <2> HIDE DEF q
  <2> QED
    BY <1>1, StateFields
<1>3. r = State(nodes, cur, p.left, p.failed)
  <2> HIDE DEF q
  <2>1. r = State(q.nodes, cur, q.left, q.failed)
    BY <1>2, FieldReplaced, Zenon
  <2> QED
    BY <1>2, <2>1, Zenon
<1>4. IsState(r) /\ r.nodes = nodes /\ r.cur = cur /\ r.left = p.left /\ r.failed = p.failed
  <2> HIDE DEF q, r
  <2> QED
    BY <1>3, StateFields
<1>5. [r EXCEPT !.left = left] = State(nodes, cur, left, p.failed)
  <2> HIDE DEF q, r
  <2>1. [r EXCEPT !.left = left] = State(r.nodes, r.cur, left, r.failed)
    BY <1>4, FieldReplaced, Zenon
  <2> QED
    BY <1>4, <2>1, Zenon
<1>6. [p EXCEPT !.nodes = nodes, !.cur = cur] = r
  OBVIOUS
<1>7. [p EXCEPT !.nodes = nodes, !.cur = cur, !.left = left] = [r EXCEPT !.left = left]
  OBVIOUS
<1> QED
  BY <1>3, <1>5, <1>6, <1>7, Zenon

LEMMA StepKinds ==
  ASSUME NEW p, IsState(p), NEW i, NEW d
  PROVE  /\ p.cur = 0 => ParseStep(p, i, d) = State(p.nodes, p.cur, p.left, TRUE)
         /\ p.cur # 0 /\ Opens(p, d) => ParseStep(p, i, d) = Opened(p, i, d)
         /\ p.cur # 0 /\ Closes(p, d) => ParseStep(p, i, d) = Closed(p, i)
         /\ p.cur # 0 /\ ~ Opens(p, d) /\ ~ Closes(p, d) =>
               ParseStep(p, i, d) = Filed(p, i, d)
<1>1. ASSUME p.cur = 0 PROVE ParseStep(p, i, d) = State(p.nodes, p.cur, p.left, TRUE)
  <2>1. ParseStep(p, i, d) = [p EXCEPT !.failed = TRUE]
    BY <1>1, Zenon DEF ParseStep
  <2> QED
    BY <2>1, FieldReplaced, Zenon
<1>2. ASSUME p.cur # 0, Opens(p, d) PROVE ParseStep(p, i, d) = Opened(p, i, d)
  <2>1. ParseStep(p, i, d) =
           [p EXCEPT !.nodes = Append(@, DirNode(DirName(d), p.cur, i, 0)),
                     !.cur = Len(p.nodes) + 1,
                     !.left = IF d.name.mark = "map" THEN MapElements ELSE 0]
    BY <1>2, Zenon DEF ParseStep, Opens, DirName
  <2> QED
    BY <2>1, FieldsReplaced, Zenon DEF Opened
<1>3. ASSUME p.cur # 0, Closes(p, d) PROVE ParseStep(p, i, d) = Closed(p, i)
  <2>1. ~ Opens(p, d)
    BY <1>3 DEF Opens, Closes
  <2>2. ParseStep(p, i, d) =
           [p EXCEPT !.nodes[p.cur].end = i, !.cur = p.nodes[p.cur].parent]
    BY <1>3, <2>1, Zenon DEF ParseStep, Opens, Closes
  <2> QED
    BY <2>2, FieldsReplaced, Zenon DEF Closed
<1>4. ASSUME p.cur # 0, ~ Opens(p, d), ~ Closes(p, d) PROVE ParseStep(p, i, d) = Filed(p, i, d)
  <2>1. ParseStep(p, i, d) =
           [p EXCEPT !.nodes = Append(@, FileNode(d, p.cur, i)),
                     !.cur = IF p.left = 1 THEN p.nodes[p.cur].parent ELSE @,
                     !.left = IF @ > 0 THEN @ - 1 ELSE 0]
    BY <1>4, Zenon DEF ParseStep, Opens, Closes
  <2>2. @ = State(Append(p.nodes, FileNode(d, p.cur, i)),
                  IF p.left = 1 THEN p.nodes[p.cur].parent ELSE p.cur,
                  IF p.left > 0 THEN p.left - 1 ELSE 0, p.failed)
    BY FieldsReplaced, Zenon
  <2> QED
    BY <2>1, <2>2, Zenon DEF Filed
<1> QED
  BY <1>1, <1>2, <1>3, <1>4, Zenon

\* The fields of the state after a step.
LEMMA StepFields ==
  ASSUME NEW p, IsState(p), NEW i, NEW d
  PROVE  LET q == ParseStep(p, i, d)
         IN  /\ p.cur = 0 =>
                   /\ q.nodes = p.nodes /\ q.cur = p.cur /\ q.left = p.left /\ q.failed
             /\ p.cur # 0 => q.failed = p.failed
             /\ p.cur # 0 /\ Opens(p, d) =>
                   /\ q.nodes = Append(p.nodes, DirNode(DirName(d), p.cur, i, 0))
                   /\ q.cur = Len(p.nodes) + 1
                   /\ q.left = IF d.name.mark = "map" THEN MapElements ELSE 0
             /\ p.cur # 0 /\ Closes(p, d) =>
                   /\ q.nodes = EndSet(p.nodes, p.cur, i)
                   /\ q.cur = p.nodes[p.cur].parent
                   /\ q.left = p.left
             /\ p.cur # 0 /\ ~ Opens(p, d) /\ ~ Closes(p, d) =>
                   /\ q.nodes = Append(p.nodes, FileNode(d, p.cur, i))
                   /\ q.cur = IF p.left = 1 THEN p.nodes[p.cur].parent ELSE p.cur
                   /\ q.left = IF p.left > 0 THEN p.left - 1 ELSE 0
<1> DEFINE q == ParseStep(p, i, d)
<1>1. ASSUME p.cur = 0
      PROVE  q.nodes = p.nodes /\ q.cur = p.cur /\ q.left = p.left /\ q.failed = TRUE
  <2>1. q = State(p.nodes, p.cur, p.left, TRUE)
    BY <1>1, StepKinds, Zenon
  <2> HIDE DEF q
  <2>2. \A x : LET s == State(p.nodes, p.cur, p.left, x)
               IN  s.nodes = p.nodes /\ s.cur = p.cur /\ s.left = p.left /\ s.failed = x
    BY StateFields
  <2> QED
    BY <2>1, <2>2, Zenon
<1>2. ASSUME p.cur # 0, Opens(p, d)
      PROVE  /\ q.nodes = Append(p.nodes, DirNode(DirName(d), p.cur, i, 0))
             /\ q.cur = Len(p.nodes) + 1
             /\ q.left = IF d.name.mark = "map" THEN MapElements ELSE 0
             /\ q.failed = p.failed
  <2> DEFINE nodes == Append(p.nodes, DirNode(DirName(d), p.cur, i, 0))
             cur == Len(p.nodes) + 1
             left == IF d.name.mark = "map" THEN MapElements ELSE 0
  <2>1. q = State(nodes, cur, left, p.failed)
    BY <1>2, StepKinds, Zenon DEF Opened
  <2> HIDE DEF nodes, cur, left, q
  <2>2. q.nodes = nodes /\ q.cur = cur /\ q.left = left /\ q.failed = p.failed
    BY <2>1, StateFields
  <2> QED
    BY <2>2 DEF nodes, cur, left
<1>3. ASSUME p.cur # 0, Closes(p, d)
      PROVE  /\ q.nodes = EndSet(p.nodes, p.cur, i)
             /\ q.cur = p.nodes[p.cur].parent
             /\ q.left = p.left
             /\ q.failed = p.failed
  <2> DEFINE nodes == [p.nodes EXCEPT ![p.cur].end = i]
             cur == p.nodes[p.cur].parent
             left == p.left
  <2>1. q = State(nodes, cur, left, p.failed)
    BY <1>3, StepKinds, Zenon DEF Closed
  <2> HIDE DEF nodes, cur, left, q
  <2>2. q.nodes = nodes /\ q.cur = cur /\ q.left = left /\ q.failed = p.failed
    BY <2>1, StateFields
  <2> QED
    BY <2>2 DEF nodes, cur, left, EndSet
<1>4. ASSUME p.cur # 0, ~ Opens(p, d), ~ Closes(p, d)
      PROVE  /\ q.nodes = Append(p.nodes, FileNode(d, p.cur, i))
             /\ q.cur = IF p.left = 1 THEN p.nodes[p.cur].parent ELSE p.cur
             /\ q.left = IF p.left > 0 THEN p.left - 1 ELSE 0
             /\ q.failed = p.failed
  <2> DEFINE nodes == Append(p.nodes, FileNode(d, p.cur, i))
             cur == IF p.left = 1 THEN p.nodes[p.cur].parent ELSE p.cur
             left == IF p.left > 0 THEN p.left - 1 ELSE 0
  <2>1. q = State(nodes, cur, left, p.failed)
    BY <1>4, StepKinds, Zenon DEF Filed
  <2> HIDE DEF nodes, cur, left, q
  <2>2. q.nodes = nodes /\ q.cur = cur /\ q.left = left /\ q.failed = p.failed
    BY <2>1, StateFields
  <2> QED
    BY <2>2 DEF nodes, cur, left
<1> QED
  BY <1>1, <1>2, <1>3, <1>4, Zenon

LEMMA ParseStatesAreStates == ASSUME NEW p \in ParseStates PROVE IsState(p)
BY DEF ParseStates, IsState, State

LEMMA EndReplaced ==
  ASSUME NEW node \in Nodes, NEW i \in Nat
  PROVE  LET new == [node EXCEPT !.end = i]
         IN  /\ new \in Nodes /\ new.end = i
             /\ new.name = node.name /\ new.isDir = node.isDir /\ new.parent = node.parent
             /\ new.offset = node.offset /\ new.length = node.length /\ new.start = node.start
BY DEF Nodes

LEMMA StepKeepsStates ==
  ASSUME NEW p \in ParseStates, NEW i \in Nat, NEW d \in Descriptors
  PROVE  ParseStep(p, i, d) \in ParseStates
<1>1. p.nodes \in Seq(Nodes) /\ p.cur \in Nat /\ p.left \in Nat /\ p.failed \in BOOLEAN
  BY DEF ParseStates
<1>2. Len(p.nodes) > 0 /\ p.cur <= Len(p.nodes)
      /\ \A n \in DOMAIN p.nodes : p.nodes[n].parent < n
  BY DEF ParseStates
<1>3. Len(p.nodes) \in Nat /\ DOMAIN p.nodes = 1 .. Len(p.nodes)
  BY <1>1
<1>4. ASSUME p.cur # 0
      PROVE  /\ p.cur \in DOMAIN p.nodes /\ p.nodes[p.cur] \in Nodes
             /\ p.nodes[p.cur].parent \in Nat
             /\ p.nodes[p.cur].parent < p.cur
  <2>1. p.cur \in DOMAIN p.nodes
    BY <1>1, <1>2, <1>3, <1>4
  <2>2. p.nodes[p.cur] \in Nodes
    BY <1>1, <2>1
  <2> QED
    BY <1>2, <2>1, <2>2 DEF Nodes
<1>5. MapElements \in Nat
  BY SizesAssumption
<1>6. CASE p.cur = 0
  <2>1. ParseStep(p, i, d) = State(p.nodes, p.cur, p.left, TRUE)
    BY <1>6, ParseStatesAreStates, StepKinds
  <2>2. State(p.nodes, p.cur, p.left, TRUE) \in ParseStates
    BY <1>1, <1>2 DEF ParseStates, State
  <2> QED
    BY <2>1, <2>2
<1>7. CASE p.cur # 0 /\ Opens(p, d)
  <2> DEFINE node == DirNode(DirName(d), p.cur, i, 0)
  <2>1. node \in Nodes /\ node.parent = p.cur
    BY <1>1, PlainIsName DEF Nodes, DirNode, DirName, Descriptors
  <2> HIDE DEF node
  <2>2. Opened(p, i, d) \in ParseStates
    <3> DEFINE q == Opened(p, i, d)
    <3>1. /\ q = State(q.nodes, q.cur, q.left, p.failed)
          /\ q.nodes = Append(p.nodes, node)
          /\ q.cur = Len(p.nodes) + 1 /\ q.left \in Nat
      BY <1>1, <1>5 DEF Opened, State, node
    <3> HIDE DEF q
    <3>2. /\ q.nodes \in Seq(Nodes) /\ Len(q.nodes) = Len(p.nodes) + 1
          /\ \A n \in DOMAIN q.nodes : q.nodes[n].parent < n
      BY <1>2, <2>1, <3>1, Appended
    <3>3. q.cur \in Nat /\ Len(q.nodes) > 0 /\ q.cur <= Len(q.nodes)
      BY <1>3, <3>1, <3>2
    <3>4. State(q.nodes, q.cur, q.left, p.failed) \in ParseStates
      BY <1>1, <3>1, <3>2, <3>3 DEF ParseStates, State
    <3> QED
      BY <3>1, <3>4, Zenon DEF q
  <2> QED
    BY <1>7, <2>2, ParseStatesAreStates, StepKinds
<1>8. CASE p.cur # 0 /\ ~ Opens(p, d) /\ Closes(p, d)
  <2> DEFINE nodes == [p.nodes EXCEPT ![p.cur].end = i]
  <2>1. p.cur \in DOMAIN p.nodes /\ [p.nodes[p.cur] EXCEPT !.end = i] \in Nodes
    BY <1>4, <1>8, EndReplaced
  <2>2. nodes \in Seq(Nodes) /\ Len(nodes) = Len(p.nodes)
    BY <1>1, <2>1
  <2>3. \A n \in DOMAIN nodes : nodes[n].parent = p.nodes[n].parent
    BY <1>1, <2>1, <1>4 DEF Nodes
  <2>4. \A n \in DOMAIN nodes : nodes[n].parent < n
    BY <1>2, <1>3, <2>2, <2>3
  <2> HIDE DEF nodes
  <2>5. State(nodes, p.nodes[p.cur].parent, p.left, p.failed) \in ParseStates
    BY <1>1, <1>2, <1>3, <1>4, <1>8, <2>2, <2>4 DEF ParseStates, State
  <2> QED
    BY <1>8, <2>5, ParseStatesAreStates, StepKinds DEF Closed, nodes
<1>9. CASE p.cur # 0 /\ ~ Opens(p, d) /\ ~ Closes(p, d)
  <2> DEFINE node == FileNode(d, p.cur, i)
  <2>1. node \in Nodes /\ node.parent = p.cur
    BY <1>1 DEF Nodes, FileNode, Descriptors
  <2> HIDE DEF node
  <2>2. Filed(p, i, d) \in ParseStates
    <3> DEFINE q == Filed(p, i, d)
    <3>1. /\ q = State(q.nodes, q.cur, q.left, p.failed)
          /\ q.nodes = Append(p.nodes, node)
          /\ q.cur \in Nat /\ q.cur <= Len(p.nodes)
          /\ q.left \in Nat
      BY <1>1, <1>2, <1>3, <1>4, <1>9 DEF Filed, State, node
    <3> HIDE DEF q
    <3>2. /\ q.nodes \in Seq(Nodes) /\ Len(q.nodes) = Len(p.nodes) + 1
          /\ \A n \in DOMAIN q.nodes : q.nodes[n].parent < n
      BY <1>2, <2>1, <3>1, Appended
    <3>3. q.cur \in Nat /\ Len(q.nodes) > 0 /\ q.cur <= Len(q.nodes)
      BY <1>3, <3>1, <3>2
    <3>4. State(q.nodes, q.cur, q.left, p.failed) \in ParseStates
      BY <1>1, <3>1, <3>2, <3>3 DEF ParseStates, State
    <3> QED
      BY <3>1, <3>4, Zenon DEF q
  <2> QED
    BY <1>9, <2>2, ParseStatesAreStates, StepKinds
<1> QED
  BY <1>6, <1>7, <1>8, <1>9

LEMMA StartIsState == ASSUME NEW count \in Nat PROVE ParseStart(count) \in ParseStates
<1>1. Plain("/") \in Names
  BY DEF Plain, Marked, Names, Bases
<1>2. RootNode(count) \in Nodes /\ RootNode(count).parent = 0
  BY <1>1 DEF RootNode, DirNode, Nodes
<1> DEFINE nodes == << RootNode(count) >>
<1>3. nodes \in Seq(Nodes) /\ Len(nodes) = 1 /\ nodes[1].parent = 0
  BY <1>2
<1> HIDE DEF nodes
<1> QED
  BY <1>3 DEF ParseStart, ParseStates, Root, nodes

\* The states parse goes through: f[n] after the first n descriptors.
IsParse(f, list, count) ==
    /\ f \in [0 .. Len(list) -> ParseStates]
    /\ f[0] = ParseStart(count)
    /\ \A n \in 1 .. Len(list) : f[n] = ParseStep(f[n - 1], n - 1, list[n])
    /\ Parse(list, count) = f[Len(list)]

LEMMA ParseRuns ==
  ASSUME NEW list \in Seq(Descriptors), NEW count \in Nat
  PROVE  \E f : IsParse(f, list, count)
<1> DEFINE next == [n \in 1 .. Len(list) |-> [p \in ParseStates |-> ParseStep(p, n - 1, list[n])]]
           inline(f) == [n \in 0 .. Len(list) |->
               IF n = 0 THEN [nodes |-> << RootNode(count) >>, cur |-> Root,
                              left |-> 0, failed |-> FALSE]
               ELSE CHOOSE q \in {ParseStep(p, n - 1, list[n]) : p \in {f[n - 1]}} : TRUE]
           prefix == CHOOSE f : f = inline(f)
<1>1. Len(list) \in Nat /\ \A n \in 1 .. Len(list) : list[n] \in Descriptors /\ n - 1 \in Nat
  OBVIOUS
<1>2. next \in [1 .. Len(list) -> [ParseStates -> ParseStates]]
  BY <1>1, StepKeepsStates
<1>3. PICK f \in [0 .. Len(list) -> ParseStates] : Computes(f, Len(list), ParseStart(count), next)
  <2> HIDE DEF next
  <2> QED
    BY <1>1, <1>2, StartIsState, RecursionExists
<1>4. \A x : (CHOOSE q \in {x} : TRUE) = x
  OBVIOUS
<1>5. ASSUME NEW g, NEW n
      PROVE  (CHOOSE q \in {ParseStep(p, n - 1, list[n]) : p \in {g[n - 1]}} : TRUE)
                = ParseStep(g[n - 1], n - 1, list[n])
  <2>1. {ParseStep(p, n - 1, list[n]) : p \in {g[n - 1]}} = {ParseStep(g[n - 1], n - 1, list[n])}
    OBVIOUS
  <2> QED
    BY <1>4, <2>1
<1>6. f = inline(f)
  <2>1. ASSUME NEW n \in 0 .. Len(list) PROVE f[n] = inline(f)[n]
    <3>1. f[n] = IF n = 0 THEN ParseStart(count) ELSE next[n][f[n - 1]]
      BY <1>3 DEF Computes
    <3>2. n # 0 => n \in 1 .. Len(list) /\ f[n - 1] \in ParseStates
      BY <1>1
    <3>3. n # 0 => next[n][f[n - 1]] = ParseStep(f[n - 1], n - 1, list[n])
      BY <3>2
    <3> QED
      BY <3>1, <3>3, <1>5 DEF ParseStart
  <2> QED
    BY <2>1
<1> HIDE DEF next
<1>7. prefix = inline(prefix)
  BY <1>6
<1>8. Parse(list, count) = prefix[Len(list)]
  BY DEF Parse
<1> HIDE DEF prefix
<1>9. prefix[0] = ParseStart(count)
  BY <1>1, <1>7 DEF ParseStart
<1>10. \A n \in 1 .. Len(list) : prefix[n] = ParseStep(prefix[n - 1], n - 1, list[n])
  <2> SUFFICES ASSUME NEW n \in 1 .. Len(list)
               PROVE  prefix[n] = ParseStep(prefix[n - 1], n - 1, list[n])
    OBVIOUS
  <2>1. n \in 0 .. Len(list) /\ n # 0
    BY <1>1
  <2>2. prefix[n] = CHOOSE q \in {ParseStep(p, n - 1, list[n]) : p \in {prefix[n - 1]}} : TRUE
    BY <1>7, <2>1
  <2> QED
    BY <1>5, <2>2, Zenon
<1>11. \A n \in 0 .. Len(list) : prefix[n] \in ParseStates
  <2> DEFINE S == {n \in 0 .. Len(list) : prefix[n] \in ParseStates}
  <2>1. 0 \in S
    BY <1>1, <1>9, StartIsState
  <2>2. \A n \in 0 .. Len(list) - 1 : n \in S => n + 1 \in S
    <3> SUFFICES ASSUME NEW n \in 0 .. Len(list) - 1, n \in S PROVE n + 1 \in S
      OBVIOUS
    <3>1. n + 1 \in 1 .. Len(list) /\ (n + 1) - 1 = n
      BY <1>1
    <3>2. prefix[n + 1] = ParseStep(prefix[n], n, list[n + 1])
      BY <1>10, <3>1
    <3> QED
      BY <1>1, <3>1, <3>2, StepKeepsStates
  <2> HIDE DEF S
  <2>3. 0 .. Len(list) \subseteq S
    BY <1>1, <2>1, <2>2, IntervalInduction
  <2> QED
    BY <2>3 DEF S
<1>12. prefix \in [0 .. Len(list) -> ParseStates]
  BY <1>7, <1>11
<1> QED
  BY <1>8, <1>9, <1>10, <1>12 DEF IsParse

-----------------------------------------------------------------------------
(* Looking up a path                                                       *)

LEMMA ChildIsNode ==
  ASSUME NEW nodes, NEW n, NEW name, NEW len \in Nat, DOMAIN nodes = 1 .. len
  PROVE  LET named == {c \in DOMAIN nodes : nodes[c].parent = n /\ nodes[c].name = name}
             child == Child(nodes, n, name)
         IN  /\ named = {} => child = 0
             /\ named # {} => child \in named /\ \A c \in named : child <= c
<1> DEFINE named == {c \in DOMAIN nodes : nodes[c].parent = n /\ nodes[c].name = name}
<1>1. ASSUME named # {}
      PROVE  \E c \in named : \A d \in named : c <= d
  <2>1. named \in SUBSET Nat
    OBVIOUS
  <2> HIDE DEF named
  <2> QED
    BY <1>1, <2>1, Least
<1>2. Child(nodes, n, name) =
         IF named = {} THEN 0 ELSE CHOOSE c \in named : \A d \in named : c <= d
  BY DEF Child
<1> HIDE DEF named
<1>3. /\ named = {} => Child(nodes, n, name) = 0
      /\ named # {} => /\ Child(nodes, n, name) \in named
                       /\ \A c \in named : Child(nodes, n, name) <= c
  BY <1>1, <1>2
<1> QED
  BY <1>3 DEF named

\* The nodes on the way along a path: r[k] after k names, 0 from where it ends.
IsWalk(r, nodes, path) ==
    /\ r \in [0 .. Len(path) -> 0 .. Len(nodes)]
    /\ r[0] = Root
    /\ \A k \in 1 .. Len(path) :
          r[k] = IF r[k - 1] = 0 THEN 0 ELSE Child(nodes, r[k - 1], path[k])
    /\ NodeAt(nodes, path) = r[Len(path)]

LEMMA WalkExists ==
  ASSUME NEW S, NEW nodes \in Seq(S), Len(nodes) > 0, NEW T, NEW path \in Seq(T)
  PROVE  \E r : IsWalk(r, nodes, path)
<1> DEFINE V == 0 .. Len(nodes)
           step(n, k) == IF n = 0 THEN 0 ELSE Child(nodes, n, path[k])
           next == [k \in 1 .. Len(path) |-> [n \in V |-> step(n, k)]]
           below == [n \in 0 .. Len(nodes) |-> [k \in DOMAIN path |-> step(n, k)]]
           inline(f) == [k \in 0 .. Len(path) |-> IF k = 0 THEN Root ELSE below[f[k - 1]][k]]
           reached == CHOOSE f : f = inline(f)
<1>1. Len(path) \in Nat /\ DOMAIN path = 1 .. Len(path) /\ Len(nodes) \in Nat /\ Root \in V
  BY DEF Root
<1>2. \A n \in V, k \in 1 .. Len(path) : step(n, k) \in V
  <2>1. ASSUME NEW n, NEW name PROVE Child(nodes, n, name) \in V
    BY <1>1, ChildIsNode
  <2> QED
    BY <1>1, <2>1
<1>3. next \in [1 .. Len(path) -> [V -> V]]
  BY <1>2
<1>4. \A n \in V, k \in 1 .. Len(path) : next[k][n] = step(n, k) /\ below[n][k] = step(n, k)
  BY <1>1
<1>5. NodeAt(nodes, path) = reached[Len(path)]
  BY DEF NodeAt
<1> HIDE DEF next, below, step, V
<1>6. PICK f \in [0 .. Len(path) -> V] : Computes(f, Len(path), Root, next)
  BY <1>1, <1>3, RecursionExists
<1>7. f = inline(f)
  <2>1. ASSUME NEW k \in 0 .. Len(path) PROVE f[k] = inline(f)[k]
    <3>1. f[k] = IF k = 0 THEN Root ELSE next[k][f[k - 1]]
      BY <1>6 DEF Computes
    <3>2. k # 0 => k \in 1 .. Len(path) /\ f[k - 1] \in V
      BY <1>1
    <3> QED
      BY <1>4, <3>1, <3>2
  <2> QED
    BY <2>1
<1>8. reached = inline(reached)
  BY <1>7
<1> HIDE DEF reached
<1>9. reached[0] = Root
  BY <1>1, <1>8
<1>10. ASSUME NEW k \in 1 .. Len(path) PROVE reached[k] = below[reached[k - 1]][k]
  BY <1>1, <1>8
<1>11. \A k \in 0 .. Len(path) : reached[k] \in V
  <2> DEFINE U == {k \in 0 .. Len(path) : reached[k] \in V}
  <2>1. 0 \in U
    BY <1>1, <1>9
  <2>2. \A k \in 0 .. Len(path) - 1 : k \in U => k + 1 \in U
    <3> SUFFICES ASSUME NEW k \in 0 .. Len(path) - 1, k \in U PROVE k + 1 \in U
      OBVIOUS
    <3>1. k + 1 \in 1 .. Len(path) /\ k + 1 \in 0 .. Len(path) /\ (k + 1) - 1 = k
      BY <1>1
    <3>2. reached[k + 1] = step(reached[k], k + 1)
      BY <1>4, <1>10, <3>1
    <3> QED
      BY <1>2, <3>1, <3>2
  <2> HIDE DEF U
  <2>3. 0 .. Len(path) \subseteq U
    BY <1>1, <2>1, <2>2, IntervalInduction
  <2> QED
    BY <2>3 DEF U
<1>12. ASSUME NEW k \in 1 .. Len(path)
       PROVE  reached[k] = IF reached[k - 1] = 0 THEN 0 ELSE Child(nodes, reached[k - 1], path[k])
  <2>1. k - 1 \in 0 .. Len(path)
    BY <1>1
  <2>2. reached[k] = step(reached[k - 1], k)
    BY <1>4, <1>10, <1>11, <2>1
  <2> QED
    BY <2>2 DEF step
<1>13. reached \in [0 .. Len(path) -> V]
  BY <1>8, <1>11
<1> QED
  BY <1>5, <1>9, <1>12, <1>13 DEF IsWalk, V

LEMMA NodeAtIsNode ==
  ASSUME NEW S, NEW nodes \in Seq(S), Len(nodes) > 0, NEW T, NEW path \in Seq(T)
  PROVE  NodeAt(nodes, path) \in 0 .. Len(nodes)
<1>1. PICK r : IsWalk(r, nodes, path)
  BY WalkExists
<1>2. Len(path) \in 0 .. Len(path)
  OBVIOUS
<1> QED
  BY <1>1, <1>2 DEF IsWalk

-----------------------------------------------------------------------------
(* The files of a tree and the descriptors                                 *)

\* Every file of a tree has a descriptor of its own among the first n, where
\* its start says, of the same offset and length.
FilesDescribed(nodes, list, n) ==
    /\ \A k \in DOMAIN nodes :
          IF nodes[k].isDir THEN nodes[k].length = 0 /\ nodes[k].end <= Len(list)
          ELSE /\ nodes[k].start < n
               /\ list[nodes[k].start + 1].offset = nodes[k].offset
               /\ list[nodes[k].start + 1].length = nodes[k].length
    /\ \A j, k \in DOMAIN nodes :
          j # k /\ ~ nodes[j].isDir /\ ~ nodes[k].isDir => nodes[j].start # nodes[k].start

\* A new directory has nothing on disk; a new file has the next descriptor.
LEMMA DirDescribed ==
  ASSUME NEW list \in Seq(Descriptors), NEW n \in 1 .. Len(list),
         NEW nodes \in Seq(Nodes), FilesDescribed(nodes, list, n - 1),
         NEW node, node.isDir = TRUE, node.length = 0, node.end <= Len(list)
  PROVE  FilesDescribed(Append(nodes, node), list, n)
<1> DEFINE new == Append(nodes, node)
<1>1. /\ Len(nodes) \in Nat /\ DOMAIN nodes = 1 .. Len(nodes)
      /\ DOMAIN new = 1 .. Len(nodes) + 1
      /\ \A k \in DOMAIN nodes : new[k] = nodes[k] /\ nodes[k] \in Nodes
      /\ new[Len(nodes) + 1] = node
  OBVIOUS
<1>2. \A k \in DOMAIN nodes : nodes[k].start \in Nat
  BY <1>1 DEF Nodes
<1> HIDE DEF new
<1>3. ASSUME NEW k \in DOMAIN new
      PROVE  /\ new[k].isDir => new[k].length = 0 /\ new[k].end <= Len(list)
             /\ ~ new[k].isDir =>
                   /\ new[k].start < n
                   /\ list[new[k].start + 1].offset = new[k].offset
                   /\ list[new[k].start + 1].length = new[k].length
  <2>1. CASE k \in DOMAIN nodes
    <3>1. new[k] = nodes[k]
      BY <1>1, <2>1
    <3> QED
      BY <1>2, <2>1, <3>1 DEF FilesDescribed
  <2>2. CASE k = Len(nodes) + 1
    BY <1>1, <2>2
  <2> QED
    BY <1>1, <2>1, <2>2
<1>4. ASSUME NEW j \in DOMAIN new, NEW k \in DOMAIN new, j # k, ~ new[j].isDir, ~ new[k].isDir
      PROVE  new[j].start # new[k].start
  <2>1. j \in DOMAIN nodes /\ k \in DOMAIN nodes
    BY <1>1, <1>4
  <2> QED
    BY <1>1, <1>4, <2>1 DEF FilesDescribed
<1>5. FilesDescribed(new, list, n)
  BY <1>3, <1>4 DEF FilesDescribed
<1> QED
  BY <1>5 DEF new

LEMMA FileDescribed ==
  ASSUME NEW list \in Seq(Descriptors), NEW n \in 1 .. Len(list),
         NEW nodes \in Seq(Nodes), FilesDescribed(nodes, list, n - 1),
         NEW node, node.isDir = FALSE, node.start = n - 1,
         node.offset = list[n].offset, node.length = list[n].length
  PROVE  FilesDescribed(Append(nodes, node), list, n)
<1> DEFINE new == Append(nodes, node)
<1>1. /\ Len(nodes) \in Nat /\ DOMAIN nodes = 1 .. Len(nodes)
      /\ DOMAIN new = 1 .. Len(nodes) + 1
      /\ \A k \in DOMAIN nodes : new[k] = nodes[k] /\ nodes[k] \in Nodes
      /\ new[Len(nodes) + 1] = node
  OBVIOUS
<1>2. \A k \in DOMAIN nodes : nodes[k].start \in Nat
  BY <1>1 DEF Nodes
<1>3. \A k \in DOMAIN nodes : ~ nodes[k].isDir => nodes[k].start < n - 1
  BY DEF FilesDescribed
<1>4. (n - 1) + 1 = n /\ n - 1 < n
  OBVIOUS
<1> HIDE DEF new
<1>5. ASSUME NEW k \in DOMAIN new
      PROVE  /\ new[k].isDir => new[k].length = 0 /\ new[k].end <= Len(list)
             /\ ~ new[k].isDir =>
                   /\ new[k].start < n
                   /\ list[new[k].start + 1].offset = new[k].offset
                   /\ list[new[k].start + 1].length = new[k].length
  <2>1. CASE k \in DOMAIN nodes
    <3>1. new[k] = nodes[k]
      BY <1>1, <2>1
    <3> QED
      BY <1>2, <2>1, <3>1 DEF FilesDescribed
  <2>2. CASE k = Len(nodes) + 1
    BY <1>1, <1>4, <2>2
  <2> QED
    BY <1>1, <2>1, <2>2
<1>6. ASSUME NEW j \in DOMAIN new, NEW k \in DOMAIN new, j # k, ~ new[j].isDir, ~ new[k].isDir
      PROVE  new[j].start # new[k].start
  <2>1. CASE j \in DOMAIN nodes /\ k \in DOMAIN nodes
    BY <1>1, <1>6, <2>1 DEF FilesDescribed
  <2>2. CASE j \in DOMAIN nodes /\ k = Len(nodes) + 1
    BY <1>1, <1>2, <1>3, <1>6, <2>2
  <2>3. CASE j = Len(nodes) + 1 /\ k \in DOMAIN nodes
    BY <1>1, <1>2, <1>3, <1>6, <2>3
  <2> QED
    BY <1>1, <1>6, <2>1, <2>2, <2>3
<1>7. FilesDescribed(new, list, n)
  BY <1>5, <1>6 DEF FilesDescribed
<1> QED
  BY <1>7 DEF new

\* An end marker closes the directory at its index.
LEMMA EndDescribed ==
  ASSUME NEW list \in Seq(Descriptors), NEW n \in 1 .. Len(list),
         NEW nodes \in Seq(Nodes), FilesDescribed(nodes, list, n - 1), NEW cur \in DOMAIN nodes
  PROVE  FilesDescribed([nodes EXCEPT ![cur].end = n - 1], list, n)
<1> DEFINE new == [nodes EXCEPT ![cur].end = n - 1]
<1>1. n - 1 \in Nat /\ n - 1 < n /\ n - 1 <= Len(list)
  OBVIOUS
<1>2. \A k \in DOMAIN nodes : nodes[k] \in Nodes
  OBVIOUS
<1>3. /\ DOMAIN new = DOMAIN nodes
      /\ new[cur] = [nodes[cur] EXCEPT !.end = n - 1]
      /\ \A k \in DOMAIN nodes \ {cur} : new[k] = nodes[k]
  OBVIOUS
<1> HIDE DEF new
<1>4. ASSUME NEW k \in DOMAIN nodes
      PROVE  /\ new[k].isDir = nodes[k].isDir /\ new[k].start = nodes[k].start
             /\ new[k].offset = nodes[k].offset /\ new[k].length = nodes[k].length
             /\ new[k].end = nodes[k].end \/ new[k].end = n - 1
  <2>1. CASE k = cur
    <3>1. nodes[cur] \in Nodes
      BY <1>2
    <3> DEFINE node == [nodes[cur] EXCEPT !.end = n - 1]
    <3>2. /\ node.end = n - 1 /\ node.isDir = nodes[cur].isDir
          /\ node.offset = nodes[cur].offset /\ node.length = nodes[cur].length
          /\ node.start = nodes[cur].start
      BY <1>1, <3>1, EndReplaced, Zenon
    <3>3. new[k] = node
      BY <1>3, <2>1
    <3> HIDE DEF node
    <3> QED
      BY <2>1, <3>2, <3>3
  <2>2. CASE k # cur
    BY <1>3, <2>2
  <2> QED
    BY <2>1, <2>2
<1>5. \A k \in DOMAIN nodes : nodes[k].start \in Nat
  BY <1>2 DEF Nodes
<1>6. ASSUME NEW k \in DOMAIN nodes
      PROVE  /\ new[k].isDir => new[k].length = 0 /\ new[k].end <= Len(list)
             /\ ~ new[k].isDir =>
                   /\ new[k].start < n
                   /\ list[new[k].start + 1].offset = new[k].offset
                   /\ list[new[k].start + 1].length = new[k].length
  BY <1>1, <1>4, <1>5 DEF FilesDescribed
<1>7. ASSUME NEW j \in DOMAIN nodes, NEW k \in DOMAIN nodes, j # k, ~ new[j].isDir, ~ new[k].isDir
      PROVE  new[j].start # new[k].start
  BY <1>4, <1>7 DEF FilesDescribed
<1>8. FilesDescribed(new, list, n)
  BY <1>3, <1>6, <1>7 DEF FilesDescribed
<1> QED
  BY <1>8 DEF new

LEMMA StepDescribes ==
  ASSUME NEW list \in Seq(Descriptors), NEW n \in 1 .. Len(list), NEW p \in ParseStates,
         FilesDescribed(p.nodes, list, n - 1)
  PROVE  FilesDescribed(ParseStep(p, n - 1, list[n]).nodes, list, n)
<1>1. /\ p.nodes \in Seq(Nodes) /\ p.cur \in Nat /\ p.cur <= Len(p.nodes)
      /\ Len(list) \in Nat /\ n - 1 \in Nat
  BY DEF ParseStates
<1>2. IsState(p)
  BY ParseStatesAreStates
<1>3. ASSUME NEW i, NEW d
      PROVE  LET q == ParseStep(p, i, d)
             IN  /\ p.cur = 0 => q.nodes = p.nodes
                 /\ p.cur # 0 /\ Opens(p, d) =>
                       q.nodes = Append(p.nodes, DirNode(DirName(d), p.cur, i, 0))
                 /\ p.cur # 0 /\ Closes(p, d) => q.nodes = EndSet(p.nodes, p.cur, i)
                 /\ p.cur # 0 /\ ~ Opens(p, d) /\ ~ Closes(p, d) =>
                       q.nodes = Append(p.nodes, FileNode(d, p.cur, i))
  BY <1>2, StepFields
<1>4. CASE p.cur = 0
  <2>1. ParseStep(p, n - 1, list[n]).nodes = p.nodes
    BY <1>3, <1>4
  <2>2. \A k \in DOMAIN p.nodes : p.nodes[k].start \in Nat
    <3>1. \A k \in DOMAIN p.nodes : p.nodes[k] \in Nodes
      BY <1>1
    <3> QED
      BY <3>1 DEF Nodes
  <2>3. FilesDescribed(p.nodes, list, n)
    BY <2>2 DEF FilesDescribed
  <2> QED
    BY <2>1, <2>3
<1>5. CASE p.cur # 0 /\ Opens(p, list[n])
  <2> DEFINE node == DirNode(DirName(list[n]), p.cur, n - 1, 0)
  <2>1. ParseStep(p, n - 1, list[n]).nodes = Append(p.nodes, node)
    BY <1>3, <1>5
  <2>2. node.isDir = TRUE /\ node.length = 0 /\ node.end <= Len(list)
    BY <1>1 DEF DirNode
  <2> HIDE DEF node
  <2> QED
    BY <1>1, <2>1, <2>2, DirDescribed
<1>6. CASE p.cur # 0 /\ Closes(p, list[n])
  <2>1. ParseStep(p, n - 1, list[n]).nodes = [p.nodes EXCEPT ![p.cur].end = n - 1]
    BY <1>3, <1>6, Zenon DEF EndSet
  <2>2. p.cur \in DOMAIN p.nodes
    BY <1>1, <1>6
  <2>3. FilesDescribed([p.nodes EXCEPT ![p.cur].end = n - 1], list, n)
    BY <1>1, <2>2, EndDescribed
  <2> QED
    BY <2>1, <2>3, Zenon
<1>7. CASE p.cur # 0 /\ ~ Opens(p, list[n]) /\ ~ Closes(p, list[n])
  <2> DEFINE node == FileNode(list[n], p.cur, n - 1)
  <2>1. ParseStep(p, n - 1, list[n]).nodes = Append(p.nodes, node)
    BY <1>3, <1>7
  <2>2. node.isDir = FALSE /\ node.start = n - 1
        /\ node.offset = list[n].offset /\ node.length = list[n].length
    BY DEF FileNode
  <2> HIDE DEF node
  <2> QED
    BY <1>1, <2>1, <2>2, FileDescribed
<1> QED
  BY <1>4, <1>5, <1>6, <1>7

LEMMA ParseDescribes ==
  ASSUME NEW list \in Seq(Descriptors)
  PROVE  LET p == Parse(list, Len(list))
         IN  p \in ParseStates /\ FilesDescribed(p.nodes, list, Len(list))
<1>1. Len(list) \in Nat
  OBVIOUS
<1>2. PICK f : IsParse(f, list, Len(list))
  BY <1>1, ParseRuns
<1> DEFINE S == {n \in 0 .. Len(list) : FilesDescribed(f[n].nodes, list, n)}
<1>3. 0 \in S
  <2>1. f[0].nodes = << RootNode(Len(list)) >>
    BY <1>2 DEF IsParse, ParseStart
  <2>2. RootNode(Len(list)).isDir /\ RootNode(Len(list)).length = 0
        /\ RootNode(Len(list)).end = Len(list)
    BY DEF RootNode, DirNode
  <2> QED
    BY <1>1, <2>1, <2>2 DEF FilesDescribed
<1>4. \A n \in 0 .. Len(list) - 1 : n \in S => n + 1 \in S
  <2> SUFFICES ASSUME NEW n \in 0 .. Len(list) - 1, n \in S PROVE n + 1 \in S
    OBVIOUS
  <2>1. n + 1 \in 1 .. Len(list) /\ (n + 1) - 1 = n /\ n \in 0 .. Len(list)
    BY <1>1
  <2>2. f[n] \in ParseStates /\ f[n + 1] = ParseStep(f[n], n, list[n + 1])
    BY <1>2, <2>1 DEF IsParse
  <2>3. FilesDescribed(f[n + 1].nodes, list, n + 1)
    BY <2>1, <2>2, StepDescribes
  <2> QED
    BY <2>1, <2>3
<1>5. Len(list) \in S
  <2> HIDE DEF S
  <2>1. 0 .. Len(list) \subseteq S
    BY <1>1, <1>3, <1>4, IntervalInduction
  <2> QED
    BY <1>1, <2>1
<1> QED
  BY <1>1, <1>2, <1>5 DEF IsParse

-----------------------------------------------------------------------------
(* Fields replaced                                                         *)

\* One field of a node, and two.
LEMMA NodeFieldReplaced ==
  ASSUME NEW old \in Nodes, NEW i \in Nat
  PROVE  /\ LET new == [old EXCEPT !.start = i]
            IN  /\ new \in Nodes /\ new.start = i
                /\ new.name = old.name /\ new.isDir = old.isDir /\ new.parent = old.parent
                /\ new.offset = old.offset /\ new.length = old.length /\ new.end = old.end
         /\ LET new == [old EXCEPT !.offset = i]
            IN  /\ new \in Nodes /\ new.offset = i
                /\ new.name = old.name /\ new.isDir = old.isDir /\ new.parent = old.parent
                /\ new.start = old.start /\ new.length = old.length /\ new.end = old.end
         /\ LET new == [old EXCEPT !.length = i]
            IN  /\ new \in Nodes /\ new.length = i
                /\ new.name = old.name /\ new.isDir = old.isDir /\ new.parent = old.parent
                /\ new.start = old.start /\ new.offset = old.offset /\ new.end = old.end
BY DEF Nodes

Moved(old, i, j) == [old EXCEPT !.start = i, !.end = j]
Extended(d, i, j) == [d EXCEPT !.offset = i, !.length = j]

LEMMA NodeMoved ==
  ASSUME NEW old \in Nodes, NEW i \in Nat, NEW j \in Nat
  PROVE  LET new == Moved(old, i, j)
         IN  /\ new \in Nodes /\ new.start = i /\ new.end = j
             /\ new.name = old.name /\ new.isDir = old.isDir /\ new.parent = old.parent
             /\ new.offset = old.offset /\ new.length = old.length
<1> DEFINE mid == [old EXCEPT !.start = i]
           new == [mid EXCEPT !.end = j]
<1>1. /\ mid \in Nodes /\ mid.start = i
      /\ mid.name = old.name /\ mid.isDir = old.isDir /\ mid.parent = old.parent
      /\ mid.offset = old.offset /\ mid.length = old.length
  BY NodeFieldReplaced, Zenon
<1>2. Moved(old, i, j) = new
  BY DEF Moved
<1> HIDE DEF mid
<1>3. /\ new \in Nodes /\ new.end = j
      /\ new.name = mid.name /\ new.isDir = mid.isDir /\ new.parent = mid.parent
      /\ new.offset = mid.offset /\ new.length = mid.length /\ new.start = mid.start
  BY <1>1, EndReplaced, Zenon
<1> HIDE DEF new
<1> QED
  BY <1>1, <1>2, <1>3, Zenon

LEMMA NodeExtended ==
  ASSUME NEW old \in Nodes, NEW i \in Nat, NEW j \in Nat
  PROVE  LET new == Extended(old, i, j)
         IN  /\ new \in Nodes /\ new.offset = i /\ new.length = j
             /\ new.name = old.name /\ new.isDir = old.isDir /\ new.parent = old.parent
             /\ new.start = old.start /\ new.end = old.end
<1> DEFINE mid == [old EXCEPT !.offset = i]
           new == [mid EXCEPT !.length = j]
<1>1. /\ mid \in Nodes /\ mid.offset = i
      /\ mid.name = old.name /\ mid.isDir = old.isDir /\ mid.parent = old.parent
      /\ mid.start = old.start /\ mid.end = old.end
  BY NodeFieldReplaced, Zenon
<1>2. Extended(old, i, j) = new
  BY DEF Extended
<1> HIDE DEF mid
<1>3. /\ new \in Nodes /\ new.length = j
      /\ new.name = mid.name /\ new.isDir = mid.isDir /\ new.parent = mid.parent
      /\ new.offset = mid.offset /\ new.end = mid.end /\ new.start = mid.start
  BY <1>1, NodeFieldReplaced, Zenon
<1> HIDE DEF new
<1> QED
  BY <1>1, <1>2, <1>3, Zenon

DescriptorOf(m, d, o, length) ==
    m \in Descriptors /\ m.offset = o /\ m.length = length /\ m.name = d.name

LEMMA DescriptorExtended ==
  ASSUME NEW d \in Descriptors, NEW i \in Nat, NEW j \in Nat
  PROVE  DescriptorOf(Extended(d, i, j), d, i, j)
<1> DEFINE mid == [d EXCEPT !.offset = i]
           new == [mid EXCEPT !.length = j]
<1>1. mid \in Descriptors /\ mid.offset = i /\ mid.name = d.name
  BY DEF Descriptors
<1>2. Extended(d, i, j) = new
  BY DEF Extended
<1> HIDE DEF mid
<1>3. new \in Descriptors /\ new.length = j /\ new.name = mid.name /\ new.offset = mid.offset
  BY <1>1 DEF Descriptors
<1> HIDE DEF new
<1>4. DescriptorOf(new, d, i, j)
  BY <1>1, <1>3 DEF DescriptorOf
<1> QED
  BY <1>2, <1>4

\* The header of a disk, and its cells.
Disk(n, o, cells) == [num |-> n, off |-> o, cells |-> cells]

LEMMA DiskReplaced ==
  ASSUME NEW d, IsDisk(d), NEW x
  PROVE  /\ [d EXCEPT !.num = x] = Disk(x, d.off, d.cells)
         /\ [d EXCEPT !.off = x] = Disk(d.num, x, d.cells)
         /\ [d EXCEPT !.cells = x] = Disk(d.num, d.off, x)
<1>1. ASSUME NEW cells, d = [num |-> d.num, off |-> d.off, cells |-> cells]
      PROVE  /\ [d EXCEPT !.num = x] = Disk(x, d.off, d.cells)
             /\ [d EXCEPT !.off = x] = Disk(d.num, x, d.cells)
             /\ [d EXCEPT !.cells = x] = Disk(d.num, d.off, x)
  BY <1>1 DEF Disk
<1>2. d = [num |-> d.num, off |-> d.off, cells |-> [c \in DOMAIN d.cells |-> d.cells[c]]]
  BY DEF IsDisk
<1> QED
  BY <1>1, <1>2, Zenon

IsCells(cells) ==
    /\ cells = [c \in DOMAIN cells |-> cells[c]]
    /\ DOMAIN cells \subseteq Nat
    /\ \A c \in DOMAIN cells : IsCell(cells[c])

LEMMA DiskFields ==
  ASSUME NEW n \in Nat, NEW o \in Nat, NEW cells, IsCells(cells)
  PROVE  LET d == Disk(n, o, cells)
         IN  d.num = n /\ d.off = o /\ d.cells = cells /\ IsDisk(d)
<1> DEFINE d == Disk(n, o, cells)
<1>1. d.num = n /\ d.off = o /\ d.cells = cells
  BY DEF Disk
<1>2. d = [num |-> d.num, off |-> d.off, cells |-> [c \in DOMAIN d.cells |-> d.cells[c]]]
  <2>1. d.cells = [c \in DOMAIN d.cells |-> d.cells[c]]
    <3> HIDE DEF d
    <3> QED
      BY <1>1 DEF IsCells
  <2> QED
    BY <1>1, <2>1, Zenon DEF Disk
<1> HIDE DEF d
<1>3. IsDisk(d)
  BY <1>1, <1>2 DEF IsDisk, IsCells
<1> QED
  BY <1>1, <1>3 DEF d

LEMMA DiskCells ==
  ASSUME NEW d, IsDisk(d)
  PROVE  /\ IsCells(d.cells)
         /\ DOMAIN d.cells \in SUBSET Nat
         /\ \A c \in DOMAIN d.cells : IsCell(d.cells[c])
<1>1. ASSUME NEW cells, d = [num |-> d.num, off |-> d.off, cells |-> cells]
      PROVE  d.cells = cells
  BY <1>1
<1>2. d.cells = [c \in DOMAIN d.cells |-> d.cells[c]]
  BY <1>1, Zenon DEF IsDisk
<1> QED
  BY <1>2, Zenon DEF IsDisk, IsCells

-----------------------------------------------------------------------------
(* The list on disk                                                        *)

LEMMA SizeAdds ==
  ASSUME NEW m \in Nat, NEW n \in Nat
  PROVE  /\ m * DescSize \in Nat /\ DescSize \in Nat \ {0}
         /\ (m + 1) * DescSize = m * DescSize + DescSize
         /\ m <= n => m * DescSize <= n * DescSize
         /\ m < n => m * DescSize + DescSize <= n * DescSize
<1>1. DescSize \in Nat \ {0}
  BY SizesAssumption
<1>2. \A k \in Nat : k * DescSize \in Nat
  BY <1>1
<1>3. \A k \in Nat : (k + 1) * DescSize = k * DescSize + DescSize
  BY <1>1
<1>4. ASSUME NEW k \in Nat, NEW l \in Nat PROVE k * DescSize <= (k + l) * DescSize
  <2>1. (k + l) * DescSize = k * DescSize + l * DescSize
    BY <1>1
  <2> QED
    BY <1>2, <2>1
<1>5. ASSUME m <= n PROVE m * DescSize <= n * DescSize
  <2>1. n - m \in Nat /\ n = m + (n - m)
    BY <1>5
  <2> QED
    BY <1>4, <2>1
<1>6. ASSUME m < n PROVE m * DescSize + DescSize <= n * DescSize
  <2>1. n - (m + 1) \in Nat /\ n = (m + 1) + (n - (m + 1)) /\ m + 1 \in Nat
    BY <1>6
  <2>2. (m + 1) * DescSize <= n * DescSize
    BY <1>4, <2>1
  <2> QED
    BY <1>3, <2>2
<1> QED
  BY <1>1, <1>2, <1>3, <1>5, <1>6

\* A list whose last part is missing is not whole.
LEMMA NotWhole ==
  ASSUME NEW d, d.num \in Nat, d.num > 0, d.off \in Nat,
         NoPartFrom(d, d.off + d.num * DescSize - 1)
  PROVE  ~ IsWhole(d)
<1> DEFINE i == d.num - 1
           cell == d.off + i * DescSize
           k == DescSize - 1
<1>1. i \in 0 .. d.num - 1 /\ i \in Nat /\ i + 1 = d.num
  OBVIOUS
<1>2. /\ i * DescSize \in Nat /\ DescSize \in Nat /\ DescSize > 0
      /\ d.num * DescSize = i * DescSize + DescSize
  BY <1>1, SizeAdds
<1>3. k \in 0 .. DescSize - 1 /\ cell + k = d.off + d.num * DescSize - 1
  BY <1>2
<1> SUFFICES ASSUME IsWhole(d) PROVE FALSE
  OBVIOUS
<1>4. IsDescriptor(d, cell)
  BY <1>1 DEF IsWhole
<1> HIDE DEF cell, k
<1>5. cell + k \in DOMAIN d.cells /\ "desc" \in DOMAIN d.cells[cell + k]
  BY <1>3, <1>4 DEF IsDescriptor
<1>6. cell + k < d.off + d.num * DescSize - 1
  BY <1>5 DEF NoPartFrom
<1> QED
  BY <1>2, <1>3, <1>6

\* A list that is whole is a sequence of descriptors.
LEMMA ListIsTyped ==
  ASSUME NEW d, IsDisk(d), IsWhole(d)
  PROVE  ListOf(d) \in Seq(Descriptors) /\ Len(ListOf(d)) = d.num
<1>1. d.num \in Nat /\ d.off \in Nat
  BY DEF IsDisk
<1>2. ASSUME NEW i \in 1 .. d.num PROVE d.cells[d.off + (i - 1) * DescSize].desc \in Descriptors
  <2> DEFINE cell == d.off + (i - 1) * DescSize
  <2>1. i - 1 \in 0 .. d.num - 1 /\ i - 1 \in Nat
    BY <1>1
  <2>2. (i - 1) * DescSize \in Nat /\ 0 \in 0 .. DescSize - 1
    BY <2>1, SizeAdds
  <2>3. cell \in DOMAIN d.cells /\ "desc" \in DOMAIN d.cells[cell]
    BY <2>1, <2>2 DEF IsWhole, IsDescriptor
  <2>4. IsCell(d.cells[cell])
    BY <2>3, DiskCells
  <2> HIDE DEF cell
  <2>5. \A b : "desc" \notin DOMAIN Byte(b)
    BY CellKinds
  <2>6. d.cells[cell].desc \in Descriptors
    BY <2>3, <2>4, <2>5, Zenon DEF IsCell
  <2> QED
    BY <2>6 DEF cell
<1>3. ListOf(d) \in [1 .. d.num -> Descriptors]
  BY <1>1, <1>2 DEF ListOf
<1> QED
  BY <1>1, <1>3

\* Bytes can only make a list less than whole.
LEMMA BytesOnly ==
  ASSUME NEW d, NEW e, d.num \in Nat, d.off \in Nat, e.num = d.num, e.off = d.off,
         \A c \in DOMAIN e.cells :
            "desc" \in DOMAIN e.cells[c] => c \in DOMAIN d.cells /\ d.cells[c] = e.cells[c]
  PROVE  /\ IsWhole(e) => IsWhole(d) /\ ListOf(d) = ListOf(e)
         /\ \A limit : NoPartFrom(d, limit) => NoPartFrom(e, limit)
<1>1. ASSUME NEW i \in 0 .. d.num - 1, IsDescriptor(e, d.off + i * DescSize)
      PROVE  IsDescriptor(d, d.off + i * DescSize)
  <2> DEFINE cell == d.off + i * DescSize
  <2> HIDE DEF cell
  <2>1. IsDescriptor(e, cell)
    BY <1>1 DEF cell
  <2>2. ASSUME NEW k \in 0 .. DescSize - 1, NEW c \in {cell, cell + k}
        PROVE  c \in DOMAIN d.cells /\ d.cells[c] = e.cells[c] /\ "desc" \in DOMAIN d.cells[c]
    BY <2>1, <2>2 DEF IsDescriptor
  <2>3. IsDescriptor(d, cell)
    BY <2>1, <2>2, Zenon DEF IsDescriptor
  <2> QED
    BY <2>3 DEF cell
<1>2. ASSUME IsWhole(e) PROVE IsWhole(d) /\ ListOf(d) = ListOf(e)
  <2>1. IsWhole(d)
    BY <1>1, <1>2 DEF IsWhole
  <2>2. ASSUME NEW i \in 1 .. d.num
        PROVE  d.cells[d.off + (i - 1) * DescSize] = e.cells[e.off + (i - 1) * DescSize]
    <3> DEFINE cell == d.off + (i - 1) * DescSize
    <3>1. i - 1 \in 0 .. d.num - 1 /\ 0 \in 0 .. DescSize - 1
      BY SizesAssumption
    <3>2. IsDescriptor(e, cell)
      BY <1>2, <3>1 DEF IsWhole
    <3> HIDE DEF cell
    <3>3. cell \in DOMAIN e.cells /\ "desc" \in DOMAIN e.cells[cell]
      BY <3>1, <3>2 DEF IsDescriptor
    <3> QED
      BY <3>3 DEF cell
  <2>3. ListOf(d) = ListOf(e)
    BY <2>2 DEF ListOf
  <2> QED
    BY <2>1, <2>3
<1>3. ASSUME NEW limit, NoPartFrom(d, limit) PROVE NoPartFrom(e, limit)
  BY <1>3 DEF NoPartFrom
<1> QED
  BY <1>2, <1>3

-----------------------------------------------------------------------------
(* What createX makes of list and tree                                     *)

LEMMA InsertedIs ==
  ASSUME descriptors \in Seq(Descriptors), NEW new \in Seq(Descriptors),
         NEW index \in 0 .. Len(descriptors)
  PROVE  LET list == Inserted(new, index)
         IN  /\ list \in Seq(Descriptors) /\ Len(list) = Len(descriptors) + Len(new)
             /\ \A j \in 1 .. index : list[j] = descriptors[j]
             /\ \A j \in 1 .. Len(new) : list[index + j] = new[j]
             /\ \A j \in index + 1 .. Len(descriptors) : list[j + Len(new)] = descriptors[j]
<1> DEFINE len == Len(descriptors)
           front == SubSeq(descriptors, 1, index)
           back == SubSeq(descriptors, index + 1, len)
<1>1. len \in Nat /\ Len(new) \in Nat /\ index \in Nat /\ index <= len
  OBVIOUS
<1>2. /\ front \in Seq(Descriptors) /\ Len(front) = index
      /\ \A j \in 1 .. index : front[j] = descriptors[j]
  BY <1>1
<1>3. /\ back \in Seq(Descriptors) /\ Len(back) = len - index
      /\ \A j \in 1 .. len - index : back[j] = descriptors[index + j]
  BY <1>1
<1>4. Inserted(new, index) = front \o new \o back
  BY DEF Inserted
<1> HIDE DEF front, back
<1>5. /\ front \o new \in Seq(Descriptors) /\ Len(front \o new) = index + Len(new)
      /\ \A j \in 1 .. index : (front \o new)[j] = front[j]
      /\ \A j \in 1 .. Len(new) : (front \o new)[index + j] = new[j]
  BY <1>1, <1>2
<1> DEFINE both == front \o new
           list == both \o back
<1>11. /\ both \in Seq(Descriptors) /\ Len(both) = index + Len(new)
       /\ \A j \in 1 .. index : both[j] = front[j]
       /\ \A j \in 1 .. Len(new) : both[index + j] = new[j]
  BY <1>5
<1> HIDE DEF both
<1>6. /\ list \in Seq(Descriptors) /\ Len(list) = len + Len(new)
      /\ \A j \in 1 .. index + Len(new) : list[j] = both[j]
      /\ \A j \in 1 .. len - index : list[index + Len(new) + j] = back[j]
  <2>4. both \in Seq(Descriptors) /\ back \in Seq(Descriptors)
    BY <1>3, <1>11
  <2>5. list \in Seq(Descriptors) /\ Len(list) = Len(both) + Len(back)
    BY <2>4
  <2>1. list \in Seq(Descriptors) /\ Len(list) = len + Len(new)
    BY <1>1, <1>3, <1>11, <2>5
  <2>2. \A j \in 1 .. index + Len(new) : list[j] = both[j]
    BY <1>1, <1>3, <1>11
  <2>3. ASSUME NEW j \in 1 .. len - index PROVE list[index + Len(new) + j] = back[j]
    <3> DEFINE k == index + Len(new) + j
    <3>1. k \in 1 .. Len(both) + Len(back) /\ k > Len(both) /\ k - Len(both) = j
      BY <1>1, <1>3, <1>11
    <3> HIDE DEF k
    <3>2. list[k] = back[k - Len(both)]
      BY <1>3, <1>11, <3>1
    <3> QED
      BY <3>1, <3>2 DEF k
  <2> QED
    BY <2>1, <2>2, <2>3
<1>7. list = Inserted(new, index)
  BY <1>4 DEF both
<1> HIDE DEF list
<1>8. \A j \in 1 .. index : list[j] = descriptors[j]
  BY <1>1, <1>2, <1>6, <1>11
<1>9. \A j \in 1 .. Len(new) : list[index + j] = new[j]
  BY <1>1, <1>6, <1>11
<1>10. ASSUME NEW j \in index + 1 .. len PROVE list[j + Len(new)] = descriptors[j]
  <2>1. j - index \in 1 .. len - index /\ index + Len(new) + (j - index) = j + Len(new)
        /\ index + (j - index) = j
    BY <1>1
  <2> QED
    BY <1>3, <1>6, <2>1
<1> QED
  BY <1>6, <1>7, <1>8, <1>9, <1>10

\* Descriptors of length 0 put in leave the others apart.
LEMMA ApartInserted ==
  ASSUME descriptors \in Seq(Descriptors), NEW new \in Seq(Descriptors),
         NEW index \in 0 .. Len(descriptors), NEW limit,
         Apart(descriptors, limit), \A j \in 1 .. Len(new) : new[j].length = 0
  PROVE  Apart(Inserted(new, index), limit)
<1> DEFINE list == Inserted(new, index)
           by == Len(new)
           from(j) == IF j <= index THEN j ELSE j - by
<1>1. Len(descriptors) \in Nat /\ by \in Nat /\ index \in Nat /\ index <= Len(descriptors)
  OBVIOUS
<1>2. /\ list \in Seq(Descriptors) /\ Len(list) = Len(descriptors) + by
      /\ \A j \in 1 .. index : list[j] = descriptors[j]
      /\ \A j \in 1 .. by : list[index + j] = new[j]
      /\ \A j \in index + 1 .. Len(descriptors) : list[j + by] = descriptors[j]
  BY InsertedIs
<1> HIDE DEF list, by
<1>3. ASSUME NEW j \in DOMAIN list
      PROVE  \/ list[j].length = 0
             \/ /\ j <= index \/ j > index + by
                /\ from(j) \in DOMAIN descriptors /\ list[j] = descriptors[from(j)]
  <2>1. j \in 1 .. Len(descriptors) + by
    BY <1>2
  <2>2. CASE j <= index
    BY <1>1, <1>2, <2>1, <2>2
  <2>3. CASE j > index /\ j <= index + by
    <3>1. j - index \in 1 .. by /\ index + (j - index) = j
      BY <1>1, <2>1, <2>3
    <3> QED
      BY <1>2, <3>1 DEF by
  <2>4. CASE j > index + by
    <3>1. j - by \in index + 1 .. Len(descriptors) /\ (j - by) + by = j /\ j > index
      BY <1>1, <2>1, <2>4
    <3>2. list[j] = descriptors[j - by] /\ from(j) = j - by /\ j - by \in DOMAIN descriptors
      BY <1>1, <1>2, <2>4, <3>1
    <3> QED
      BY <2>4, <3>2
  <2> QED
    BY <1>1, <2>1, <2>2, <2>3, <2>4
<1>4. ASSUME NEW i \in DOMAIN list, list[i].length > 0
      PROVE  /\ list[i].offset + list[i].length <= limit
             /\ \A j \in DOMAIN list \ {i} : Lump(list[i]) \intersect Lump(list[j]) = {}
  <2>1. /\ i <= index \/ i > index + by
        /\ from(i) \in DOMAIN descriptors /\ list[i] = descriptors[from(i)]
    BY <1>3, <1>4
  <2>2. list[i].offset + list[i].length <= limit
    BY <1>4, <2>1 DEF Apart
  <2>3. ASSUME NEW j \in DOMAIN list \ {i} PROVE Lump(list[i]) \intersect Lump(list[j]) = {}
    <3>1. CASE list[j].length = 0
      <4>1. list[j] \in Descriptors
        BY <1>2
      <4>2. Lump(list[j]) = {}
        BY <3>1, <4>1 DEF Lump, Descriptors
      <4> QED
        BY <4>2
    <3>2. CASE /\ j <= index \/ j > index + by
               /\ from(j) \in DOMAIN descriptors /\ list[j] = descriptors[from(j)]
      <4>1. i \in Nat /\ j \in Nat /\ i # j
        BY <1>2
      <4>2. from(i) # from(j)
        BY <1>1, <2>1, <3>2, <4>1
      <4> HIDE DEF from
      <4>3. descriptors[from(i)].length > 0 /\ from(j) \in DOMAIN descriptors \ {from(i)}
        BY <1>4, <2>1, <3>2, <4>2
      <4> QED
        BY <2>1, <3>2, <4>3 DEF Apart
    <3> QED
      BY <1>3, <3>1, <3>2
  <2> QED
    BY <2>2, <2>3
<1>5. Apart(list, limit)
  BY <1>4 DEF Apart
<1> QED
  BY <1>5 DEF list

LEMMA ShiftedIs ==
  ASSUME tree \in Seq(Nodes), NEW index \in Nat, NEW by \in Nat, NEW node
  PROVE  LET nodes == Shifted(index, by, node)
         IN  /\ nodes \in Seq(Nodes) /\ Len(nodes) = Len(tree)
             /\ \A n \in DOMAIN tree :
                   /\ nodes[n].name = tree[n].name /\ nodes[n].isDir = tree[n].isDir
                   /\ nodes[n].parent = tree[n].parent
                   /\ nodes[n].offset = tree[n].offset /\ nodes[n].length = tree[n].length
                   /\ nodes[n].start =
                         IF tree[n].start >= index THEN tree[n].start + by ELSE tree[n].start
                   /\ tree[n].isDir /\ tree[n].end >= index => nodes[n].end = tree[n].end + by
                   /\ ~ tree[n].isDir \/ ~ tree[n].end >= index => nodes[n].end = tree[n].end
<1> DEFINE nodes == Shifted(index, by, node)
           start(n) == IF tree[n].start >= index THEN tree[n].start + by ELSE tree[n].start
           end(n) == IF tree[n].isDir /\ tree[n].end >= index
                     THEN tree[n].end + by ELSE tree[n].end
<1>1. \A n \in DOMAIN tree : tree[n] \in Nodes
  OBVIOUS
<1>2. nodes = [n \in DOMAIN tree |-> Moved(tree[n], start(n), end(n))]
  BY DEF Shifted, Moved
<1>3. ASSUME NEW n \in DOMAIN tree PROVE start(n) \in Nat /\ end(n) \in Nat
  <2>1. tree[n].start \in Nat /\ tree[n].end \in Nat
    BY <1>1 DEF Nodes
  <2> QED
    BY <2>1
<1>4. ASSUME NEW n \in DOMAIN tree
      PROVE  /\ nodes[n] \in Nodes /\ nodes[n].start = start(n) /\ nodes[n].end = end(n)
             /\ nodes[n].name = tree[n].name /\ nodes[n].isDir = tree[n].isDir
             /\ nodes[n].parent = tree[n].parent
             /\ nodes[n].offset = tree[n].offset /\ nodes[n].length = tree[n].length
  <2> DEFINE new == Moved(tree[n], start(n), end(n))
  <2>1. nodes[n] = new
    BY <1>2, Zenon
  <2>3. tree[n] \in Nodes
    BY <1>1
  <2>4. start(n) \in Nat /\ end(n) \in Nat
    BY <1>3
  <2> HIDE DEF nodes, start, end
  <2>2. /\ new \in Nodes /\ new.start = start(n) /\ new.end = end(n)
        /\ new.name = tree[n].name /\ new.isDir = tree[n].isDir /\ new.parent = tree[n].parent
        /\ new.offset = tree[n].offset /\ new.length = tree[n].length
    <3> DEFINE i == start(n)
               j == end(n)
    <3>1. i \in Nat /\ j \in Nat /\ new = Moved(tree[n], i, j)
      BY <2>4
    <3> HIDE DEF i, j
    <3>2. LET m == Moved(tree[n], i, j)
          IN  /\ m \in Nodes /\ m.start = i /\ m.end = j
              /\ m.name = tree[n].name /\ m.isDir = tree[n].isDir /\ m.parent = tree[n].parent
              /\ m.offset = tree[n].offset /\ m.length = tree[n].length
      BY <2>3, <3>1, NodeMoved
    <3> QED
      BY <3>1, <3>2 DEF i, j
  <2> HIDE DEF new
  <2> QED
    BY <2>1, <2>2, Zenon
<1>5. DOMAIN nodes = DOMAIN tree /\ nodes = [n \in DOMAIN tree |-> nodes[n]]
  BY <1>2
<1> HIDE DEF nodes
<1>6. nodes \in [1 .. Len(tree) -> Nodes] /\ Len(tree) \in Nat
  BY <1>4, <1>5
<1>7. nodes \in Seq(Nodes) /\ Len(nodes) = Len(tree)
  BY <1>6
<1> QED
  BY <1>4, <1>7 DEF nodes

\* The tree a createX leaves: every file still has its descriptor, the new one
\* its own.
LEMMA CreatedDescribed ==
  ASSUME descriptors \in Seq(Descriptors), tree \in Seq(Nodes),
         FilesDescribed(tree, descriptors, Len(descriptors)),
         NEW new \in Seq(Descriptors), Len(new) > 0, NEW index \in 0 .. Len(descriptors),
         NEW node \in Nodes,
         \/ node.isDir = TRUE /\ node.length = 0 /\ node.end <= Len(descriptors) + Len(new)
         \/ /\ node.isDir = FALSE /\ node.start = index
            /\ node.offset = new[1].offset /\ node.length = new[1].length
  PROVE  FilesDescribed(Append(Shifted(index, Len(new), node), node), Inserted(new, index),
                        Len(Inserted(new, index)))
<1> DEFINE list == Inserted(new, index)
           by == Len(new)
           shifted == Shifted(index, by, node)
           nodes == Append(shifted, node)
<1>1. /\ Len(descriptors) \in Nat /\ by \in Nat /\ index \in Nat /\ index <= Len(descriptors)
      /\ Len(tree) \in Nat /\ DOMAIN tree = 1 .. Len(tree)
      /\ \A k \in DOMAIN tree : tree[k] \in Nodes
      /\ by > 0
  OBVIOUS
<1>2. /\ list \in Seq(Descriptors) /\ Len(list) = Len(descriptors) + by
      /\ \A j \in 1 .. index : list[j] = descriptors[j]
      /\ \A j \in 1 .. by : list[index + j] = new[j]
      /\ \A j \in index + 1 .. Len(descriptors) : list[j + by] = descriptors[j]
  BY InsertedIs
<1>3. /\ shifted \in Seq(Nodes) /\ Len(shifted) = Len(tree)
      /\ \A n \in DOMAIN tree :
            /\ shifted[n].isDir = tree[n].isDir
            /\ shifted[n].offset = tree[n].offset /\ shifted[n].length = tree[n].length
            /\ shifted[n].start =
                  IF tree[n].start >= index THEN tree[n].start + by ELSE tree[n].start
            /\ tree[n].isDir /\ tree[n].end >= index => shifted[n].end = tree[n].end + by
            /\ ~ tree[n].isDir \/ ~ tree[n].end >= index => shifted[n].end = tree[n].end
  BY <1>1, ShiftedIs
<1> HIDE DEF list, shifted
<1>4. /\ DOMAIN nodes = 1 .. Len(tree) + 1
      /\ \A k \in DOMAIN tree : nodes[k] = shifted[k]
      /\ nodes[Len(tree) + 1] = node
  BY <1>1, <1>3
<1>5. \A k \in DOMAIN tree : tree[k].start \in Nat /\ tree[k].end \in Nat
  BY <1>1 DEF Nodes
<1> HIDE DEF nodes
<1>6. ASSUME NEW k \in DOMAIN tree
      PROVE  /\ nodes[k].isDir => nodes[k].length = 0 /\ nodes[k].end <= Len(list)
             /\ ~ nodes[k].isDir =>
                   /\ nodes[k].start < Len(list) /\ nodes[k].start # index
                   /\ list[nodes[k].start + 1].offset = nodes[k].offset
                   /\ list[nodes[k].start + 1].length = nodes[k].length
  <2>1. ASSUME tree[k].isDir PROVE nodes[k].length = 0 /\ nodes[k].end <= Len(list)
    <3>1. tree[k].length = 0 /\ tree[k].end <= Len(descriptors)
      BY <2>1 DEF FilesDescribed
    <3> HIDE DEF by
    <3> QED
      BY <1>1, <1>2, <1>3, <1>4, <1>5, <2>1, <3>1
  <2>2. ASSUME ~ tree[k].isDir
        PROVE  /\ nodes[k].start < Len(list) /\ nodes[k].start # index
               /\ list[nodes[k].start + 1].offset = nodes[k].offset
               /\ list[nodes[k].start + 1].length = nodes[k].length
    <3>1. /\ tree[k].start < Len(descriptors)
          /\ descriptors[tree[k].start + 1].offset = tree[k].offset
          /\ descriptors[tree[k].start + 1].length = tree[k].length
      BY <2>2 DEF FilesDescribed
    <3> DEFINE s == tree[k].start
    <3>2. s \in Nat /\ s < Len(descriptors)
      BY <1>5, <3>1
    <3>3. nodes[k].start = IF s >= index THEN s + by ELSE s
      BY <1>3, <1>4
    <3>4. nodes[k].offset = tree[k].offset /\ nodes[k].length = tree[k].length
      BY <1>3, <1>4
    <3> HIDE DEF s
    <3>6. CASE s >= index
      <4>1. s + 1 \in index + 1 .. Len(descriptors) /\ (s + 1) + by = (s + by) + 1
        BY <1>1, <3>2, <3>6
      <4>2. list[(s + by) + 1] = descriptors[s + 1]
        BY <1>2, <4>1
      <4>3. s + by < Len(list)
        BY <1>1, <1>2, <3>2
      <4>4. s + by # index
        BY <1>1, <3>2, <3>6
      <4> QED
        BY <3>1, <3>3, <3>4, <3>6, <4>2, <4>3, <4>4 DEF s
    <3>7. CASE s < index
      <4>1. s + 1 \in 1 .. index /\ s # index /\ ~ s >= index
        BY <1>1, <3>2, <3>7
      <4>2. list[s + 1] = descriptors[s + 1] /\ s < Len(list)
        BY <1>1, <1>2, <3>2, <4>1
      <4> QED
        BY <3>1, <3>3, <3>4, <4>1, <4>2 DEF s
    <3> QED
      BY <1>1, <3>2, <3>6, <3>7
  <2>3. nodes[k].isDir = tree[k].isDir
    BY <1>3, <1>4
  <2> QED
    BY <2>1, <2>2, <2>3
<1>7. node.isDir \in BOOLEAN
  BY DEF Nodes
<1>8. ASSUME NEW k, k = Len(tree) + 1
      PROVE  /\ nodes[k].isDir => nodes[k].length = 0 /\ nodes[k].end <= Len(list)
             /\ ~ nodes[k].isDir =>
                   /\ nodes[k].start < Len(list) /\ nodes[k].start = index
                   /\ list[nodes[k].start + 1].offset = nodes[k].offset
                   /\ list[nodes[k].start + 1].length = nodes[k].length
  <2>1. nodes[k] = node
    BY <1>4, <1>8
  <2>2. list[index + 1] = new[1] /\ index < Len(list)
    BY <1>1, <1>2
  <2> HIDE DEF by
  <2>3. CASE node.isDir = TRUE
    BY <1>2, <2>1, <2>3 DEF by
  <2>4. CASE node.isDir = FALSE
    BY <2>1, <2>2, <2>4
  <2> QED
    BY <1>7, <2>3, <2>4
<1>9. \A k \in DOMAIN nodes : k \in DOMAIN tree \/ k = Len(tree) + 1
  BY <1>1, <1>4
<1>10. ASSUME NEW k \in DOMAIN nodes
       PROVE  /\ nodes[k].isDir => nodes[k].length = 0 /\ nodes[k].end <= Len(list)
              /\ ~ nodes[k].isDir =>
                    /\ nodes[k].start < Len(list)
                    /\ list[nodes[k].start + 1].offset = nodes[k].offset
                    /\ list[nodes[k].start + 1].length = nodes[k].length
  BY <1>6, <1>8, <1>9
<1>11. ASSUME NEW j \in DOMAIN nodes, NEW k \in DOMAIN nodes,
              j # k, ~ nodes[j].isDir, ~ nodes[k].isDir
       PROVE  nodes[j].start # nodes[k].start
  <2>1. CASE j \in DOMAIN tree /\ k \in DOMAIN tree
    <3>1. tree[j].start # tree[k].start
      BY <1>3, <1>4, <1>11, <2>1 DEF FilesDescribed
    <3> DEFINE s == tree[j].start
               t == tree[k].start
    <3>2. s \in Nat /\ t \in Nat /\ s # t
      BY <1>5, <2>1, <3>1
    <3>3. /\ nodes[j].start = IF s >= index THEN s + by ELSE s
          /\ nodes[k].start = IF t >= index THEN t + by ELSE t
      BY <1>3, <1>4, <2>1
    <3> HIDE DEF s, t, by
    <3>4. by \in Nat /\ index \in Nat
      BY <1>1
    <3> QED
      BY <3>2, <3>3, <3>4
  <2>2. CASE j \in DOMAIN tree /\ k = Len(tree) + 1
    BY <1>6, <1>8, <1>11, <2>2
  <2>3. CASE j = Len(tree) + 1 /\ k \in DOMAIN tree
    BY <1>6, <1>8, <1>11, <2>3
  <2> QED
    BY <1>9, <1>11, <2>1, <2>2, <2>3
<1>12. FilesDescribed(nodes, list, Len(list))
  BY <1>10, <1>11 DEF FilesDescribed
<1> QED
  BY <1>12 DEF list, nodes, shifted

\* A createX adds one node and leaves the extents of the others.
LEMMA CompletedIs ==
  ASSUME tree \in Seq(Nodes),
         creation # NoCreation => creation.at \in Nat /\ creation.node \in Nodes
  PROVE  /\ Completed \in Seq(Nodes) /\ Len(Completed) >= Len(tree)
         /\ \A n \in DOMAIN tree :
               /\ Completed[n].isDir = tree[n].isDir
               /\ Completed[n].offset = tree[n].offset /\ Completed[n].length = tree[n].length
<1>1. CASE creation = NoCreation
  BY <1>1 DEF Completed
<1>2. CASE creation # NoCreation
  <2> DEFINE by == IF creation.node.isDir THEN 2 ELSE 1
             shifted == Shifted(creation.at, by, creation.node)
  <2>1. by \in Nat
    OBVIOUS
  <2> HIDE DEF by
  <2>2. /\ shifted \in Seq(Nodes) /\ Len(shifted) = Len(tree)
        /\ \A n \in DOMAIN tree :
              /\ shifted[n].isDir = tree[n].isDir
              /\ shifted[n].offset = tree[n].offset /\ shifted[n].length = tree[n].length
    BY <1>2, <2>1, ShiftedIs
  <2>3. Completed = Append(shifted, creation.node)
    BY <1>2 DEF Completed, by
  <2> HIDE DEF shifted
  <2> QED
    BY <1>2, <2>2, <2>3
<1> QED
  BY <1>1, <1>2

\* A write gives a file without content its extent, in node and descriptor.
ExtendedTree(n, o, count) == [tree EXCEPT ![n].offset = o, ![n].length = @ + count]
ExtendedList(index, o, count) ==
    [descriptors EXCEPT ![index].offset = o, ![index].length = @ + count]

IsExtension(nodes, list, index, o, count) ==
    /\ index \in DOMAIN descriptors /\ descriptors[index].length = 0
    /\ nodes \in Seq(Nodes) /\ Len(nodes) = Len(tree)
    /\ list \in Seq(Descriptors) /\ Len(list) = Len(descriptors)
    /\ FilesDescribed(nodes, list, Len(list))
    /\ list[index].offset = o /\ list[index].length = count
    /\ \A i \in DOMAIN descriptors \ {index} : list[i] = descriptors[i]

LEMMA ExtendedDescribed ==
  ASSUME descriptors \in Seq(Descriptors), tree \in Seq(Nodes),
         FilesDescribed(tree, descriptors, Len(descriptors)),
         NEW n \in DOMAIN tree, tree[n].isDir = FALSE, tree[n].length = 0,
         NEW index, index = tree[n].start + 1,
         NEW o \in Nat, NEW count \in Nat
  PROVE  IsExtension(ExtendedTree(n, o, count), ExtendedList(index, o, count), index, o, count)
<1> DEFINE nodes == ExtendedTree(n, o, count)
           list == ExtendedList(index, o, count)
           length == tree[n].length + count
           node == Extended(tree[n], o, length)
           d == Extended(descriptors[index], o, descriptors[index].length + count)
<1>1. \A k \in DOMAIN tree : tree[k] \in Nodes
  OBVIOUS
<1>2. \A k \in DOMAIN tree : tree[k].start \in Nat /\ tree[k].length \in Nat
  BY <1>1 DEF Nodes
<1>3. /\ tree[n].start < Len(descriptors)
      /\ descriptors[index].offset = tree[n].offset
      /\ descriptors[index].length = tree[n].length
  BY DEF FilesDescribed
<1>4. Len(descriptors) \in Nat /\ DOMAIN descriptors = 1 .. Len(descriptors)
  OBVIOUS
<1>5. index \in DOMAIN descriptors /\ tree[n].length + count \in Nat
  BY <1>2, <1>3, <1>4
<1>6. nodes = [tree EXCEPT ![n] = node]
  BY DEF Extended, ExtendedTree
<1>7. list = [descriptors EXCEPT ![index] = d]
  BY DEF Extended, ExtendedList
<1>8. /\ node \in Nodes /\ node.offset = o /\ node.length = length
      /\ node.isDir = tree[n].isDir /\ node.start = tree[n].start /\ node.end = tree[n].end
  <2>1. tree[n] \in Nodes /\ length \in Nat
    BY <1>1, <1>5
  <2> HIDE DEF length, nodes, list, d
  <2>2. LET m == Extended(tree[n], o, length)
        IN  /\ m \in Nodes /\ m.offset = o /\ m.length = length
            /\ m.isDir = tree[n].isDir /\ m.start = tree[n].start /\ m.end = tree[n].end
    <3> DEFINE x == tree[n]
    <3>1. x \in Nodes
      BY <2>1
    <3> HIDE DEF x
    <3>2. LET m == Extended(x, o, length)
          IN  /\ m \in Nodes /\ m.offset = o /\ m.length = length
              /\ m.isDir = x.isDir /\ m.start = x.start /\ m.end = x.end
      BY <2>1, <3>1, NodeExtended
    <3> QED
      BY <3>2 DEF x
  <2> QED
    BY <2>2 DEF length
<1>9. d \in Descriptors /\ d.offset = o /\ d.length = tree[n].length + count
  <2>1. descriptors[index] \in Descriptors
    BY <1>5
  <2>2. descriptors[index].length = tree[n].length
    BY <1>3
  <2>3. descriptors[index].length + count \in Nat
    BY <1>5, <2>2
  <2>4. d \in Descriptors /\ d.offset = o /\ d.length = descriptors[index].length + count
    <3> DEFINE l == descriptors[index].length + count
               old == descriptors[index]
    <3>1. l \in Nat /\ old \in Descriptors
      BY <2>1, <2>3
    <3> HIDE DEF l, old
    <3>2. DescriptorOf(Extended(old, o, l), old, o, l)
      BY <3>1, DescriptorExtended
    <3>3. d = Extended(old, o, l)
      BY DEF l, old
    <3> HIDE DEF d
    <3>4. d \in Descriptors /\ d.offset = o /\ d.length = l
      BY <3>2, <3>3 DEF DescriptorOf
    <3> QED
      BY <3>4 DEF l, old
  <2> QED
    BY <2>2, <2>4, Zenon
<1> HIDE DEF node, d, nodes, list
<1>10. /\ nodes \in Seq(Nodes) /\ Len(nodes) = Len(tree) /\ DOMAIN nodes = DOMAIN tree
       /\ nodes[n] = node /\ \A k \in DOMAIN tree \ {n} : nodes[k] = tree[k]
  BY <1>6, <1>8
<1>11. /\ list \in Seq(Descriptors) /\ Len(list) = Len(descriptors)
       /\ list[index] = d /\ \A i \in DOMAIN descriptors \ {index} : list[i] = descriptors[i]
  BY <1>5, <1>7, <1>9
<1>12. ASSUME NEW k \in DOMAIN tree
       PROVE  /\ nodes[k].isDir => nodes[k].length = 0 /\ nodes[k].end <= Len(list)
              /\ ~ nodes[k].isDir =>
                    /\ nodes[k].start < Len(list)
                    /\ list[nodes[k].start + 1].offset = nodes[k].offset
                    /\ list[nodes[k].start + 1].length = nodes[k].length
              /\ nodes[k].isDir = tree[k].isDir /\ nodes[k].start = tree[k].start
  <2>1. CASE k = n
    BY <1>3, <1>8, <1>9, <1>10, <1>11, <2>1
  <2>2. CASE k # n /\ ~ tree[k].isDir
    <3>1. tree[k].start # tree[n].start
      BY <2>2 DEF FilesDescribed
    <3>2. /\ tree[k].start < Len(descriptors)
          /\ descriptors[tree[k].start + 1].offset = tree[k].offset
          /\ descriptors[tree[k].start + 1].length = tree[k].length
      BY <2>2 DEF FilesDescribed
    <3>3. tree[k].start + 1 \in DOMAIN descriptors \ {index}
      BY <1>2, <1>4, <3>1, <3>2
    <3> QED
      BY <1>10, <1>11, <2>2, <3>2, <3>3
  <2>3. CASE k # n /\ tree[k].isDir
    <3>1. tree[k].length = 0 /\ tree[k].end <= Len(descriptors)
      BY <2>3 DEF FilesDescribed
    <3> QED
      BY <1>10, <1>11, <2>3, <3>1
  <2> QED
    BY <2>1, <2>2, <2>3
<1>13. ASSUME NEW j \in DOMAIN nodes, NEW k \in DOMAIN nodes,
              j # k, ~ nodes[j].isDir, ~ nodes[k].isDir
       PROVE  nodes[j].start # nodes[k].start
  BY <1>10, <1>12, <1>13 DEF FilesDescribed
<1>14. FilesDescribed(nodes, list, Len(list))
  BY <1>10, <1>12, <1>13 DEF FilesDescribed
<1>15. IsExtension(nodes, list, index, o, count)
  BY <1>3, <1>5, <1>9, <1>10, <1>11, <1>14 DEF IsExtension
<1> QED
  BY <1>15 DEF nodes, list

-----------------------------------------------------------------------------
(* The inductive invariant                                                 *)

Writing == {"writeNum", "writeOff", "writeList"}

\* Every node of the tree has the extent its descriptor says, the node a
\* running createX has yet to add included.
MemoryInv ==
    /\ num \in Nat /\ off \in Nat /\ written \in Nat
    /\ descriptors \in Seq(Descriptors) /\ num = Len(descriptors)
    /\ tree \in Seq(Nodes)
    /\ wadPc \in {"down", "idle", "crashed"} \union Writing
    /\ wadPc \in {"idle"} \union Writing => Len(tree) > 0
    /\ wadPc \in Writing => num > 0
    /\ \/ creation = NoCreation
       \/ wadPc \in Writing /\ creation.at \in Nat /\ creation.node \in Nodes
    /\ FilesDescribed(Completed, descriptors, Len(descriptors))

\* The first count descriptors are on disk.
ListWritten(count) ==
    \A i \in 1 .. count :
       /\ off + (i - 1) * DescSize \in DOMAIN disk.cells
       /\ disk.cells[off + (i - 1) * DescSize].desc = descriptors[i]

\* The list is last on disk, and a list that is whole is the one of the last
\* call to finish: while a call rewrites it, its last part is missing.
DiskInv ==
    /\ IsDisk(disk)
    /\ NoPartFrom(disk, disk.off + disk.num * DescSize)
    /\ IsWhole(disk) => Apart(ListOf(disk), disk.off)
    /\ wadPc = "idle" => disk.num = num /\ disk.off = off
    /\ wadPc = "writeNum" =>
          /\ disk.num <= num /\ disk.off <= off
          /\ disk.num = num \/ disk.off = off
    /\ wadPc = "writeOff" => disk.num = num /\ disk.off <= off
    /\ wadPc = "writeList" =>
          /\ disk.num = num /\ disk.off = off
          /\ written \in 1 .. num + 1 /\ ListWritten(written - 1)
    /\ wadPc \in {"writeNum", "writeOff"} \/ (wadPc = "writeList" /\ written <= num) =>
          NoPartFrom(disk, off + num * DescSize - 1)

LumpsInv == MemoryInv /\ Apart(descriptors, off) /\ DiskInv

\* What is left of it once a write of header or list has fallen short or a torn
\* list is loaded: the list is not rewritten before the place the header has
\* for it, and what falls short of a place falls on the list itself.
HeaderInv ==
    /\ IsDisk(disk)
    /\ wadPc # "down" => disk.off <= off
    /\ wadPc = "writeList" => written \in 1 .. num + 1 /\ lag <= (written - 1) * DescSize
    /\ lag \in Nat /\ astray \in Nat
    /\ lag > 0 => astray > 0

ShapeInv == MemoryInv /\ HeaderInv

LEMMA SomeNode == ASSUME NEW node \in Nodes PROVE node # <<>>
<1>1. "name" \in DOMAIN node
  BY DEF Nodes
<1>2. DOMAIN << >> = {}
  OBVIOUS
<1> QED
  BY <1>1, <1>2

LEMMA MoreParts ==
  ASSUME NEW d, NEW limit \in Int, NEW more \in Int, limit <= more, DOMAIN d.cells \subseteq Nat,
         NoPartFrom(d, limit)
  PROVE  NoPartFrom(d, more)
BY DEF NoPartFrom

\* While the list is rewritten its last part is missing.
LEMMA Torn ==
  ASSUME LumpsInv,
         wadPc \in {"writeNum", "writeOff"} \/ (wadPc = "writeList" /\ written <= num)
  PROVE  /\ num \in Nat /\ num > 0 /\ off \in Nat
         /\ NoPartFrom(disk, off + num * DescSize - 1)
BY DEF LumpsInv, MemoryInv, DiskInv, Writing

LEMMA InitInv == ASSUME Init PROVE LumpsInv
<1>1. disk \in InitialDisks
  BY DEF Init
<1>2. Completed = <<>>
  BY DEF Init, Completed
<1>3. /\ IsDisk(disk) /\ NoPartFrom(disk, disk.off + disk.num * DescSize)
      /\ IsWhole(disk) => Apart(ListOf(disk), disk.off)
  BY <1>1, DisksAssumption
<1>4. DiskInv
  BY <1>3 DEF Init, DiskInv
<1>5. FilesDescribed(<<>>, <<>>, 0) /\ Apart(<<>>, 0) /\ Len(<<>>) = 0
  BY DEF FilesDescribed, Apart
<1>6. MemoryInv
  BY <1>2, <1>5 DEF Init, MemoryInv, Writing
<1>7. Apart(descriptors, off)
  BY <1>5 DEF Init
<1> QED
  BY <1>4, <1>6, <1>7 DEF LumpsInv

LEMMA InitShape == ASSUME Init PROVE ShapeInv
<1>1. MemoryInv /\ IsDisk(disk)
  BY InitInv DEF LumpsInv, DiskInv
<1>2. HeaderInv
  BY <1>1 DEF Init, HeaderInv
<1> QED
  BY <1>1, <1>2 DEF ShapeInv

\* The steps of a call that leave memory alone.
LEMMA MemoryKept ==
  ASSUME MemoryInv, UNCHANGED <<num, off, descriptors, tree, creation>>, written' \in Nat,
         \/ wadPc' = wadPc
         \/ wadPc \in Writing /\ wadPc' \in Writing
         \/ wadPc = "idle" /\ wadPc' = "crashed"
  PROVE  MemoryInv'
<1>1. Completed' = Completed
  BY DEF Completed, Shifted
<1> QED
  BY <1>1 DEF MemoryInv, Writing

LEMMA SameInv == ASSUME LumpsInv, UNCHANGED vars PROVE LumpsInv'
<1>1. MemoryInv'
  BY MemoryKept DEF LumpsInv, MemoryInv, vars, memory
<1>2. DiskInv'
  BY DEF LumpsInv, DiskInv, vars, memory, ListWritten
<1> QED
  BY <1>1, <1>2 DEF LumpsInv, vars, memory

LEMMA LoadMemory ==
  ASSUME MemoryInv, IsDisk(disk), NEW list \in Seq(Descriptors), Len(list) = disk.num, Load(list)
  PROVE  /\ MemoryInv'
         /\ num' = disk.num /\ off' = disk.off /\ descriptors' = list
         /\ wadPc' \in {"crashed", "idle"} /\ UNCHANGED <<disk, lag>>
<1> DEFINE p == Parse(list, disk.num)
<1>1. disk.num \in Nat /\ disk.off \in Nat
  BY DEF IsDisk
<1>2. p \in ParseStates /\ FilesDescribed(p.nodes, list, Len(list))
  BY ParseDescribes
<1>3. /\ num' = disk.num /\ off' = disk.off /\ descriptors' = list /\ tree' = p.nodes
      /\ wadPc' \in {"crashed", "idle"}
      /\ UNCHANGED <<disk, written, creation, lag>>
  BY Zenon DEF Load
<1>4. written \in Nat /\ creation = NoCreation
  BY DEF MemoryInv, Load, Writing
<1>5. Completed' = tree'
  BY <1>3, <1>4 DEF Completed
<1>6. p.nodes \in Seq(Nodes) /\ Len(p.nodes) > 0
  BY <1>2 DEF ParseStates
<1> HIDE DEF p
<1>7. MemoryInv'
  BY <1>1, <1>2, <1>3, <1>4, <1>5, <1>6 DEF MemoryInv, Writing
<1> QED
  BY <1>3, <1>7

LEMMA LoadWholeInv == ASSUME LumpsInv, LoadWhole PROVE LumpsInv'
<1> DEFINE list == ListOf(disk)
<1>1. IsDisk(disk) /\ IsWhole(disk) /\ Apart(list, disk.off) /\ Load(list)
  BY DEF LumpsInv, DiskInv, LoadWhole, ListIsWhole, ListOnDisk
<1>2. list \in Seq(Descriptors) /\ Len(list) = disk.num
  BY <1>1, ListIsTyped
<1> HIDE DEF list
<1>3. /\ MemoryInv'
      /\ num' = disk.num /\ off' = disk.off /\ descriptors' = list
      /\ wadPc' \in {"crashed", "idle"} /\ UNCHANGED disk
  BY <1>1, <1>2, LoadMemory DEF LumpsInv
<1>4. DiskInv'
  BY <1>3 DEF LumpsInv, DiskInv
<1> QED
  BY <1>1, <1>3, <1>4 DEF LumpsInv

LEMMA GoDownMemory == ASSUME GoDown PROVE MemoryInv' /\ Apart(descriptors, off)'
<1>1. /\ num' = 0 /\ off' = 0 /\ descriptors' = <<>> /\ tree' = <<>> /\ wadPc' = "down"
      /\ written' = 0 /\ creation' = NoCreation
  BY DEF GoDown, Forget
<1>2. Completed' = <<>>
  BY <1>1 DEF Completed
<1>3. FilesDescribed(<<>>, <<>>, 0) /\ Apart(<<>>, 0) /\ Len(<<>>) = 0
  BY DEF FilesDescribed, Apart
<1> QED
  BY <1>1, <1>2, <1>3 DEF MemoryInv, Writing

LEMMA GoDownInv == ASSUME LumpsInv, GoDown PROVE LumpsInv'
<1>1. wadPc' = "down" /\ disk' = disk
  BY DEF GoDown
<1>2. DiskInv'
  BY <1>1 DEF LumpsInv, DiskInv
<1> QED
  BY <1>2, GoDownMemory DEF LumpsInv

-----------------------------------------------------------------------------
(* createX keeps the invariant                                             *)

LEMMA PathsAreNamed ==
  ASSUME NEW path \in Paths
  PROVE  /\ path \in Seq(Names) /\ Cleaned(path) \in Seq(Names)
         /\ ParentPath(path) \in Seq(Names) /\ Cleaned(ParentPath(path)) \in Seq(Names)
         /\ NameOf(path) \in Names
<1>1. path \in Seq(Names)
  BY PathsAssumption
<1>2. ASSUME NEW q \in Seq(Names)
      PROVE  /\ Cleaned(q) \in Seq(Names) /\ Len(Cleaned(q)) <= Len(q)
             /\ Cleaned(q) # <<>> => Len(Cleaned(q)) > 0
  <2>1. CASE EndsInSlash(q)
    <3> DEFINE k == Len(q) - 1
    <3>1. q # <<>>
      BY <2>1 DEF EndsInSlash
    <3>2. k \in 0 .. Len(q) /\ k \in Nat /\ k <= Len(q)
      BY <3>1
    <3>3. Cleaned(q) = SubSeq(q, 1, k)
      BY <2>1 DEF Cleaned
    <3> HIDE DEF k
    <3>4. SubSeq(q, 1, k) \in Seq(Names) /\ Len(SubSeq(q, 1, k)) = k
      BY <3>2
    <3> DEFINE r == SubSeq(q, 1, k)
    <3> HIDE DEF r
    <3>5. r \in Seq(Names) /\ Len(r) = k /\ Cleaned(q) = r
      BY <3>3, <3>4 DEF r
    <3>6. r # <<>> => Len(r) > 0
      BY <3>5
    <3> QED
      BY <3>2, <3>5, <3>6
  <2>2. CASE ~ EndsInSlash(q)
    BY <2>2 DEF Cleaned
  <2> QED
    BY <2>1, <2>2
<1>3. /\ Cleaned(path) \in Seq(Names) /\ Len(Cleaned(path)) <= Len(path)
      /\ Cleaned(path) # <<>> => Len(Cleaned(path)) > 0
  BY <1>1, <1>2
<1>4. ParentPath(path) \in Seq(Names)
  <2>1. CASE Cleaned(path) = <<>>
    BY <2>1 DEF ParentPath
  <2>2. CASE Cleaned(path) # <<>>
    <3> DEFINE k == Len(Cleaned(path)) - 1
    <3>3. k + 1 > 0 /\ k + 1 \in Nat /\ Len(path) \in Nat
      BY <1>1, <1>3, <2>2
    <3>1. k \in 0 .. Len(path)
      BY <1>3, <3>3
    <3>2. ParentPath(path) = SubSeq(path, 1, k)
      BY <2>2 DEF ParentPath
    <3> HIDE DEF k
    <3> QED
      BY <1>1, <3>1, <3>2
  <2> QED
    BY <2>1, <2>2
<1>5. NameOf(path) \in Names
  <2>1. CASE Cleaned(path) = <<>>
    BY <2>1 DEF NameOf, Plain, Marked, Names, Bases
  <2>2. CASE Cleaned(path) # <<>>
    <3> DEFINE k == Len(Cleaned(path))
    <3>3. k > 0 /\ k \in Nat /\ Len(path) \in Nat
      BY <1>1, <1>3, <2>2
    <3>1. k \in 1 .. Len(path)
      BY <1>3, <3>3
    <3>2. NameOf(path) = path[k]
      BY <2>2 DEF NameOf
    <3> HIDE DEF k
    <3> QED
      BY <1>1, <3>1, <3>2
  <2> QED
    BY <2>1, <2>2
<1> QED
  BY <1>1, <1>2, <1>3, <1>4, <1>5

LEMMA FoundInMemory ==
  ASSUME MemoryInv, wadPc = "idle", NEW path \in Paths
  PROVE  FindNode(path) \in 0 .. Len(tree) /\ FindNode(ParentPath(path)) \in 0 .. Len(tree)
<1>1. tree \in Seq(Nodes) /\ Len(tree) > 0
  BY DEF MemoryInv
<1>2. Cleaned(path) \in Seq(Names) /\ Cleaned(ParentPath(path)) \in Seq(Names)
  BY PathsAreNamed
<1> QED
  BY <1>1, <1>2, NodeAtIsNode DEF FindNode

LEMMA FoundIsNode ==
  ASSUME LumpsInv, wadPc = "idle", NEW path \in Paths
  PROVE  FindNode(path) \in 0 .. Len(tree) /\ FindNode(ParentPath(path)) \in 0 .. Len(tree)
BY FoundInMemory DEF LumpsInv

\* A directory's end, where createX inserts, is within the list.
LEMMA IndexInMemory ==
  ASSUME MemoryInv, wadPc = "idle", NEW n \in 0 .. Len(tree), TakesChildren(n)
  PROVE  InsertIndex(n) \in 0 .. Len(descriptors)
<1>1. /\ tree \in Seq(Nodes) /\ descriptors \in Seq(Descriptors)
      /\ FilesDescribed(tree, descriptors, Len(descriptors))
  BY DEF MemoryInv, Writing, Completed
<1>2. n \in DOMAIN tree /\ tree[n].isDir
  BY <1>1 DEF TakesChildren
<1>3. tree[n].end <= Len(descriptors)
  BY <1>1, <1>2 DEF FilesDescribed
<1>4. tree[n] \in Nodes
  BY <1>1, <1>2
<1>5. tree[n].end \in Nat
  BY <1>4 DEF Nodes
<1> QED
  BY <1>1, <1>3, <1>5 DEF InsertIndex

LEMMA IndexInList ==
  ASSUME LumpsInv, wadPc = "idle", NEW n \in 0 .. Len(tree), TakesChildren(n)
  PROVE  InsertIndex(n) \in 0 .. Len(descriptors)
BY IndexInMemory DEF LumpsInv

\* What createDirectory and createFile have in common.
IsCreation(new, index, node) ==
    /\ new \in Seq(Descriptors) /\ index \in 0 .. Len(descriptors) /\ node \in Nodes
    /\ \/ node.isDir = TRUE /\ node.length = 0 /\ node.end = index + 1 /\ Len(new) = 2
       \/ /\ node.isDir = FALSE /\ node.start = index /\ Len(new) = 1
          /\ node.offset = new[1].offset /\ node.length = new[1].length
    /\ \A j \in 1 .. Len(new) : new[j].length = 0
    /\ wadPc = "idle" /\ Create(new, index, node)

LEMMA CreateMemory ==
  ASSUME MemoryInv, NEW new, NEW index, NEW node, IsCreation(new, index, node)
  PROVE  /\ MemoryInv'
         /\ Len(new) \in Nat \ {0}
         /\ descriptors' = Inserted(new, index) /\ num' = num + Len(new)
         /\ wadPc' = "writeNum" /\ UNCHANGED <<disk, off, faults>>
<1>0. /\ wadPc = "idle" /\ new \in Seq(Descriptors)
      /\ index \in 0 .. Len(descriptors) /\ node \in Nodes
      /\ \/ node.isDir = TRUE /\ node.length = 0 /\ node.end = index + 1 /\ Len(new) = 2
         \/ /\ node.isDir = FALSE /\ node.start = index /\ Len(new) = 1
            /\ node.offset = new[1].offset /\ node.length = new[1].length
      /\ Create(new, index, node)
  BY DEF IsCreation
<1> DEFINE by == Len(new)
           list == Inserted(new, index)
<1>1. /\ descriptors' = list /\ num' = num + by /\ creation' = [at |-> index, node |-> node]
      /\ wadPc' = "writeNum" /\ disk' = disk /\ off' = off /\ tree' = tree /\ written' = written
      /\ faults' = faults
  BY <1>0 DEF Create
<1>2. /\ num \in Nat /\ off \in Nat /\ written \in Nat
      /\ descriptors \in Seq(Descriptors) /\ num = Len(descriptors) /\ tree \in Seq(Nodes)
      /\ Len(tree) > 0 /\ creation = NoCreation
      /\ FilesDescribed(Completed, descriptors, Len(descriptors))
  BY <1>0 DEF MemoryInv, Writing
<1>3. by \in Nat /\ by > 0
  <2>1. by = 1 \/ by = 2
    BY <1>0, Zenon
  <2>2. \A x : x = 1 \/ x = 2 => x \in Nat /\ x > 0
    OBVIOUS
  <2> QED
    BY <2>1, <2>2, Zenon
<1>4. list \in Seq(Descriptors) /\ Len(list) = num + by
  BY <1>0, <1>2, InsertedIs
<1>6. FilesDescribed(tree, descriptors, Len(descriptors))
  BY <1>2 DEF Completed
<1>7. FilesDescribed(Append(Shifted(index, by, node), node), list, Len(list))
  <2>1. \/ node.isDir = TRUE /\ node.length = 0 /\ node.end <= Len(descriptors) + Len(new)
        \/ /\ node.isDir = FALSE /\ node.start = index
           /\ node.offset = new[1].offset /\ node.length = new[1].length
    BY <1>0, <1>2
  <2> QED
    BY <1>0, <1>2, <1>3, <1>6, <2>1, CreatedDescribed
<1>8. creation'.at = index /\ creation'.node = node /\ creation' # NoCreation
  BY <1>0, <1>1, SomeNode DEF NoCreation
<1>9. by = IF node.isDir THEN 2 ELSE 1
  BY <1>0
<1>10. Completed' = Append(Shifted(index, by, node), node)
  BY <1>1, <1>8, <1>9, Zenon DEF Completed, Shifted
<1> HIDE DEF list, by
<1>11. MemoryInv'
  BY <1>0, <1>1, <1>2, <1>3, <1>4, <1>7, <1>8, <1>10 DEF MemoryInv, Writing
<1> QED
  BY <1>1, <1>3, <1>11 DEF list, by

LEMMA CreateInv ==
  ASSUME LumpsInv, NEW new, NEW index, NEW node, IsCreation(new, index, node)
  PROVE  LumpsInv'
<1> DEFINE by == Len(new)
           list == Inserted(new, index)
<1>1. /\ MemoryInv' /\ by \in Nat /\ by > 0 /\ descriptors' = list /\ num' = num + by
      /\ wadPc' = "writeNum" /\ disk' = disk /\ off' = off
  BY CreateMemory DEF LumpsInv
<1>2. /\ num \in Nat /\ off \in Nat /\ wadPc = "idle"
      /\ descriptors \in Seq(Descriptors) /\ Apart(descriptors, off)
      /\ new \in Seq(Descriptors) /\ index \in 0 .. Len(descriptors)
      /\ \A j \in 1 .. Len(new) : new[j].length = 0
  BY DEF LumpsInv, MemoryInv, IsCreation
<1>5. Apart(list, off)
  BY <1>2, ApartInserted
<1> HIDE DEF list, by
<1>12. /\ IsDisk(disk) /\ NoPartFrom(disk, disk.off + disk.num * DescSize)
       /\ IsWhole(disk) => Apart(ListOf(disk), disk.off)
       /\ disk.num = num /\ disk.off = off /\ DOMAIN disk.cells \subseteq Nat
  BY <1>2 DEF LumpsInv, DiskInv, IsDisk
<1>13. NoPartFrom(disk, off' + num' * DescSize - 1)
  <2> DEFINE a == off + num * DescSize
             b == off + (num + by) * DescSize - 1
  <2>1. a \in Int /\ b \in Int /\ a <= b
    <3>1. num + by \in Nat /\ num < num + by
      BY <1>1, <1>2
    <3>2. /\ num * DescSize \in Nat /\ (num + by) * DescSize \in Nat /\ DescSize \in Nat \ {0}
          /\ num * DescSize + DescSize <= (num + by) * DescSize
      BY <1>2, <3>1, SizeAdds
    <3> DEFINE x == num * DescSize
               y == (num + by) * DescSize
    <3>3. a = off + x /\ b = off + y - 1 /\ x \in Nat /\ y \in Nat /\ x + 1 <= y
      BY <3>2
    <3> HIDE DEF a, b, x, y
    <3> QED
      BY <1>2, <3>3
  <2>2. NoPartFrom(disk, a)
    BY <1>12
  <2> HIDE DEF a, b
  <2>3. NoPartFrom(disk, b)
    BY <1>12, <2>1, <2>2, MoreParts
  <2> QED
    BY <1>1, <2>3 DEF b
<1>14. DiskInv'
  BY <1>1, <1>2, <1>12, <1>13 DEF DiskInv
<1> QED
  BY <1>1, <1>5, <1>14 DEF LumpsInv

LEMMA DirectoryIsCreation ==
  ASSUME MemoryInv, NEW path \in Paths, CreateDirectory(path)
  PROVE  \E new, index, node : IsCreation(new, index, node)
<1> DEFINE name == NameOf(path)
           parent == FindNode(ParentPath(path))
           index == InsertIndex(parent)
           new == <<Descriptor(StartName(name), 0, 0), Descriptor(EndName(name), 0, 0)>>
           node == DirNode(name, parent, index, index + 1)
<1>1. wadPc = "idle" /\ TakesChildren(parent) /\ Create(new, index, node)
  BY DEF CreateDirectory, DirectoryRefused
<1>2. parent \in 0 .. Len(tree) /\ name \in Names
  BY <1>1, FoundInMemory, PathsAreNamed
<1>3. tree \in Seq(Nodes) /\ descriptors \in Seq(Descriptors)
  BY DEF MemoryInv
<1> HIDE DEF name, parent
<1>4. index \in 0 .. Len(descriptors)
  BY <1>1, <1>2, <1>3, IndexInMemory
<1>5. parent \in Nat /\ index \in Nat
  BY <1>2, <1>4
<1>6. StartName(name) \in Names /\ EndName(name) \in Names
  BY <1>2 DEF StartName, EndName, Plain, Marked, Names, Bases
<1>7. new \in Seq(Descriptors) /\ Len(new) = 2 /\ \A j \in 1 .. Len(new) : new[j].length = 0
  BY <1>6 DEF Descriptor, Descriptors
<1> HIDE DEF index
<1>8. node \in Nodes /\ node.isDir = TRUE /\ node.length = 0 /\ node.end = index + 1
  BY <1>2, <1>5 DEF DirNode, Nodes
<1> HIDE DEF new, node
<1>9. IsCreation(new, index, node)
  BY <1>1, <1>4, <1>7, <1>8 DEF IsCreation
<1> QED
  BY <1>9, Zenon

LEMMA CreateDirectoryInv ==
  ASSUME LumpsInv, NEW path \in Paths, CreateDirectory(path)
  PROVE  LumpsInv'
<1>1. PICK new, index, node : IsCreation(new, index, node)
  BY DirectoryIsCreation, Zenon DEF LumpsInv
<1> QED
  BY <1>1, CreateInv

LEMMA FileIsCreation ==
  ASSUME MemoryInv, NEW path \in Paths, CreateFile(path)
  PROVE  \E new, index, node : IsCreation(new, index, node)
<1> DEFINE name == NameOf(path)
           parent == FindNode(ParentPath(path))
           index == InsertIndex(parent)
           d == Descriptor(name, 0, 0)
           new == <<d>>
           node == FileNode(d, parent, index)
<1>1. wadPc = "idle" /\ TakesChildren(parent) /\ Create(new, index, node)
  BY DEF CreateFile, FileRefused
<1>2. parent \in 0 .. Len(tree) /\ name \in Names
  BY <1>1, FoundInMemory, PathsAreNamed
<1> HIDE DEF name, parent
<1>4. index \in 0 .. Len(descriptors)
  BY <1>1, <1>2, IndexInMemory
<1>5. parent \in Nat /\ index \in Nat
  BY <1>2, <1>4
<1>6. d \in Descriptors /\ d.name = name /\ d.offset = 0 /\ d.length = 0
  BY <1>2 DEF Descriptor, Descriptors
<1> HIDE DEF d, index
<1>7. new \in Seq(Descriptors) /\ Len(new) = 1 /\ new[1] = d
  BY <1>6
<1>8. /\ node \in Nodes /\ node.isDir = FALSE /\ node.start = index
      /\ node.offset = 0 /\ node.length = 0
  BY <1>2, <1>5, <1>6 DEF FileNode, Nodes
<1> HIDE DEF new, node
<1>9. \A j \in 1 .. Len(new) : new[j].length = 0
  BY <1>6, <1>7
<1>10. IsCreation(new, index, node)
  BY <1>1, <1>4, <1>6, <1>7, <1>8, <1>9 DEF IsCreation
<1> QED
  BY <1>10, Zenon

LEMMA CreateFileInv ==
  ASSUME LumpsInv, NEW path \in Paths, CreateFile(path)
  PROVE  LumpsInv'
<1>1. PICK new, index, node : IsCreation(new, index, node)
  BY FileIsCreation, Zenon DEF LumpsInv
<1> QED
  BY <1>1, CreateInv

-----------------------------------------------------------------------------
(* Every write of header, list and bytes keeps the invariant               *)

LEMMA DiskIsDisk ==
  ASSUME LumpsInv
  PROVE  /\ IsDisk(disk) /\ disk.num \in Nat /\ disk.off \in Nat
         /\ IsCells(disk.cells) /\ DOMAIN disk.cells \in SUBSET Nat
         /\ \A c \in DOMAIN disk.cells : IsCell(disk.cells[c])
BY DiskCells DEF LumpsInv, DiskInv, IsDisk

LEMMA NumReachesInv == ASSUME LumpsInv, NumReaches PROVE LumpsInv'
<1>1. /\ wadPc = "writeNum" /\ wadPc' = "writeOff" /\ disk' = [disk EXCEPT !.num = num]
      /\ UNCHANGED <<num, off, descriptors, tree, written, creation>>
  BY DEF NumReaches, memory
<1>2. /\ num \in Nat /\ num > 0 /\ off \in Nat /\ written \in Nat
      /\ NoPartFrom(disk, off + num * DescSize - 1)
      /\ disk.num <= num /\ disk.off <= off
      /\ disk.num = num \/ disk.off = off
      /\ NoPartFrom(disk, disk.off + disk.num * DescSize)
      /\ IsWhole(disk) => Apart(ListOf(disk), disk.off)
  BY <1>1 DEF LumpsInv, MemoryInv, DiskInv, Writing
<1>3. /\ disk'.num = num /\ disk'.off = disk.off /\ disk'.cells = disk.cells /\ IsDisk(disk')
  <2>1. disk' = Disk(num, disk.off, disk.cells)
    BY <1>1, DiskIsDisk, DiskReplaced
  <2> DEFINE o == disk.off
             cells == disk.cells
  <2>2. o \in Nat /\ IsCells(cells)
    BY DiskIsDisk
  <2> HIDE DEF o, cells
  <2>3. LET d == Disk(num, o, cells)
        IN  d.num = num /\ d.off = o /\ d.cells = cells /\ IsDisk(d)
    BY <1>2, <2>2, DiskFields
  <2> QED
    BY <2>1, <2>3 DEF o, cells
<1>4. disk.num \in Nat /\ disk.off \in Nat /\ DOMAIN disk.cells \subseteq Nat
  BY DiskIsDisk
<1>5. NoPartFrom(disk', off + num * DescSize - 1)
  BY <1>2, <1>3 DEF NoPartFrom
<1>6. NoPartFrom(disk', disk'.off + disk'.num * DescSize)
  <2> DEFINE a == disk.off + disk.num * DescSize
             b == disk.off + num * DescSize
  <2>1. a \in Int /\ b \in Int /\ a <= b
    <3>1. /\ disk.num * DescSize \in Nat /\ num * DescSize \in Nat
          /\ disk.num * DescSize <= num * DescSize
      <4> DEFINE m == disk.num
      <4>1. m \in Nat /\ m <= num
        BY <1>2, <1>4
      <4> HIDE DEF m
      <4>2. m * DescSize \in Nat /\ num * DescSize \in Nat /\ m * DescSize <= num * DescSize
        BY <1>2, <4>1, SizeAdds
      <4> QED
        BY <4>2 DEF m
    <3> QED
      BY <1>4, <3>1
  <2> HIDE DEF a, b
  <2>2. NoPartFrom(disk, b)
    BY <1>2, <1>4, <2>1, MoreParts DEF a
  <2>3. NoPartFrom(disk', b)
    BY <1>3, <2>2 DEF NoPartFrom
  <2> QED
    BY <1>3, <2>3 DEF b
<1>7. IsWhole(disk') => Apart(ListOf(disk'), disk'.off)
  <2>1. CASE disk.num = num
    <3>1. disk'.num = disk.num /\ disk'.off = disk.off /\ disk'.cells = disk.cells
      BY <1>3, <2>1
    <3>2. IsWhole(disk') => IsWhole(disk) /\ ListOf(disk) = ListOf(disk')
      BY <1>4, <3>1, BytesOnly
    <3> QED
      BY <1>2, <3>1, <3>2
  <2>2. CASE disk.off = off
    BY <1>2, <1>3, <1>5, <2>2, NotWhole
  <2> QED
    BY <1>2, <2>1, <2>2
<1>8. DiskInv'
  BY <1>1, <1>2, <1>3, <1>4, <1>5, <1>6, <1>7 DEF DiskInv
<1>9. MemoryInv'
  BY <1>1, <1>2, MemoryKept DEF LumpsInv, Writing
<1> QED
  BY <1>1, <1>8, <1>9 DEF LumpsInv

LEMMA OffReachesInv == ASSUME LumpsInv, OffReaches PROVE LumpsInv'
<1>1. /\ wadPc = "writeOff" /\ wadPc' = "writeList" /\ disk' = [disk EXCEPT !.off = off]
      /\ written' = 1 /\ UNCHANGED <<num, off, descriptors, tree, creation>>
  BY DEF OffReaches, memory
<1>2. /\ num \in Nat /\ num > 0 /\ off \in Nat
      /\ NoPartFrom(disk, off + num * DescSize - 1)
      /\ disk.num = num
  BY <1>1 DEF LumpsInv, MemoryInv, DiskInv, Writing
<1>3. /\ disk'.num = num /\ disk'.off = off /\ disk'.cells = disk.cells /\ IsDisk(disk')
  <2>1. disk' = Disk(num, off, disk.cells)
    BY <1>1, <1>2, DiskIsDisk, DiskReplaced
  <2> DEFINE cells == disk.cells
  <2>2. IsCells(cells)
    BY DiskIsDisk
  <2> HIDE DEF cells
  <2>3. LET d == Disk(num, off, cells)
        IN  d.num = num /\ d.off = off /\ d.cells = cells /\ IsDisk(d)
    BY <1>2, <2>2, DiskFields
  <2> QED
    BY <2>1, <2>3 DEF cells
<1>4. DOMAIN disk.cells \subseteq Nat
  BY DiskIsDisk
<1>5. NoPartFrom(disk', off + num * DescSize - 1)
  BY <1>2, <1>3 DEF NoPartFrom
<1>6. ~ IsWhole(disk')
  BY <1>2, <1>3, <1>5, NotWhole
<1>7. NoPartFrom(disk', disk'.off + disk'.num * DescSize)
  <2> DEFINE b == off + num * DescSize
  <2>1. b \in Int /\ b - 1 \in Int /\ b - 1 <= b
    <3>1. num * DescSize \in Nat
      BY <1>2, SizeAdds
    <3> QED
      BY <1>2, <3>1
  <2>2. NoPartFrom(disk', b - 1)
    <3>1. num * DescSize \in Nat
      BY <1>2, SizeAdds
    <3>2. b - 1 = off + num * DescSize - 1
      BY <1>2, <3>1
    <3> QED
      BY <1>5, <3>2, Zenon
  <2> HIDE DEF b
  <2>3. NoPartFrom(disk', b)
    BY <1>3, <1>4, <2>1, <2>2, MoreParts
  <2> QED
    BY <1>3, <2>3 DEF b
<1>8. DiskInv'
  BY <1>1, <1>2, <1>3, <1>5, <1>6, <1>7 DEF DiskInv, ListWritten
<1>9. MemoryInv'
  BY <1>1, MemoryKept DEF LumpsInv, Writing
<1> QED
  BY <1>1, <1>8, <1>9 DEF LumpsInv

LEMMA DescriptorReachesInv == ASSUME LumpsInv, DescriptorReaches PROVE LumpsInv'
<1> DEFINE cell == off + (written - 1) * DescSize
           parts == cell .. cell + DescSize - 1
           end == off + num * DescSize
           cells == [c \in DOMAIN disk.cells \union parts |->
                        IF c \in parts THEN Part(descriptors[written], c - cell)
                                       ELSE disk.cells[c]]
<1>1. /\ wadPc = "writeList" /\ wadPc' = "writeList" /\ written <= Len(descriptors)
      /\ disk' = [disk EXCEPT !.cells = cells] /\ written' = written + 1
      /\ UNCHANGED <<num, off, descriptors, tree, creation>>
  BY DEF DescriptorReaches, memory, WithParts, DescriptorCell, ListStart
<1>2. /\ num \in Nat /\ num > 0 /\ off \in Nat /\ written \in 1 .. num
      /\ num = Len(descriptors) /\ descriptors \in Seq(Descriptors)
      /\ disk.num = num /\ disk.off = off
      /\ NoPartFrom(disk, off + num * DescSize - 1)
      /\ ListWritten(written - 1)
      /\ Apart(descriptors, off)
  BY <1>1 DEF LumpsInv, MemoryInv, DiskInv, Writing
<1>3. /\ DescSize \in Nat /\ DescSize > 0 /\ cell \in Nat /\ off <= cell
      /\ end \in Nat /\ cell + DescSize <= end
      /\ written < num => cell + DescSize <= end - DescSize
  <2>1. written - 1 \in Nat /\ written - 1 < num
    BY <1>2
  <2>2. /\ (written - 1) * DescSize \in Nat /\ DescSize \in Nat \ {0} /\ num * DescSize \in Nat
        /\ (written - 1) * DescSize + DescSize <= num * DescSize
    BY <1>2, <2>1, SizeAdds
  <2>3. ASSUME written < num
        PROVE  (written - 1) * DescSize + DescSize <= num * DescSize - DescSize
    <3>1. num - 1 \in Nat /\ written - 1 < num - 1 /\ (num - 1) + 1 = num
      BY <1>2, <2>1, <2>3
    <3>2. /\ (written - 1) * DescSize + DescSize <= (num - 1) * DescSize
          /\ ((num - 1) + 1) * DescSize = (num - 1) * DescSize + DescSize
      BY <2>1, <3>1, SizeAdds
    <3>3. (num - 1) * DescSize \in Nat
      BY <3>1, SizeAdds
    <3> QED
      BY <2>2, <3>1, <3>2, <3>3
  <2> QED
    BY <1>2, <2>2, <2>3
<1> DEFINE S == DOMAIN disk.cells \union parts
<1>4. /\ DOMAIN disk.cells \in SUBSET Nat /\ S \in SUBSET Nat
      /\ \A c \in DOMAIN disk.cells : IsCell(disk.cells[c])
  <2> HIDE DEF cell
  <2>1. parts \subseteq Nat
    BY <1>3
  <2> QED
    BY <2>1, DiskIsDisk
<1>19. end - 1 = off + num * DescSize - 1
  <2>1. num * DescSize \in Nat
    BY <1>2, SizeAdds
  <2> QED
    BY <1>2, <2>1
<1>5. descriptors[written] \in Descriptors /\ NoPartFrom(disk, end - 1)
  <2>1. NoPartFrom(disk, end - 1)
    BY <1>2, <1>19, Zenon
  <2> QED
    BY <1>2, <2>1
<1> HIDE DEF cell, end
<1>6. /\ cells = [c \in S |-> cells[c]] /\ DOMAIN cells = S
      /\ \A c \in parts : cells[c] = Part(descriptors[written], c - cell)
      /\ \A c \in DOMAIN disk.cells \ parts : cells[c] = disk.cells[c]
  OBVIOUS
<1> HIDE DEF cells
<1>7. \A c \in S : IsCell(cells[c])
  <2>1. ASSUME NEW c \in parts PROVE IsCell(cells[c])
    <3> DEFINE k == c - cell
    <3>1. cells[c] = Part(descriptors[written], k)
      BY <1>6
    <3> HIDE DEF k
    <3> QED
      BY <1>5, <3>1, CellKinds DEF IsCell
  <2> QED
    BY <1>4, <1>6, <2>1
<1>8. disk'.num = num /\ disk'.off = off /\ disk'.cells = cells /\ IsDisk(disk')
  <2>1. [disk EXCEPT !.cells = cells] = Disk(disk.num, disk.off, cells)
    BY DiskIsDisk, DiskReplaced, Zenon
  <2>2. disk' = Disk(num, off, cells)
    BY <1>1, <1>2, <2>1, Zenon
  <2> HIDE DEF S, parts
  <2>3. IsCells(cells)
    BY <1>4, <1>6, <1>7 DEF IsCells
  <2> QED
    BY <1>2, <2>2, <2>3, DiskFields
<1>9. ASSUME NEW limit \in Int, end - 1 <= limit, cell + DescSize <= limit
      PROVE  NoPartFrom(disk', limit)
  <2> SUFFICES ASSUME NEW c \in S, "desc" \in DOMAIN cells[c] PROVE c < limit
    BY <1>6, <1>8 DEF NoPartFrom
  <2>1. CASE c \in parts
    BY <1>3, <1>9, <2>1
  <2>2. CASE c \in DOMAIN disk.cells \ parts
    <3>1. c < end - 1
      BY <1>5, <1>6, <2>2 DEF NoPartFrom
    <3> QED
      BY <1>3, <1>4, <1>9, <2>2, <3>1
  <2> QED
    BY <2>1, <2>2
<1>10. NoPartFrom(disk', disk'.off + disk'.num * DescSize)
  <2>1. end \in Int /\ end - 1 <= end /\ cell + DescSize <= end
    BY <1>3
  <2>2. NoPartFrom(disk', end)
    BY <1>9, <2>1
  <2> QED
    BY <1>8, <2>2 DEF end
<1>11. ASSUME written < num PROVE NoPartFrom(disk', off + num * DescSize - 1)
  <2>1. end - 1 \in Int /\ end - 1 <= end - 1 /\ cell + DescSize <= end - 1
    BY <1>3, <1>11
  <2>2. NoPartFrom(disk', end - 1)
    BY <1>9, <2>1
  <2> QED
    BY <1>19, <2>2, Zenon
<1>12. \A i \in 1 .. written :
          /\ off + (i - 1) * DescSize \in S
          /\ cells[off + (i - 1) * DescSize].desc = descriptors[i]
  <2> SUFFICES ASSUME NEW i \in 1 .. written
               PROVE  /\ off + (i - 1) * DescSize \in S
                      /\ cells[off + (i - 1) * DescSize].desc = descriptors[i]
    OBVIOUS
  <2>1. CASE i = written
    <3>1. cell \in parts /\ cell - cell = 0
      BY <1>3
    <3>2. cells[cell] = Part(descriptors[written], 0)
      BY <1>6, <3>1
    <3>3. cells[cell].desc = descriptors[written]
      BY <3>2, CellKinds
    <3>4. off + (i - 1) * DescSize = cell /\ cell \in S
      BY <2>1, <3>1 DEF cell
    <3> QED
      BY <2>1, <3>3, <3>4, Zenon
  <2>2. CASE i < written
    <3> DEFINE c == off + (i - 1) * DescSize
    <3>1. i - 1 \in Nat /\ written - 1 \in Nat /\ i - 1 < written - 1 /\ i \in 1 .. written - 1
      BY <1>2, <2>2
    <3>2. (i - 1) * DescSize \in Nat /\ (written - 1) * DescSize \in Nat
          /\ (i - 1) * DescSize + DescSize <= (written - 1) * DescSize
      BY <3>1, SizeAdds
    <3>3. c \in Nat /\ c < cell
      BY <1>2, <1>3, <3>2 DEF cell
    <3>4. disk.cells[c].desc = descriptors[i]
      BY <1>2, <3>1 DEF ListWritten
    <3>5. c \in DOMAIN disk.cells
      BY <1>2, <3>1 DEF ListWritten
    <3> HIDE DEF c
    <3>6. c \notin parts
      BY <1>3, <3>3
    <3>7. cells[c] = disk.cells[c]
      BY <1>6, <3>5, <3>6
    <3>8. c \in S /\ cells[c].desc = descriptors[i]
      BY <3>4, <3>5, <3>7
    <3> QED
      BY <3>8, Zenon DEF c
  <2> QED
    BY <1>2, <2>1, <2>2
<1>13. IsWhole(disk') => Apart(ListOf(disk'), disk'.off)
  <2>1. CASE written < num
    BY <1>2, <1>8, <1>11, <2>1, NotWhole
  <2>2. CASE written = num
    <3>1. descriptors = [i \in 1 .. num |-> descriptors[i]]
      BY <1>2
    <3>2. ListOf(disk') = descriptors
      BY <1>8, <1>12, <2>2, <3>1 DEF ListOf
    <3> QED
      BY <1>2, <1>8, <3>2
  <2> QED
    BY <1>2, <2>1, <2>2
<1>15. /\ written' \in 1 .. num' + 1 /\ written' - 1 = written /\ written' \in Nat
       /\ written' <= num' => written < num
  BY <1>1, <1>2
<1>16. ListWritten(written - 1)'
  BY <1>1, <1>6, <1>8, <1>12, <1>15 DEF ListWritten
<1>17. DiskInv'
  BY <1>1, <1>2, <1>8, <1>10, <1>11, <1>13, <1>15, <1>16 DEF DiskInv
<1>18. MemoryInv'
  BY <1>1, <1>15, MemoryKept DEF LumpsInv, Writing
<1> QED
  BY <1>1, <1>17, <1>18 DEF LumpsInv

LEMMA CallReturnMemory == ASSUME MemoryInv, CallReturn PROVE MemoryInv'
<1>1. /\ wadPc = "writeList" /\ wadPc' = "idle" /\ tree' = Completed
      /\ written' = 0 /\ creation' = NoCreation
      /\ UNCHANGED <<disk, num, off, descriptors>>
  BY DEF CallReturn
<1>2. /\ tree \in Seq(Nodes) /\ Len(tree) > 0
      /\ creation # NoCreation => creation.at \in Nat /\ creation.node \in Nodes
      /\ num \in Nat /\ off \in Nat
      /\ descriptors \in Seq(Descriptors) /\ num = Len(descriptors)
      /\ FilesDescribed(Completed, descriptors, Len(descriptors))
  BY <1>1 DEF MemoryInv, Writing
<1>3. Completed \in Seq(Nodes) /\ Len(Completed) >= Len(tree)
  BY <1>2, CompletedIs
<1>4. Completed' = Completed
  BY <1>1 DEF Completed
<1> DEFINE new == Completed
<1>5. /\ tree' = new /\ Completed' = new /\ new \in Seq(Nodes) /\ Len(new) > 0
      /\ FilesDescribed(new, descriptors, Len(descriptors))
  <2>1. Len(Completed) \in Nat /\ Len(tree) \in Nat
    BY <1>2, <1>3
  <2> QED
    BY <1>1, <1>2, <1>3, <1>4, <2>1
<1> HIDE DEF new
<1> QED
  BY <1>1, <1>2, <1>5 DEF MemoryInv, Writing

LEMMA CallReturnInv == ASSUME LumpsInv, CallReturn PROVE LumpsInv'
<1>1. wadPc' = "idle" /\ wadPc = "writeList" /\ UNCHANGED <<disk, num, off, descriptors>>
  BY DEF CallReturn
<1>2. MemoryInv'
  BY CallReturnMemory DEF LumpsInv
<1>3. DiskInv'
  BY <1>1 DEF LumpsInv, DiskInv
<1> QED
  BY <1>1, <1>2, <1>3 DEF LumpsInv

LEMMA WriteToNothingInv ==
  ASSUME LumpsInv, NEW path \in Paths, WriteToNothing(path)
  PROVE  LumpsInv'
<1>1. /\ wadPc = "idle" /\ wadPc' = "crashed" /\ disk' = disk
      /\ UNCHANGED <<num, off, descriptors, tree, written, creation>>
  BY DEF WriteToNothing, memory
<1>2. written \in Nat
  BY DEF LumpsInv, MemoryInv
<1>3. MemoryInv'
  BY <1>1, <1>2, MemoryKept DEF LumpsInv
<1>4. DiskInv'
  BY <1>1 DEF LumpsInv, DiskInv
<1> QED
  BY <1>1, <1>3, <1>4 DEF LumpsInv

\* A write of count bytes from cell first on, for the file n.
WrittenCells(count, buffer, first) ==
    LET cells == first .. first + count - 1
    IN  [c \in DOMAIN disk.cells \union cells |->
            IF c \in cells THEN Byte(buffer[c - first + 1]) ELSE disk.cells[c]]
Extends(n, count, buffer, first) ==
    /\ wadPc = "idle" /\ tree[n].isDir = FALSE /\ tree[n].length = 0
    /\ disk' = [disk EXCEPT !.cells = WrittenCells(count, buffer, first)]
    /\ tree' = ExtendedTree(n, off, count)
    /\ descriptors' = ExtendedList(tree[n].start + 1, off, count)
    /\ off' = off + count
    /\ count = 0 => wadPc' = "idle"
    /\ count # 0 => wadPc' = "writeNum"
    /\ num' = num /\ written' = written /\ creation' = creation

\* The file a write extends, and what write(2) counts.
LEMMA WrittenInMemory ==
  ASSUME MemoryInv, NEW path \in Paths, NEW buffer \in Buffers, NEW offset \in WriteOffsets,
         WriteToFile(path, buffer, offset)
  PROVE  /\ FindNode(path) \in DOMAIN tree
         /\ \E count \in Nat : Extends(FindNode(path), count, buffer, off + offset)
<1> DEFINE n == FindNode(path)
           index == tree[n].start + 1
           first == off + offset
           cells(count) == first .. first + count - 1
           body(count) ==
                /\ disk' = [disk EXCEPT !.cells =
                               [c \in DOMAIN disk.cells \union cells(count) |->
                                   IF c \in cells(count) THEN Byte(buffer[c - first + 1])
                                                  ELSE disk.cells[c]]]
                /\ tree' = [tree EXCEPT ![n].offset = off, ![n].length = @ + count]
                /\ descriptors' = [descriptors EXCEPT ![index].offset = off,
                                                      ![index].length = @ + count]
                /\ off' = off + count
                /\ wadPc' = IF count = 0 THEN "idle" ELSE "writeNum"
<1>1. PICK result \in IF ShortWrites THEN -1 .. Len(buffer) ELSE {Len(buffer)} :
         body(Counted(result))
  BY Zenon DEF WriteToFile, MovedOffset
<1>2. /\ wadPc = "idle" /\ n # 0 /\ ~ WriteRefused(n) /\ UNCHANGED <<num, written, creation>>
  BY DEF WriteToFile
<1>3. Counted(result) \in Nat
  <2>1. Len(buffer) \in Nat
    BY SizesAssumption
  <2>2. result \in Int
    BY <2>1
  <2> QED
    BY <2>2 DEF Counted
<1>4. n \in DOMAIN tree
  <2>1. n \in 0 .. Len(tree) /\ tree \in Seq(Nodes)
    BY <1>2, FoundInMemory DEF MemoryInv
  <2> QED
    BY <1>2, <2>1
<1>5. tree[n].isDir = FALSE /\ tree[n].length = 0
  <2>1. tree[n] \in Nodes
    BY <1>4 DEF MemoryInv
  <2>2. tree[n].isDir \in BOOLEAN /\ tree[n].length \in Nat
    BY <2>1 DEF Nodes
  <2>3. ~ tree[n].length > 0 /\ ~ tree[n].isDir
    BY <1>2 DEF WriteRefused
  <2> QED
    BY <2>2, <2>3
<1>6. PICK count \in Nat : body(count)
  <2> HIDE DEF n
  <2> QED
    BY <1>1, <1>3, Zenon
<1>7. Extends(n, count, buffer, first)
  <2> HIDE DEF n
  <2> QED
    BY <1>2, <1>5, <1>6, Zenon DEF Extends, WrittenCells, ExtendedTree, ExtendedList
<1> QED
  BY <1>4, <1>7, Zenon

LEMMA WrittenAt ==
  ASSUME LumpsInv, NEW path \in Paths, NEW buffer \in Buffers, NEW offset \in WriteOffsets,
         WriteToFile(path, buffer, offset)
  PROVE  /\ FindNode(path) \in DOMAIN tree
         /\ \E count \in Nat : Extends(FindNode(path), count, buffer, off + offset)
BY WrittenInMemory DEF LumpsInv

LEMMA WrittenIs ==
  ASSUME LumpsInv, NEW path \in Paths, NEW buffer \in Buffers, NEW offset \in WriteOffsets,
         WriteToFile(path, buffer, offset)
  PROVE  \E n \in DOMAIN tree, count \in Nat : Extends(n, count, buffer, off + offset)
BY WrittenAt, Zenon

\* A lump that ends where another begins shares no cell with it.
LEMMA LumpBefore ==
  ASSUME NEW d, NEW e, d.offset \in Nat, d.length \in Nat, e.offset \in Nat, e.length \in Nat,
         d.offset + d.length <= e.offset
  PROVE  Lump(d) \intersect Lump(e) = {} /\ Lump(e) \intersect Lump(d) = {}
BY DEF Lump

LEMMA ExtendMemory ==
  ASSUME MemoryInv, NEW n \in DOMAIN tree, NEW count \in Nat, NEW buffer, NEW first,
         Extends(n, count, buffer, first)
  PROVE  MemoryInv' /\ IsExtension(tree', descriptors', tree[n].start + 1, off, count)
<1> DEFINE index == tree[n].start + 1
           cells == WrittenCells(count, buffer, first)
           nodes == ExtendedTree(n, off, count)
           list == ExtendedList(index, off, count)
<1>2. /\ wadPc = "idle" /\ tree[n].isDir = FALSE /\ tree[n].length = 0
      /\ disk' = [disk EXCEPT !.cells = cells] /\ tree' = nodes /\ descriptors' = list
      /\ off' = off + count
      /\ count = 0 => wadPc' = "idle"
      /\ count # 0 => wadPc' = "writeNum"
      /\ num' = num /\ written' = written /\ creation' = creation
  BY Zenon DEF Extends
<1>3. /\ num \in Nat /\ off \in Nat /\ written \in Nat
      /\ descriptors \in Seq(Descriptors) /\ num = Len(descriptors)
      /\ tree \in Seq(Nodes) /\ Len(tree) > 0 /\ creation = NoCreation
  BY <1>2 DEF MemoryInv, Writing
<1>4. FilesDescribed(tree, descriptors, Len(descriptors))
  BY <1>3 DEF MemoryInv, Completed
<1>5. IsExtension(nodes, list, index, off, count)
  <2>1. /\ descriptors \in Seq(Descriptors) /\ tree \in Seq(Nodes) /\ off \in Nat
        /\ tree[n].isDir = FALSE /\ tree[n].length = 0
    BY <1>2, <1>3
  <2>2. index = tree[n].start + 1
    OBVIOUS
  <2> HIDE DEF index
  <2> QED
    BY <1>4, <2>1, <2>2, ExtendedDescribed
<1> HIDE DEF cells, nodes, list, index
<1>6. Completed' = nodes
  BY <1>2, <1>3 DEF Completed
<1>7. /\ index \in DOMAIN descriptors /\ nodes \in Seq(Nodes) /\ Len(nodes) = Len(tree)
      /\ list \in Seq(Descriptors) /\ Len(list) = Len(descriptors)
      /\ FilesDescribed(nodes, list, Len(list))
  BY <1>5 DEF IsExtension
<1>8. num > 0
  BY <1>3, <1>7
<1>9. MemoryInv'
  BY <1>2, <1>3, <1>6, <1>7, <1>8 DEF MemoryInv, Writing
<1> QED
  BY <1>2, <1>5, <1>9 DEF index

LEMMA WriteToFileInv ==
  ASSUME LumpsInv, NEW path \in Paths, NEW buffer \in Buffers, NEW offset \in WriteOffsets,
         WriteToFile(path, buffer, offset)
  PROVE  LumpsInv'
<1>1. PICK n \in DOMAIN tree, count \in Nat : Extends(n, count, buffer, off + offset)
  BY WrittenIs, Zenon
<1> DEFINE index == tree[n].start + 1
           first == off + offset
           new == first .. first + count - 1
           cells == WrittenCells(count, buffer, first)
           nodes == ExtendedTree(n, off, count)
           list == ExtendedList(index, off, count)
<1>2. /\ wadPc = "idle" /\ tree[n].isDir = FALSE /\ tree[n].length = 0
      /\ disk' = [disk EXCEPT !.cells = cells] /\ tree' = nodes /\ descriptors' = list
      /\ off' = off + count
      /\ count = 0 => wadPc' = "idle"
      /\ count # 0 => wadPc' = "writeNum"
      /\ num' = num /\ written' = written /\ creation' = creation
  BY <1>1, Zenon DEF Extends
<1>3. /\ num \in Nat /\ off \in Nat /\ written \in Nat /\ offset \in Nat
      /\ descriptors \in Seq(Descriptors) /\ num = Len(descriptors)
      /\ tree \in Seq(Nodes) /\ Len(tree) > 0 /\ creation = NoCreation
      /\ Apart(descriptors, off)
      /\ disk.num = num /\ disk.off = off
      /\ NoPartFrom(disk, disk.off + disk.num * DescSize)
      /\ IsWhole(disk) => Apart(ListOf(disk), disk.off)
  BY <1>2, SizesAssumption DEF LumpsInv, MemoryInv, DiskInv, Writing
<1>5. /\ MemoryInv'
      /\ index \in DOMAIN descriptors /\ descriptors[index].length = 0
      /\ list \in Seq(Descriptors) /\ Len(list) = Len(descriptors)
      /\ list[index].offset = off /\ list[index].length = count
      /\ \A i \in DOMAIN descriptors \ {index} : list[i] = descriptors[i]
  <2>1. MemoryInv' /\ IsExtension(tree', descriptors', tree[n].start + 1, off, count)
    BY <1>1, ExtendMemory DEF LumpsInv
  <2> QED
    BY <1>2, <2>1 DEF IsExtension
<1> HIDE DEF cells, nodes, list
<1>7. Apart(list, off + count)
  <2>1. ASSUME NEW i \in DOMAIN list, list[i].length > 0
        PROVE  /\ list[i].offset + list[i].length <= off + count
               /\ \A j \in DOMAIN list \ {i} : Lump(list[i]) \intersect Lump(list[j]) = {}
    <3>1. \A j \in DOMAIN list : list[j] \in Descriptors
      BY <1>5
    <3>2. \A j \in DOMAIN list : list[j].offset \in Nat /\ list[j].length \in Nat
      BY <3>1 DEF Descriptors
    <3>3. DOMAIN list = DOMAIN descriptors
      BY <1>3, <1>5
    <3>4. ASSUME NEW j \in DOMAIN list, j # index, list[j].length > 0
          PROVE  list[j].offset + list[j].length <= off
      BY <1>3, <1>5, <3>3, <3>4 DEF Apart
    <3>5. CASE i = index
      <4>1. list[i].offset + list[i].length <= off + count
        BY <1>3, <1>5, <3>5
      <4>2. ASSUME NEW j \in DOMAIN list \ {i}
            PROVE  Lump(list[i]) \intersect Lump(list[j]) = {}
        <5>1. list[j].length = 0 \/ list[j].offset + list[j].length <= off
          BY <3>2, <3>4, <3>5
        <5>2. CASE list[j].length = 0
          BY <3>2, <5>2 DEF Lump
        <5>3. CASE list[j].offset + list[j].length <= off
          <6>1. list[j].offset + list[j].length <= list[i].offset
            BY <1>5, <3>5, <5>3
          <6> QED
            BY <3>2, <6>1, LumpBefore
        <5> QED
          BY <5>1, <5>2, <5>3
      <4> QED
        BY <4>1, <4>2
    <3>6. CASE i # index
      <4>1. list[i].offset + list[i].length <= off
        BY <2>1, <3>4, <3>6
      <4>2. list[i].offset + list[i].length <= off + count
        BY <1>3, <3>2, <4>1
      <4>3. ASSUME NEW j \in DOMAIN list \ {i}
            PROVE  Lump(list[i]) \intersect Lump(list[j]) = {}
        <5>1. CASE j = index
          <6>1. list[i].offset + list[i].length <= list[j].offset
            BY <1>5, <4>1, <5>1
          <6> QED
            BY <3>2, <6>1, LumpBefore
        <5>2. CASE j # index
          BY <1>3, <1>5, <2>1, <3>3, <3>6, <5>2 DEF Apart
        <5> QED
          BY <5>1, <5>2
      <4> QED
        BY <4>2, <4>3
    <3> QED
      BY <3>5, <3>6
  <2> QED
    BY <2>1 DEF Apart
<1> DEFINE S == DOMAIN disk.cells \union new
<1>10. /\ DOMAIN disk.cells \in SUBSET Nat /\ S \in SUBSET Nat
       /\ \A c \in DOMAIN disk.cells : IsCell(disk.cells[c])
  <2>1. first \in Nat
    BY <1>3
  <2> HIDE DEF first
  <2>2. new \subseteq Nat
    BY <2>1
  <2> QED
    BY <2>2, DiskIsDisk
<1>11. /\ cells = [c \in S |-> cells[c]] /\ DOMAIN cells = S
       /\ \A c \in new : cells[c] = Byte(buffer[c - first + 1])
       /\ \A c \in DOMAIN disk.cells \ new : cells[c] = disk.cells[c]
  BY DEF cells, WrittenCells
<1>12. ASSUME NEW c \in new PROVE IsCell(cells[c]) /\ "desc" \notin DOMAIN cells[c]
  <2> DEFINE b == buffer[c - first + 1]
  <2>1. cells[c] = Byte(b)
    BY <1>11
  <2> HIDE DEF b
  <2> QED
    BY <2>1, CellKinds
<1>13. \A c \in S : IsCell(cells[c])
  BY <1>10, <1>11, <1>12
<1> HIDE DEF new, S
<1>14. disk'.num = num /\ disk'.off = off /\ disk'.cells = cells /\ IsDisk(disk')
  <2>1. [disk EXCEPT !.cells = cells] = Disk(disk.num, disk.off, cells)
    BY DiskIsDisk, DiskReplaced, Zenon
  <2>2. disk' = Disk(num, off, cells)
    BY <1>2, <1>3, <2>1, Zenon
  <2>3. IsCells(cells)
    BY <1>10, <1>11, <1>13 DEF IsCells
  <2> QED
    BY <1>3, <2>2, <2>3, DiskFields
<1>15. \A c \in DOMAIN disk'.cells :
          "desc" \in DOMAIN disk'.cells[c] =>
             c \in DOMAIN disk.cells /\ disk.cells[c] = disk'.cells[c]
  BY <1>11, <1>12, <1>14 DEF S
<1>16. /\ IsWhole(disk') => IsWhole(disk) /\ ListOf(disk) = ListOf(disk')
       /\ \A limit : NoPartFrom(disk, limit) => NoPartFrom(disk', limit)
  BY <1>3, <1>14, <1>15, BytesOnly
<1>17. IsWhole(disk') => Apart(ListOf(disk'), disk'.off)
  BY <1>3, <1>14, <1>16
<1>18. NoPartFrom(disk', disk'.off + disk'.num * DescSize)
  BY <1>3, <1>14, <1>16
<1>19. ASSUME count # 0 PROVE NoPartFrom(disk', off' + num' * DescSize - 1)
  <2> DEFINE a == off + num * DescSize
             b == (off + count) + num * DescSize - 1
  <2>1. a \in Int /\ b \in Int /\ a <= b
    <3>1. num * DescSize \in Nat
      BY <1>3, SizeAdds
    <3> QED
      BY <1>3, <1>19, <3>1
  <2>2. NoPartFrom(disk', a)
    BY <1>3, <1>18, <1>14
  <2>3. DOMAIN disk'.cells \subseteq Nat
    BY <1>10, <1>11, <1>14
  <2> HIDE DEF a, b
  <2>4. NoPartFrom(disk', b)
    BY <2>1, <2>2, <2>3, MoreParts
  <2> QED
    BY <1>2, <2>4 DEF b
<1>20. disk'.off <= off'
  BY <1>2, <1>3, <1>14
<1>21. count = 0 => disk'.off = off'
  BY <1>2, <1>3, <1>14
<1>22. disk'.num = num'
  BY <1>2, <1>14
<1>23. disk'.num <= num'
  BY <1>2, <1>3, <1>14
<1>24. DiskInv'
  BY <1>2, <1>14, <1>17, <1>18, <1>19, <1>20, <1>21, <1>22, <1>23 DEF DiskInv
<1> QED
  BY <1>2, <1>5, <1>7, <1>24 DEF LumpsInv

-----------------------------------------------------------------------------
(* Steps in which nothing falls short and nothing torn is loaded           *)

Sound ==
    \/ LoadWhole
    \/ GoDown
    \/ \E path \in Paths :
          \/ CreateDirectory(path)
          \/ CreateFile(path)
          \/ CreateNothing(path)
          \/ WriteToNothing(path)
          \/ RefuseWrite(path)
          \/ \E buffer \in Buffers, offset \in WriteOffsets :
                WriteToFile(path, buffer, offset)
    \/ NumReaches
    \/ OffReaches
    \/ DescriptorReaches
    \/ CallReturn

LEMMA GoneAstray == ASSUME GoAstray, astray \in Nat PROVE astray' \in Nat /\ astray' > 0
BY DEF GoAstray

\* As long as nothing has gone astray, every step is sound.
LEMMA StepIsSound ==
  ASSUME HeaderInv, [Next]_vars, astray' = 0
  PROVE  astray = 0 /\ [Sound]_vars
<1>0. /\ astray \in Nat /\ lag \in Nat /\ (lag > 0 => astray > 0)
      /\ ~ GoAstray
  <2>1. astray \in Nat /\ lag \in Nat /\ (lag > 0 => astray > 0)
    BY DEF HeaderInv
  <2> QED
    BY <2>1, GoneAstray
<1>1. ASSUME LoadWad PROVE LoadWhole /\ astray = 0
  BY <1>0, <1>1 DEF LoadWad, LoadTorn, LoadWhole
<1>2. ASSUME WriteNum PROVE NumReaches /\ astray = 0
  BY <1>0, <1>2 DEF WriteNum, NumReaches, NumFails, faults
<1>3. ASSUME WriteOff PROVE OffReaches /\ astray = 0
  BY <1>0, <1>3 DEF WriteOff, OffReaches, OffMissed, faults
<1>4. ASSUME WriteDescriptor PROVE DescriptorReaches /\ astray = 0
  <2>1. ASSUME DescriptorMissed PROVE FALSE
    <3>1. GoAstray \/ (lag > 0 /\ astray' = astray)
      BY <2>1 DEF DescriptorMissed
    <3> QED
      BY <1>0, <3>1
  <2>2. DescriptorReaches
    BY <1>4, <2>1 DEF WriteDescriptor
  <2> QED
    BY <2>2 DEF DescriptorReaches, faults
<1>5. ASSUME NEW path \in Paths,
             \/ CreateDirectory(path)
             \/ CreateFile(path)
             \/ CreateNothing(path)
             \/ WriteToNothing(path)
             \/ RefuseWrite(path)
             \/ \E buffer \in Buffers, offset \in WriteOffsets :
                   WriteToFile(path, buffer, offset)
      PROVE  astray = 0
  <2>1. astray' = astray
    BY <1>5, Zenon DEF CreateDirectory, CreateFile, Create, CreateNothing, WriteToNothing,
                       RefuseWrite, WriteToFile, vars, faults
  <2> QED
    BY <2>1
<1>6. ASSUME GoDown \/ CallReturn \/ UNCHANGED vars PROVE astray = 0
  BY <1>6 DEF GoDown, CallReturn, vars, faults
<1> QED
  BY <1>1, <1>2, <1>3, <1>4, <1>5, <1>6, Zenon DEF Next, Sound

LEMMA SoundInv == ASSUME LumpsInv, [Sound]_vars PROVE LumpsInv'
<1>1. CASE LoadWhole
  BY <1>1, LoadWholeInv
<1>2. CASE GoDown
  BY <1>2, GoDownInv
<1>3. ASSUME NEW path \in Paths, CreateDirectory(path) PROVE LumpsInv'
  BY <1>3, CreateDirectoryInv
<1>4. ASSUME NEW path \in Paths, CreateFile(path) PROVE LumpsInv'
  BY <1>4, CreateFileInv
<1>5. ASSUME NEW path \in Paths, CreateNothing(path) PROVE LumpsInv'
  <2>1. UNCHANGED vars
    BY <1>5 DEF CreateNothing
  <2> QED
    BY <2>1, SameInv
<1>6. ASSUME NEW path \in Paths, WriteToNothing(path) PROVE LumpsInv'
  BY <1>6, WriteToNothingInv
<1>7. ASSUME NEW path \in Paths, RefuseWrite(path) PROVE LumpsInv'
  <2>1. UNCHANGED vars
    BY <1>7 DEF RefuseWrite
  <2> QED
    BY <2>1, SameInv
<1>8. ASSUME NEW path \in Paths, NEW buffer \in Buffers, NEW offset \in WriteOffsets,
             WriteToFile(path, buffer, offset)
      PROVE  LumpsInv'
  BY <1>8, WriteToFileInv
<1>9. CASE NumReaches
  BY <1>9, NumReachesInv
<1>10. CASE OffReaches
  BY <1>10, OffReachesInv
<1>11. CASE DescriptorReaches
  BY <1>11, DescriptorReachesInv
<1>12. CASE CallReturn
  BY <1>12, CallReturnInv
<1>13. CASE UNCHANGED vars
  BY <1>13, SameInv
<1> QED
  BY <1>1, <1>2, <1>3, <1>4, <1>5, <1>6, <1>7, <1>8, <1>9, <1>10, <1>11, <1>12, <1>13, Zenon
     DEF Sound

-----------------------------------------------------------------------------
(* Every step, whatever goes astray                                        *)

\* The constructor takes whatever it reads for descriptors.
LEMMA LastReadIsRead ==
  ASSUME NEW d, d.num \in Nat, NEW i \in 1 .. d.num
  PROVE  LastRead(d, i) \in {0} \union InFile(d)
<1> DEFINE S == {0} \union InFile(d)
           T == {k \in 0 .. i : i - k \in S}
<1>1. S \subseteq 0 .. d.num
  BY DEF InFile
<1>2. i \in T
  <2>1. i - i = 0
    OBVIOUS
  <2> QED
    BY <2>1
<1>3. PICK k \in T : \A l \in T : k <= l
  <2>1. T \subseteq Nat /\ T # {}
    BY <1>2
  <2> HIDE DEF T
  <2> QED
    BY <2>1, Least
<1> DEFINE j == i - k
<1>4. j \in S /\ j <= i
  BY <1>3
<1>5. ASSUME NEW l \in InFile(d), l <= i PROVE l <= j
  <2>1. l \in 1 .. d.num
    BY DEF InFile
  <2>2. i - l \in 0 .. i /\ i - (i - l) = l
    BY <1>5, <2>1
  <2>3. i - l \in T
    BY <2>2
  <2>4. k <= i - l
    BY <1>3, <2>3
  <2> QED
    BY <1>3, <2>1, <2>4
<1> HIDE DEF j, S, T
<1>6. j \in S /\ j <= i /\ \A l \in InFile(d) : l <= i => l <= j
  BY <1>4, <1>5
<1> QED
  BY <1>6 DEF LastRead, S

LEMMA ReadIsTyped ==
  ASSUME NEW d, IsDisk(d), NEW junk \in [Garbled(d) -> Misread]
  PROVE  ReadList(d, junk) \in Seq(Descriptors) /\ Len(ReadList(d, junk)) = d.num
<1>1. d.num \in Nat /\ d.off \in Nat
  BY DEF IsDisk
<1>2. ASSUME NEW i \in 1 .. d.num
      PROVE  LET j == LastRead(d, i)
             IN  (IF j \in Garbled(d) THEN junk[j] ELSE d.cells[ReadCell(d, j)].desc) \in Descriptors
  <2> DEFINE j == LastRead(d, i)
  <2>1. j \in {0} \union InFile(d)
    BY <1>1, LastReadIsRead
  <2> HIDE DEF j
  <2>2. CASE j \in Garbled(d)
    BY <2>2, MisreadAssumption DEF j
  <2>3. CASE j \notin Garbled(d)
    <3>1. IsDescriptor(d, ReadCell(d, j))
      BY <2>1, <2>3 DEF Garbled
    <3> DEFINE cell == ReadCell(d, j)
    <3> HIDE DEF cell
    <3>2. IsDescriptor(d, cell)
      BY <3>1 DEF cell
    <3>3. 0 \in 0 .. DescSize - 1
      BY SizesAssumption
    <3>4. cell \in DOMAIN d.cells /\ "desc" \in DOMAIN d.cells[cell]
      BY <3>2, <3>3 DEF IsDescriptor
    <3>5. IsCell(d.cells[cell])
      BY <3>4, DiskCells
    <3>6. \A b : "desc" \notin DOMAIN Byte(b)
      BY CellKinds
    <3>7. d.cells[cell].desc \in Descriptors
      BY <3>4, <3>5, <3>6, Zenon DEF IsCell
    <3> QED
      BY <2>3, <3>7 DEF cell, j
  <2> QED
    BY <2>2, <2>3
<1>3. ReadList(d, junk) \in [1 .. d.num -> Descriptors]
  BY <1>1, <1>2 DEF ReadList
<1> QED
  BY <1>1, <1>3

LEMMA LoadShape ==
  ASSUME ShapeInv, LoadWad
  PROVE  ShapeInv' /\ disk' = disk
<1>1. IsDisk(disk) /\ MemoryInv /\ lag \in Nat /\ astray \in Nat /\ (lag > 0 => astray > 0)
  BY DEF ShapeInv, HeaderInv
<1>2. /\ \E list \in Seq(Descriptors) : Len(list) = disk.num /\ Load(list)
      /\ astray' \in Nat /\ (astray > 0 => astray' > 0)
  <2>1. CASE LoadWhole
    <3>1. IsWhole(disk) /\ Load(ListOf(disk)) /\ astray' = astray
      BY <2>1 DEF LoadWhole, ListIsWhole, ListOnDisk
    <3>2. ListOf(disk) \in Seq(Descriptors) /\ Len(ListOf(disk)) = disk.num
      BY <1>1, <3>1, ListIsTyped
    <3> QED
      BY <1>1, <3>1, <3>2, Zenon
  <2>2. CASE LoadTorn
    <3>1. PICK junk \in [Garbled(disk) -> Misread] : Load(ReadList(disk, junk))
      BY <2>2 DEF LoadTorn
    <3>2. ReadList(disk, junk) \in Seq(Descriptors) /\ Len(ReadList(disk, junk)) = disk.num
      BY <1>1, ReadIsTyped
    <3>3. astray' \in Nat /\ astray' > 0
      BY <1>1, <2>2, GoneAstray DEF LoadTorn
    <3> QED
      BY <3>1, <3>2, <3>3, Zenon
  <2> QED
    BY <2>1, <2>2 DEF LoadWad
<1>3. PICK list \in Seq(Descriptors) : Len(list) = disk.num /\ Load(list)
  BY <1>2
<1>4. /\ MemoryInv'
      /\ off' = disk.off /\ wadPc' \in {"crashed", "idle"} /\ UNCHANGED <<disk, lag>>
  BY <1>1, <1>3, LoadMemory
<1>5. disk'.off <= off'
  <2>1. disk.off \in Nat
    BY <1>1 DEF IsDisk
  <2> QED
    BY <1>4, <2>1
<1>6. HeaderInv'
  BY <1>1, <1>2, <1>4, <1>5 DEF HeaderInv
<1> QED
  BY <1>4, <1>6 DEF ShapeInv

\* What a step may do to the disk.
CellStays(cells, then, c) ==
    /\ c \in DOMAIN cells <=> c \in DOMAIN then
    /\ c \in DOMAIN cells => then[c] = cells[c]

DiskChange ==
    \/ disk' = disk
    \/ \E n \in Nat : disk' = Disk(n, disk.off, disk.cells)
    \/ disk' = Disk(disk.num, off, disk.cells)
    \/ \E cells : /\ IsCells(cells) /\ disk' = Disk(disk.num, disk.off, cells)
                  /\ \A c \in Nat : c < off => CellStays(disk.cells, cells, c)

LEMMA DiskChanges ==
  ASSUME IsDisk(disk), off \in Nat, disk.off <= off, DiskChange
  PROVE  /\ IsDisk(disk') /\ disk.off <= disk'.off /\ disk'.off <= off
         /\ \A c \in Nat : c < off => CellStays(disk.cells, disk'.cells, c)
<1>1. disk.num \in Nat /\ disk.off \in Nat /\ IsCells(disk.cells)
  BY DiskCells DEF IsDisk
<1>2. CASE disk' = disk
  BY <1>1, <1>2 DEF CellStays
<1>3. ASSUME NEW n \in Nat, NEW o \in Nat, NEW cells, IsCells(cells), disk' = Disk(n, o, cells),
             disk.off <= o, o <= off, \A c \in Nat : c < off => CellStays(disk.cells, cells, c)
      PROVE  /\ IsDisk(disk') /\ disk.off <= disk'.off /\ disk'.off <= off
             /\ \A c \in Nat : c < off => CellStays(disk.cells, disk'.cells, c)
  <2>1. disk'.off = o /\ disk'.cells = cells /\ IsDisk(disk')
    BY <1>3, DiskFields
  <2> QED
    BY <1>3, <2>1
<1>4. \A c \in Nat : c < off => CellStays(disk.cells, disk.cells, c)
  BY DEF CellStays
<1> DEFINE o == disk.off
           m == disk.num
           old == disk.cells
<1>5. m \in Nat /\ o \in Nat /\ IsCells(old) /\ o <= o /\ o <= off /\ off <= off
  BY <1>1
<1>6. CASE \E n \in Nat : disk' = Disk(n, o, old)
  <2>1. PICK n \in Nat : disk' = Disk(n, o, old)
    BY <1>6
  <2> HIDE DEF o, old
  <2> QED
    BY <1>3, <1>4, <1>5, <2>1 DEF o, old
<1>7. CASE disk' = Disk(m, off, old)
  BY <1>3, <1>4, <1>5, <1>7
<1>8. CASE \E cells : /\ IsCells(cells) /\ disk' = Disk(m, o, cells)
                      /\ \A c \in Nat : c < off => CellStays(disk.cells, cells, c)
  <2>1. PICK cells : /\ IsCells(cells) /\ disk' = Disk(m, o, cells)
                     /\ \A c \in Nat : c < off => CellStays(disk.cells, cells, c)
    BY <1>8
  <2> QED
    BY <1>3, <1>5, <2>1
<1> QED
  BY <1>2, <1>6, <1>7, <1>8 DEF DiskChange

LEMMA PartsAreCells ==
  ASSUME ShapeInv, wadPc = "writeList", written <= Len(descriptors), NEW count \in 0 .. DescSize,
         disk' = [disk EXCEPT !.cells = WithParts(DescriptorCell - lag, count)]
  PROVE  DiskChange
<1> DEFINE cell == DescriptorCell - lag
           parts == cell .. cell + count - 1
           cells == WithParts(cell, count)
           S == DOMAIN disk.cells \union parts
<1>1. /\ IsDisk(disk) /\ off \in Nat /\ lag \in Nat /\ lag <= (written - 1) * DescSize
      /\ num = Len(descriptors) /\ descriptors \in Seq(Descriptors)
      /\ written \in 1 .. num + 1
  BY DEF ShapeInv, MemoryInv, HeaderInv
<1>2. descriptors[written] \in Descriptors
  BY <1>1
<1>3. cell \in Nat /\ off <= cell
  <2>1. written - 1 \in Nat
    BY <1>1
  <2>2. (written - 1) * DescSize \in Nat
    BY <2>1, SizeAdds
  <2> DEFINE x == (written - 1) * DescSize
  <2>3. cell = off + x - lag /\ x \in Nat /\ lag <= x
    BY <1>1, <2>2 DEF DescriptorCell, ListStart
  <2> HIDE DEF x, cell
  <2> QED
    BY <1>1, <2>3
<1>4. disk' = Disk(disk.num, disk.off, cells)
  BY <1>1, DiskReplaced
<1>5. /\ cells = [c \in S |-> cells[c]] /\ DOMAIN cells = S
      /\ \A c \in parts : cells[c] = Part(descriptors[written], c - cell)
      /\ \A c \in DOMAIN disk.cells \ parts : cells[c] = disk.cells[c]
  BY DEF WithParts
<1>6. DOMAIN disk.cells \in SUBSET Nat /\ \A c \in DOMAIN disk.cells : IsCell(disk.cells[c])
  BY <1>1, DiskCells
<1>7. count \in Int
  BY SizesAssumption
<1> HIDE DEF cell, cells
<1>8. S \subseteq Nat
  BY <1>3, <1>6, <1>7
<1>9. \A c \in S : IsCell(cells[c])
  <2>1. ASSUME NEW c \in parts PROVE IsCell(cells[c])
    <3> DEFINE k == c - cell
    <3>1. cells[c] = Part(descriptors[written], k)
      BY <1>5
    <3> HIDE DEF k
    <3> QED
      BY <1>2, <3>1, CellKinds DEF IsCell
  <2> QED
    BY <1>5, <1>6, <2>1
<1>10. IsCells(cells)
  BY <1>5, <1>8, <1>9 DEF IsCells
<1>11. ASSUME NEW c \in Nat, c < off PROVE CellStays(disk.cells, cells, c)
  <2>1. c \notin parts
    BY <1>1, <1>3, <1>7, <1>11
  <2> QED
    BY <1>5, <2>1 DEF CellStays
<1> QED
  BY <1>4, <1>10, <1>11 DEF DiskChange

LEMMA BytesWritten ==
  ASSUME IsDisk(disk), off \in Nat, NEW count \in Nat, NEW buffer, NEW first \in Nat, off <= first,
         disk' = [disk EXCEPT !.cells = WrittenCells(count, buffer, first)]
  PROVE  DiskChange
<1> DEFINE new == first .. first + count - 1
           cells == WrittenCells(count, buffer, first)
           S == DOMAIN disk.cells \union new
<1>1. disk' = Disk(disk.num, disk.off, cells)
  BY DiskReplaced
<1>2. /\ cells = [c \in S |-> cells[c]] /\ DOMAIN cells = S
      /\ \A c \in new : cells[c] = Byte(buffer[c - first + 1])
      /\ \A c \in DOMAIN disk.cells \ new : cells[c] = disk.cells[c]
  BY DEF WrittenCells
<1>3. DOMAIN disk.cells \in SUBSET Nat /\ \A c \in DOMAIN disk.cells : IsCell(disk.cells[c])
  BY DiskCells
<1> HIDE DEF cells
<1>4. S \subseteq Nat
  BY <1>3
<1>5. \A c \in S : IsCell(cells[c])
  <2>1. ASSUME NEW c \in new PROVE IsCell(cells[c])
    <3> DEFINE b == buffer[c - first + 1]
    <3>1. cells[c] = Byte(b)
      BY <1>2
    <3> HIDE DEF b
    <3> QED
      BY <3>1, CellKinds
  <2> QED
    BY <1>2, <1>3, <2>1
<1>6. IsCells(cells)
  BY <1>2, <1>4, <1>5 DEF IsCells
<1>7. ASSUME NEW c \in Nat, c < off PROVE CellStays(disk.cells, cells, c)
  <2>1. c \notin new
    BY <1>7
  <2> QED
    BY <1>2, <2>1 DEF CellStays
<1> QED
  BY <1>1, <1>6, <1>7 DEF DiskChange

\* Steps of a process that runs.
LEMMA ShapeKept ==
  ASSUME ShapeInv, wadPc # "down", MemoryInv', DiskChange, off <= off',
         lag' \in Nat, astray' \in Nat, lag' > 0 => astray' > 0,
         wadPc' = "writeList" => written' \in 1 .. num' + 1 /\ lag' <= (written' - 1) * DescSize
  PROVE  ShapeInv'
<1>1. IsDisk(disk) /\ off \in Nat /\ disk.off <= off /\ off' \in Nat
  BY DEF ShapeInv, MemoryInv, HeaderInv
<1>2. IsDisk(disk') /\ disk'.off <= off
  BY <1>1, DiskChanges
<1>3. disk'.off \in Nat
  BY <1>2 DEF IsDisk
<1>4. disk'.off <= off'
  BY <1>1, <1>2, <1>3
<1>5. HeaderInv'
  BY <1>2, <1>4 DEF HeaderInv
<1> QED
  BY <1>5 DEF ShapeInv

\* What every step leaves as it is, or makes so.
StepKeeps == ShapeInv' /\ (disk' = disk \/ (wadPc # "down" /\ DiskChange))

LEMMA HeaderShape ==
  ASSUME ShapeInv, WriteNum \/ WriteOff
  PROVE  StepKeeps
<1>1. /\ MemoryInv /\ IsDisk(disk) /\ lag \in Nat /\ astray \in Nat /\ (lag > 0 => astray > 0)
      /\ num \in Nat /\ off \in Nat /\ written \in Nat
  BY DEF ShapeInv, MemoryInv, HeaderInv
<1>2. \A n : /\ [disk EXCEPT !.num = n] = Disk(n, disk.off, disk.cells)
             /\ [disk EXCEPT !.off = n] = Disk(disk.num, n, disk.cells)
  BY <1>1, DiskReplaced
<1>3. CASE WriteNum
  <2>1. /\ wadPc = "writeNum" /\ wadPc' = "writeOff"
        /\ UNCHANGED <<num, off, descriptors, tree, written, creation>>
    BY <1>3 DEF WriteNum, NumReaches, NumFails, memory
  <2>2. DiskChange
    <3>1. CASE NumReaches
      BY <1>1, <1>2, <3>1 DEF NumReaches, DiskChange
    <3>2. CASE NumFails
      BY <3>2 DEF NumFails, DiskChange
    <3> QED
      BY <1>3, <3>1, <3>2 DEF WriteNum
  <2>3. lag' \in Nat /\ astray' \in Nat /\ (lag' > 0 => astray' > 0)
    <3>1. CASE NumReaches
      BY <1>1, <3>1 DEF NumReaches, faults
    <3>2. CASE NumFails
      BY <1>1, <3>2, GoneAstray DEF NumFails
    <3> QED
      BY <1>3, <3>1, <3>2 DEF WriteNum
  <2>4. MemoryInv'
    BY <1>1, <2>1, MemoryKept DEF Writing
  <2>5. off <= off'
    BY <1>1, <2>1
  <2> QED
    BY <2>1, <2>2, <2>3, <2>4, <2>5, ShapeKept DEF StepKeeps
<1>4. CASE WriteOff
  <2>1. /\ wadPc = "writeOff" /\ wadPc' = "writeList" /\ written' = 1
        /\ UNCHANGED <<num, off, descriptors, tree, creation>>
    BY <1>4 DEF WriteOff, OffReaches, OffMissed, memory
  <2>2. DiskChange
    <3>1. CASE OffReaches
      BY <1>1, <1>2, <3>1 DEF OffReaches, DiskChange
    <3>2. CASE OffMissed
      BY <1>1, <1>2, <3>2 DEF OffMissed, DiskChange
    <3> QED
      BY <1>4, <3>1, <3>2 DEF WriteOff
  <2>3. lag' = 0 /\ astray' \in Nat
    <3>1. CASE OffReaches
      BY <1>1, <3>1 DEF OffReaches, faults
    <3>2. CASE OffMissed
      BY <1>1, <3>2, GoneAstray DEF OffMissed
    <3> QED
      BY <1>4, <3>1, <3>2 DEF WriteOff
  <2>4. MemoryInv'
    BY <1>1, <2>1, MemoryKept DEF Writing
  <2>5. off <= off' /\ written' \in 1 .. num' + 1
    BY <1>1, <2>1
  <2>6. lag' <= (written' - 1) * DescSize /\ lag' \in Nat /\ ~ (lag' > 0)
    BY <2>1, <2>3, SizesAssumption
  <2> QED
    BY <2>1, <2>2, <2>3, <2>4, <2>5, <2>6, ShapeKept DEF StepKeeps
<1> QED
  BY <1>3, <1>4

LEMMA DescriptorShape ==
  ASSUME ShapeInv, WriteDescriptor
  PROVE  StepKeeps
<1>1. /\ MemoryInv /\ IsDisk(disk) /\ lag \in Nat /\ astray \in Nat /\ (lag > 0 => astray > 0)
      /\ num \in Nat /\ off \in Nat /\ written \in Nat /\ num = Len(descriptors)
  BY DEF ShapeInv, MemoryInv, HeaderInv
<1>2. /\ wadPc = "writeList" /\ wadPc' = "writeList" /\ written <= Len(descriptors)
      /\ written' = written + 1
      /\ UNCHANGED <<num, off, descriptors, tree, creation>>
  BY DEF WriteDescriptor, DescriptorReaches, DescriptorMissed, memory
<1>3. written \in 1 .. num + 1 /\ lag <= (written - 1) * DescSize
  BY <1>2 DEF ShapeInv, HeaderInv
<1>4. \E count \in 0 .. DescSize :
         /\ disk' = [disk EXCEPT !.cells = WithParts(DescriptorCell - lag, count)]
         /\ lag' = lag + DescSize - count /\ astray' \in Nat /\ (lag' > 0 => astray' > 0)
  <2>1. CASE DescriptorReaches
    <3>1. DescSize \in 0 .. DescSize /\ lag + DescSize - DescSize = lag
      BY <1>1, SizesAssumption
    <3>2. DescriptorCell - lag = DescriptorCell
      <4>1. written - 1 \in Nat
        BY <1>3
      <4>2. (written - 1) * DescSize \in Nat
        BY <4>1, SizeAdds
      <4>3. DescriptorCell \in Nat
        BY <1>1, <4>2 DEF DescriptorCell, ListStart
      <4> QED
        BY <2>1, <4>3 DEF DescriptorReaches
    <3>3. /\ disk' = [disk EXCEPT !.cells = WithParts(DescriptorCell, DescSize)]
          /\ lag' = lag /\ astray' = astray
      BY <2>1 DEF DescriptorReaches, faults
    <3>4. disk' = [disk EXCEPT !.cells = WithParts(DescriptorCell - lag, DescSize)]
      BY <3>2, <3>3, Zenon
    <3> QED
      BY <1>1, <3>1, <3>3, <3>4
  <2>2. CASE DescriptorMissed
    <3>1. PICK count \in 0 .. DescSize :
             /\ \/ count = DescSize /\ lag > 0 /\ UNCHANGED astray
                \/ count < DescSize /\ GoAstray
             /\ disk' = [disk EXCEPT !.cells = WithParts(DescriptorCell - lag, count)]
             /\ lag' = lag + DescSize - count
      BY <2>2, Zenon DEF DescriptorMissed
    <3>2. astray' \in Nat /\ astray' > 0
      BY <1>1, <3>1, GoneAstray
    <3> QED
      BY <3>1, <3>2
  <2> QED
    BY <2>1, <2>2 DEF WriteDescriptor
<1>5. PICK count \in 0 .. DescSize :
         /\ disk' = [disk EXCEPT !.cells = WithParts(DescriptorCell - lag, count)]
         /\ lag' = lag + DescSize - count /\ astray' \in Nat /\ (lag' > 0 => astray' > 0)
  BY <1>4
<1>6. DiskChange
  BY <1>2, <1>5, PartsAreCells
<1>7. lag' \in Nat /\ written' \in 1 .. num' + 1 /\ lag' <= (written' - 1) * DescSize
  <2>1. written - 1 \in Nat /\ written' - 1 = (written - 1) + 1 /\ written' \in 1 .. num' + 1
    BY <1>1, <1>2, <1>3
  <2>2. /\ (written - 1) * DescSize \in Nat /\ DescSize \in Nat
        /\ ((written - 1) + 1) * DescSize = (written - 1) * DescSize + DescSize
    BY <2>1, SizeAdds
  <2> DEFINE x == (written - 1) * DescSize
  <2>3. (written' - 1) * DescSize = x + DescSize /\ x \in Nat /\ lag <= x
    BY <1>3, <2>1, <2>2
  <2> HIDE DEF x
  <2>4. lag' \in Nat /\ lag' <= x + DescSize
    BY <1>1, <1>5, <2>2, <2>3
  <2> QED
    BY <2>1, <2>3, <2>4
<1>8. MemoryInv'
  BY <1>1, <1>2, MemoryKept DEF Writing
<1>9. off <= off'
  BY <1>1, <1>2
<1> QED
  BY <1>2, <1>5, <1>6, <1>7, <1>8, <1>9, ShapeKept DEF StepKeeps

LEMMA ClientShape ==
  ASSUME ShapeInv, NEW path \in Paths,
         \/ CreateDirectory(path)
         \/ CreateFile(path)
         \/ CreateNothing(path)
         \/ WriteToNothing(path)
         \/ RefuseWrite(path)
         \/ \E buffer \in Buffers, offset \in WriteOffsets :
               WriteToFile(path, buffer, offset)
  PROVE  StepKeeps
<1>1. /\ MemoryInv /\ IsDisk(disk) /\ lag \in Nat /\ astray \in Nat /\ (lag > 0 => astray > 0)
      /\ num \in Nat /\ off \in Nat /\ written \in Nat
  BY DEF ShapeInv, MemoryInv, HeaderInv
<1>2. CASE CreateDirectory(path) \/ CreateFile(path)
  <2>1. PICK new, index, node : IsCreation(new, index, node)
    BY <1>1, <1>2, DirectoryIsCreation, FileIsCreation, Zenon
  <2>2. MemoryInv' /\ wadPc' = "writeNum" /\ UNCHANGED <<disk, off, lag, astray>>
    BY <1>1, <2>1, CreateMemory DEF faults
  <2>3. wadPc = "idle" /\ off <= off' /\ DiskChange
    BY <1>1, <2>1, <2>2 DEF IsCreation, DiskChange
  <2> QED
    BY <1>1, <2>2, <2>3, ShapeKept DEF StepKeeps
<1>3. CASE CreateNothing(path) \/ RefuseWrite(path)
  <2>1. UNCHANGED vars /\ wadPc = "idle"
    BY <1>3 DEF CreateNothing, RefuseWrite
  <2>2. MemoryInv' /\ UNCHANGED <<disk, off, lag, astray, wadPc>>
    BY <1>1, <2>1, MemoryKept DEF vars, memory, faults
  <2>3. off <= off' /\ DiskChange
    BY <1>1, <2>2 DEF DiskChange
  <2> QED
    BY <1>1, <2>1, <2>2, <2>3, ShapeKept DEF StepKeeps
<1>4. CASE WriteToNothing(path)
  <2>1. /\ wadPc = "idle" /\ wadPc' = "crashed"
        /\ UNCHANGED <<disk, num, off, descriptors, tree, written, creation, lag, astray>>
    BY <1>4 DEF WriteToNothing, memory, faults
  <2>2. MemoryInv'
    BY <1>1, <2>1, MemoryKept
  <2>3. off <= off' /\ DiskChange
    BY <1>1, <2>1 DEF DiskChange
  <2> QED
    BY <1>1, <2>1, <2>2, <2>3, ShapeKept DEF StepKeeps
<1>5. ASSUME NEW buffer \in Buffers, NEW offset \in WriteOffsets,
             WriteToFile(path, buffer, offset)
      PROVE  StepKeeps
  <2>1. FindNode(path) \in DOMAIN tree
    BY <1>1, <1>5, WrittenInMemory
  <2> DEFINE n == FindNode(path)
  <2>2. PICK count \in Nat : Extends(n, count, buffer, off + offset)
    BY <1>1, <1>5, WrittenInMemory
  <2> HIDE DEF n
  <2>3. n \in DOMAIN tree
    BY <2>1 DEF n
  <2> DEFINE first == off + offset
  <2>4. first \in Nat /\ off <= first
    <3>1. offset \in Nat
      BY SizesAssumption
    <3> QED
      BY <1>1, <3>1
  <2> HIDE DEF first
  <2>5. Extends(n, count, buffer, first)
    BY <2>2 DEF first
  <2>6. /\ wadPc = "idle" /\ wadPc' # "writeList" /\ off' = off + count
        /\ disk' = [disk EXCEPT !.cells = WrittenCells(count, buffer, first)]
    BY <2>5, Zenon DEF Extends
  <2>7. lag' = lag /\ astray' = astray
    BY <1>5 DEF WriteToFile, faults
  <2>8. MemoryInv'
    BY <1>1, <2>3, <2>5, ExtendMemory
  <2>9. DiskChange
    BY <1>1, <2>4, <2>6, BytesWritten
  <2>10. off <= off'
    BY <1>1, <2>6
  <2> QED
    BY <1>1, <2>6, <2>7, <2>8, <2>9, <2>10, ShapeKept DEF StepKeeps
<1> QED
  BY <1>2, <1>3, <1>4, <1>5

LEMMA NextShape == ASSUME ShapeInv, [Next]_vars PROVE StepKeeps
<1>1. /\ MemoryInv /\ HeaderInv /\ IsDisk(disk) /\ astray \in Nat /\ off \in Nat
  BY DEF ShapeInv, MemoryInv, HeaderInv
<1>2. CASE LoadWad
  BY <1>2, LoadShape DEF StepKeeps
<1>3. CASE GoDown
  <2>1. wadPc' = "down" /\ lag' = 0 /\ UNCHANGED <<disk, astray>>
    BY <1>3 DEF GoDown, Forget
  <2>2. HeaderInv'
    BY <1>1, <2>1 DEF HeaderInv
  <2> QED
    BY <1>3, <2>1, <2>2, GoDownMemory DEF ShapeInv, StepKeeps
<1>4. CASE CallReturn
  <2>1. /\ wadPc = "writeList" /\ wadPc' = "idle" /\ lag' = 0
        /\ UNCHANGED <<disk, off, astray>>
    BY <1>4 DEF CallReturn
  <2>2. DiskChange /\ off <= off' /\ lag' \in Nat /\ ~ (lag' > 0)
    BY <1>1, <2>1 DEF DiskChange
  <2> QED
    BY <1>1, <1>4, <2>1, <2>2, CallReturnMemory, ShapeKept DEF StepKeeps
<1>5. CASE UNCHANGED vars
  <2>1. /\ written' = written
        /\ UNCHANGED <<disk, num, off, descriptors, tree, creation, wadPc, lag, astray>>
    BY <1>5 DEF vars, memory, faults
  <2>2. written' \in Nat
    BY <1>1, <2>1 DEF MemoryInv
  <2>3. MemoryInv' /\ HeaderInv'
    BY <1>1, <2>1, <2>2, MemoryKept DEF HeaderInv
  <2> QED
    BY <2>1, <2>3 DEF StepKeeps, ShapeInv
<1>6. ASSUME NEW path \in Paths,
             \/ CreateDirectory(path)
             \/ CreateFile(path)
             \/ CreateNothing(path)
             \/ WriteToNothing(path)
             \/ RefuseWrite(path)
             \/ \E buffer \in Buffers, offset \in WriteOffsets :
                   WriteToFile(path, buffer, offset)
      PROVE  StepKeeps
  BY <1>6, ClientShape
<1> QED
  BY <1>2, <1>3, <1>4, <1>5, <1>6, HeaderShape, DescriptorShape, Zenon DEF Next

\* No step but a data or list write from off on touches a cell.
LEMMA WritesFromList ==
  ASSUME ShapeInv, [Next]_vars, wadPc # "down", NEW c \in Nat, c < off
  PROVE  CellStays(disk.cells, disk'.cells, c)
<1>1. IsDisk(disk) /\ off \in Nat /\ disk.off <= off
  BY DEF ShapeInv, MemoryInv, HeaderInv
<1>2. DiskChange
  BY NextShape DEF StepKeeps, DiskChange
<1> QED
  BY <1>1, <1>2, DiskChanges

-----------------------------------------------------------------------------
(* The theorems                                                            *)

LEMMA SoundKept ==
  ASSUME ShapeInv, [Next]_vars, astray = 0 => LumpsInv, astray' = 0
  PROVE  LumpsInv'
<1>1. astray = 0 /\ [Sound]_vars
  BY StepIsSound DEF ShapeInv
<1> QED
  BY <1>1, SoundInv

\* Whatever dies, falls short or is torn, memory keeps its shape and the list
\* stays behind the place the header has for it.
THEOREM ShapeInvAlways == Spec => []ShapeInv
<1>1. Init => ShapeInv
  BY InitShape
<1>2. ShapeInv /\ [Next]_vars => ShapeInv'
  BY NextShape DEF StepKeeps
<1> QED
  BY <1>1, <1>2, PTL DEF Spec

\* Until a write of header or list falls short or a torn list is loaded, every
\* node of the tree has the extent of its descriptor, the lumps of the
\* descriptors share no cell, and a list found whole on disk has that property
\* too: parse, insertion, writeHeader, writeDescriptors and a death of the
\* process at any write keep it.
SoundLumps == astray = 0 => LumpsInv
THEOREM LumpsInvAlways == Spec => []SoundLumps
<1>1. Init => SoundLumps
  BY InitInv DEF SoundLumps
<1>2. ShapeInv /\ SoundLumps /\ [Next]_vars => SoundLumps'
  BY SoundKept DEF SoundLumps
<1> QED
  BY <1>1, <1>2, ShapeInvAlways, PTL DEF Spec

LEMMA ShapeTyped == ASSUME ShapeInv PROVE TypeOK
<1>1. creation.at \in Nat /\ creation.node \in Nodes \union {<<>>}
  <2>1. NoCreation.at = 0 /\ NoCreation.node = <<>>
    BY DEF NoCreation
  <2> QED
    BY <2>1 DEF ShapeInv, MemoryInv
<1>2. disk.num \in Nat /\ disk.off \in Nat /\ DOMAIN disk.cells \subseteq Nat
  BY DEF ShapeInv, HeaderInv, IsDisk
<1> QED
  BY <1>1, <1>2 DEF TypeOK, ShapeInv, MemoryInv, HeaderInv, Writing

\* Header, descriptors, nodes and control keep their types, whatever the disk,
\* whatever falls short and whatever a torn list is taken for.
THEOREM TypeOKAlways == Spec => []TypeOK
<1>1. ShapeInv => TypeOK
  BY ShapeTyped
<1> QED
  BY <1>1, ShapeInvAlways, PTL

\* Nothing the library does, whatever falls short, dies or is torn, overwrites
\* a byte before the place the header has for the list, which never moves back.
THEOREM OldBytesStayAlways == Spec => OldBytesStay
<1> DEFINE A == /\ disk.off <= disk'.off
                /\ \A c \in DOMAIN disk.cells :
                      c < disk.off => c \in DOMAIN disk'.cells /\ disk'.cells[c] = disk.cells[c]
<1>1. ShapeInv /\ [Next]_vars => [A]_vars
  <2> SUFFICES ASSUME ShapeInv, [Next]_vars PROVE A
    OBVIOUS
  <2>1. IsDisk(disk) /\ off \in Nat /\ disk.off \in Nat
    BY DEF ShapeInv, MemoryInv, HeaderInv, IsDisk
  <2>2. CASE disk' = disk
    BY <2>1, <2>2
  <2>3. CASE wadPc # "down" /\ DiskChange
    <3>1. disk.off <= off
      BY <2>3 DEF ShapeInv, HeaderInv
    <3>2. /\ disk.off <= disk'.off
          /\ \A c \in Nat : c < off => CellStays(disk.cells, disk'.cells, c)
      BY <2>1, <2>3, <3>1, DiskChanges
    <3>3. ASSUME NEW c \in DOMAIN disk.cells, c < disk.off
          PROVE  c \in DOMAIN disk'.cells /\ disk'.cells[c] = disk.cells[c]
      <4>1. c \in Nat
        BY <2>1 DEF IsDisk
      <4>2. c < off
        BY <2>1, <3>1, <3>3, <4>1
      <4> QED
        BY <3>2, <4>1, <4>2 DEF CellStays
    <3> QED
      BY <3>2, <3>3
  <2> QED
    BY <2>2, <2>3, NextShape DEF StepKeeps
<1>2. Spec => [][A]_vars
  BY <1>1, ShapeInvAlways, PTL DEF Spec
<1> QED
  BY <1>2 DEF OldBytesStay

\* The nodes with content, and their descriptors.
LEMMA NodesDescribed ==
  ASSUME LumpsInv
  PROVE  /\ \A n \in DOMAIN tree :
               tree[n].length > 0 =>
                  LET i == Completed[n].start + 1
                  IN  /\ i \in DOMAIN descriptors
                      /\ descriptors[i].offset = tree[n].offset
                      /\ descriptors[i].length = tree[n].length
         /\ \A n, m \in DOMAIN tree :
               n # m /\ tree[n].length > 0 /\ tree[m].length > 0 =>
                  Completed[n].start # Completed[m].start
<1>1. /\ tree \in Seq(Nodes)
      /\ creation # NoCreation => creation.at \in Nat /\ creation.node \in Nodes
      /\ descriptors \in Seq(Descriptors)
      /\ FilesDescribed(Completed, descriptors, Len(descriptors))
  BY DEF LumpsInv, MemoryInv
<1>2. /\ Completed \in Seq(Nodes) /\ Len(Completed) >= Len(tree)
      /\ \A n \in DOMAIN tree :
            /\ Completed[n].isDir = tree[n].isDir
            /\ Completed[n].offset = tree[n].offset /\ Completed[n].length = tree[n].length
  BY <1>1, CompletedIs
<1> DEFINE nodes == Completed
<1>3. DOMAIN tree \subseteq DOMAIN nodes /\ \A n \in DOMAIN nodes : nodes[n] \in Nodes
  <2>1. nodes \in Seq(Nodes) /\ Len(nodes) >= Len(tree)
    BY <1>2
  <2> HIDE DEF nodes
  <2> QED
    BY <1>1, <2>1
<1>4. \A n \in DOMAIN tree :
         /\ nodes[n].offset = tree[n].offset /\ nodes[n].length = tree[n].length
  BY <1>2
<1>5. FilesDescribed(nodes, descriptors, Len(descriptors))
  BY <1>1
<1> HIDE DEF nodes
<1>6. ASSUME NEW n \in DOMAIN tree, tree[n].length > 0
      PROVE  /\ ~ nodes[n].isDir
             /\ nodes[n].start + 1 \in DOMAIN descriptors
             /\ descriptors[nodes[n].start + 1].offset = tree[n].offset
             /\ descriptors[nodes[n].start + 1].length = tree[n].length
  <2>1. n \in DOMAIN nodes /\ nodes[n] \in Nodes
    BY <1>3
  <2>2. nodes[n].start \in Nat
    BY <2>1 DEF Nodes
  <2>3. ~ nodes[n].isDir
    BY <1>4, <1>5, <1>6, <2>1 DEF FilesDescribed
  <2>4. /\ nodes[n].start < Len(descriptors)
        /\ descriptors[nodes[n].start + 1].offset = nodes[n].offset
        /\ descriptors[nodes[n].start + 1].length = nodes[n].length
    BY <1>5, <2>1, <2>3 DEF FilesDescribed
  <2>5. nodes[n].start + 1 \in DOMAIN descriptors
    BY <1>1, <2>2, <2>4
  <2> QED
    BY <1>4, <2>3, <2>4, <2>5
<1>7. ASSUME NEW n \in DOMAIN tree, NEW m \in DOMAIN tree, n # m,
             tree[n].length > 0, tree[m].length > 0
      PROVE  nodes[n].start # nodes[m].start
  BY <1>3, <1>5, <1>6, <1>7 DEF FilesDescribed
<1> QED
  BY <1>6, <1>7 DEF nodes

\* What LumpsApart says as long as it says something.
FilesApart ==
    \A n \in DOMAIN tree :
       tree[n].length > 0 =>
          /\ tree[n].offset + tree[n].length <= off
          /\ \A m \in DOMAIN tree \ {n} : LumpCells(n) \intersect LumpCells(m) = {}

LEMMA InvApart == ASSUME LumpsInv PROVE FilesApart
<1>1. /\ Apart(descriptors, off) /\ tree \in Seq(Nodes) /\ Completed \in Seq(Nodes)
      /\ Len(Completed) >= Len(tree)
  BY CompletedIs DEF LumpsInv, MemoryInv
<1> DEFINE nodes == Completed
           i(n) == nodes[n].start + 1
<1>2. ASSUME NEW n \in DOMAIN tree, tree[n].length > 0
      PROVE  /\ i(n) \in DOMAIN descriptors
             /\ descriptors[i(n)].offset = tree[n].offset
             /\ descriptors[i(n)].length = tree[n].length
  BY <1>2, NodesDescribed
<1>3. \A n \in DOMAIN tree : nodes[n].start \in Nat
  <2>1. nodes \in Seq(Nodes) /\ Len(nodes) >= Len(tree)
    BY <1>1
  <2> HIDE DEF nodes
  <2>2. \A n \in DOMAIN tree : nodes[n] \in Nodes
    BY <1>1, <2>1
  <2> QED
    BY <2>2 DEF Nodes
<1>4. ASSUME NEW n \in DOMAIN tree, NEW m \in DOMAIN tree, n # m,
             tree[n].length > 0, tree[m].length > 0
      PROVE  i(n) # i(m)
  <2>1. nodes[n].start # nodes[m].start
    BY <1>4, NodesDescribed
  <2> HIDE DEF nodes
  <2> QED
    BY <1>3, <2>1
<1> HIDE DEF i, nodes
<1>5. ASSUME NEW n \in DOMAIN tree, tree[n].length > 0
      PROVE  /\ tree[n].offset + tree[n].length <= off
             /\ \A m \in DOMAIN tree \ {n} : LumpCells(n) \intersect LumpCells(m) = {}
  <2>1. tree[n].offset + tree[n].length <= off
    BY <1>1, <1>2, <1>5 DEF Apart
  <2>2. ASSUME NEW m \in DOMAIN tree \ {n} PROVE LumpCells(n) \intersect LumpCells(m) = {}
    <3>1. CASE tree[m].length > 0
      <4>1. Lump(descriptors[i(n)]) \intersect Lump(descriptors[i(m)]) = {}
        BY <1>1, <1>2, <1>4, <1>5, <3>1 DEF Apart
      <4>2. /\ Lump(descriptors[i(n)]) = LumpCells(n)
            /\ Lump(descriptors[i(m)]) = LumpCells(m)
        BY <1>2, <1>5, <3>1 DEF LumpCells, Lump
      <4> QED
        BY <4>1, <4>2
    <3>2. CASE ~ tree[m].length > 0
      <4>1. tree[m] \in Nodes
        BY <1>1
      <4>2. LumpCells(m) = {}
        BY <3>2, <4>1 DEF LumpCells, Lump, Nodes
      <4> QED
        BY <4>2
    <3> QED
      BY <3>1, <3>2
  <2> QED
    BY <2>1, <2>2
<1> QED
  BY <1>5 DEF FilesApart

\* No two files share a byte of the WAD and none reaches into the list, for
\* any disk the library is given, any calls, short data writes and crashes, as
\* long as header and list are written and read whole.
THEOREM LumpsApartAlways == Spec => []LumpsApart
<1>1. SoundLumps => LumpsApart
  BY InvApart DEF SoundLumps, LumpsApart, FilesApart
<1> QED
  BY <1>1, LumpsInvAlways, PTL

\* As long as that is so no write of any call, the one a crash cuts short
\* included, nor the first that falls short, touches a byte of a lump some file
\* already has.
THEOREM LumpsSurviveAlways == Spec => LumpsSurvive
<1> DEFINE A == astray = 0 =>
                   \A n \in DOMAIN tree, c \in DOMAIN disk.cells :
                      c \in LumpCells(n) => disk'.cells[c] = disk.cells[c]
<1>1. ShapeInv /\ SoundLumps /\ [Next]_vars => [A]_vars
  <2> SUFFICES ASSUME ShapeInv, SoundLumps, [Next]_vars, astray = 0,
                      NEW n \in DOMAIN tree, NEW c \in DOMAIN disk.cells, c \in LumpCells(n)
               PROVE  disk'.cells[c] = disk.cells[c]
    OBVIOUS
  <2>0. LumpsInv
    BY DEF SoundLumps
  <2>1. tree[n] \in Nodes /\ off \in Nat
    BY DEF ShapeInv, MemoryInv
  <2>2. tree[n].offset \in Nat /\ tree[n].length \in Nat
    BY <2>1 DEF Nodes
  <2>3. tree[n].length > 0 /\ c < tree[n].offset + tree[n].length
    BY <2>2 DEF LumpCells, Lump
  <2>4. tree[n].offset + tree[n].length <= off
    BY <2>0, <2>3, InvApart DEF FilesApart
  <2>5. c < off /\ c \in Int
    BY <2>1, <2>2, <2>3, <2>4 DEF LumpCells, Lump
  <2>6. c \in Nat
    BY <2>0, DiskIsDisk
  <2>7. CASE wadPc = "down"
    <3>1. disk' = disk
      BY <2>7, NextShape DEF StepKeeps
    <3> QED
      BY <3>1
  <2>8. CASE wadPc # "down"
    BY <2>5, <2>6, <2>8, WritesFromList DEF CellStays
  <2> QED
    BY <2>7, <2>8
<1>2. Spec => [][A]_vars
  BY <1>1, ShapeInvAlways, LumpsInvAlways, PTL DEF Spec
<1> QED
  BY <1>2 DEF LumpsSurvive
=============================================================================
