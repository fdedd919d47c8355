---------------------------- MODULE ReloadProofs ----------------------------
(***************************************************************************)
(* A reload of the WAD file builds the tree the library has in memory, for *)
(* any WAD file whose markers are balanced: what parse makes of a list is  *)
(* compared with what it makes of the list after a createX or writeToFile. *)
(***************************************************************************)
EXTENDS WadProofs

-----------------------------------------------------------------------------
(* What a tree shows, node by node                                         *)

\* A node is known by the index it starts at; the root by -1, no node by -2.
Label(nodes, n) == IF n = 0 THEN -2 ELSE IF n = Root THEN -1 ELSE nodes[n].start

Seen(name, isDir, length, offset, start, end, parent) ==
    [name |-> name, isDir |-> isDir, length |-> length, offset |-> offset,
     start |-> start, end |-> end, parent |-> parent]
Offset(offset, length) == IF length > 0 THEN offset ELSE 0
SeenNode(node, above) ==
    Seen(node.name, node.isDir, node.length, Offset(node.offset, node.length),
         node.start, node.end, above)
ViewOf(nodes, n) == SeenNode(nodes[n], Label(nodes, nodes[n].parent))

Below(nodes) == DOMAIN nodes \ {Root}

\* What every tree of the library is: parents come first, and no two nodes
\* start at the same descriptor.
IsTree(nodes) ==
    /\ nodes \in Seq(Nodes) /\ Len(nodes) > 0
    /\ nodes[Root].parent = 0
    /\ \A n \in Below(nodes) : nodes[n].parent \in 1 .. n - 1
    /\ \A m, n \in Below(nodes) : nodes[m].start = nodes[n].start => m = n

LEMMA SeenFields ==
  ASSUME NEW a, NEW b, NEW c, NEW d, NEW e, NEW f, NEW g
  PROVE  LET v == Seen(a, b, c, d, e, f, g)
         IN  /\ v.name = a /\ v.isDir = b /\ v.length = c /\ v.offset = d
             /\ v.start = e /\ v.end = f /\ v.parent = g
BY DEF Seen

LEMMA NodeFields ==
  ASSUME NEW node \in Nodes
  PROVE  /\ node.name \in Names /\ node.isDir \in BOOLEAN
         /\ node.offset \in Nat /\ node.length \in Nat /\ node.parent \in Nat
         /\ node.start \in Nat /\ node.end \in Nat
BY DEF Nodes

LEMMA TreeNodes ==
  ASSUME NEW nodes, IsTree(nodes)
  PROVE  /\ Len(nodes) \in Nat /\ DOMAIN nodes = 1 .. Len(nodes) /\ Root \in DOMAIN nodes
         /\ Below(nodes) = 2 .. Len(nodes)
         /\ \A n \in DOMAIN nodes : /\ nodes[n] \in Nodes /\ nodes[n].start \in Nat
                                    /\ nodes[n].end \in Nat /\ nodes[n].isDir \in BOOLEAN
                                    /\ nodes[n].length \in Nat /\ nodes[n].parent \in Nat
         /\ \A n \in Below(nodes) : nodes[n].parent \in DOMAIN nodes /\ nodes[n].parent # 0
<1>1. nodes \in Seq(Nodes) /\ Len(nodes) > 0 /\ Len(nodes) \in Nat /\ DOMAIN nodes = 1 .. Len(nodes)
  BY DEF IsTree
<1>2. \A n \in DOMAIN nodes : nodes[n] \in Nodes
  BY <1>1
<1>3. Below(nodes) = 2 .. Len(nodes) /\ Root \in DOMAIN nodes
  BY <1>1 DEF Below, Root
<1>4. ASSUME NEW n \in Below(nodes)
      PROVE  nodes[n].parent \in DOMAIN nodes /\ nodes[n].parent # 0
  <2>1. nodes[n].parent \in 1 .. n - 1
    BY DEF IsTree
  <2> QED
    BY <1>1, <1>3, <2>1
<1> QED
  BY <1>1, <1>2, <1>3, <1>4, NodeFields

\* The view of a tree is that of its nodes.
LEMMA ViewIs ==
  ASSUME NEW nodes, IsTree(nodes)
  PROVE  View(nodes) = {ViewOf(nodes, n) : n \in Below(nodes)}
<1> DEFINE seen(n) ==
       [name |-> n.name, isDir |-> n.isDir, length |-> n.length,
        offset |-> IF n.length > 0 THEN n.offset ELSE 0, start |-> n.start, end |-> n.end,
        parent |-> IF n.parent = Root THEN -1 ELSE nodes[n.parent].start]
<1>1. ASSUME NEW n \in Below(nodes) PROVE seen(nodes[n]) = ViewOf(nodes, n)
  <2>1. nodes[n].parent # 0
    BY TreeNodes
  <2>2. Label(nodes, nodes[n].parent)
           = IF nodes[n].parent = Root THEN -1 ELSE nodes[nodes[n].parent].start
    BY <2>1 DEF Label
  <2> QED
    BY <2>2 DEF ViewOf, SeenNode, Seen, Offset
<1>2. View(nodes) = {seen(n) : n \in {nodes[i] : i \in Below(nodes)}}
  BY DEF View, Below
<1> HIDE DEF seen
<1>3. View(nodes) = {seen(nodes[i]) : i \in Below(nodes)}
  BY <1>2
<1> QED
  BY <1>1, <1>3

\* The fields of what is seen of a node.
LEMMA ViewFields ==
  ASSUME NEW nodes, NEW n
  PROVE  LET v == ViewOf(nodes, n)
         IN  /\ v.name = nodes[n].name /\ v.isDir = nodes[n].isDir
             /\ v.length = nodes[n].length
             /\ v.offset = Offset(nodes[n].offset, nodes[n].length)
             /\ v.start = nodes[n].start /\ v.end = nodes[n].end
             /\ v.parent = Label(nodes, nodes[n].parent)
BY SeenFields DEF ViewOf, SeenNode

\* Labels tell nodes apart.
LEMMA LabelsApart ==
  ASSUME NEW nodes, IsTree(nodes), NEW m \in 0 .. Len(nodes), NEW n \in 0 .. Len(nodes),
         Label(nodes, m) = Label(nodes, n)
  PROVE  m = n
<1>1. \A k \in 0 .. Len(nodes) : k = 0 \/ k = Root \/ (k \in Below(nodes) /\ nodes[k].start \in Nat)
  BY TreeNodes DEF Below
<1>2. \A i \in Nat : i # -1 /\ i # -2
  OBVIOUS
<1>3. CASE m = 0 \/ m = Root
  BY <1>1, <1>2, <1>3 DEF Label, Root
<1>4. CASE n = 0 \/ n = Root
  BY <1>1, <1>2, <1>4 DEF Label, Root
<1>5. CASE m \in Below(nodes) /\ n \in Below(nodes)
  <2>1. m # 0 /\ m # Root /\ n # 0 /\ n # Root
    BY <1>5, TreeNodes DEF Root
  <2>2. nodes[m].start = nodes[n].start
    BY <2>1 DEF Label
  <2> QED
    BY <1>5, <2>2 DEF IsTree
<1> QED
  BY <1>1, <1>3, <1>4, <1>5

\* A node put at the end of a tree is seen in addition to the others.
LEMMA ViewGrows ==
  ASSUME NEW nodes, IsTree(nodes), NEW node \in Nodes, node.parent \in DOMAIN nodes,
         \A n \in Below(nodes) : nodes[n].start # node.start
  PROVE  LET more == Append(nodes, node)
         IN  /\ IsTree(more) /\ Len(more) = Len(nodes) + 1 /\ more[Len(nodes) + 1] = node
             /\ \A n \in DOMAIN nodes : more[n] = nodes[n]
             /\ \A n \in 0 .. Len(nodes) : Label(more, n) = Label(nodes, n)
             /\ View(more) = View(nodes) \union {SeenNode(node, Label(nodes, node.parent))}
<1> DEFINE more == Append(nodes, node)
           len == Len(nodes)
<1>1. /\ nodes \in Seq(Nodes) /\ len \in Nat /\ len > 0 /\ DOMAIN nodes = 1 .. len
      /\ Below(nodes) = 2 .. len
  BY TreeNodes DEF IsTree
<1>2. /\ more \in Seq(Nodes) /\ Len(more) = len + 1 /\ more[len + 1] = node
      /\ \A n \in DOMAIN nodes : more[n] = nodes[n]
      /\ DOMAIN more = 1 .. len + 1
  BY <1>1
<1> HIDE DEF more
<1>3. Below(more) = Below(nodes) \union {len + 1} /\ Below(nodes) \subseteq DOMAIN nodes
  BY <1>1, <1>2 DEF Below, Root
<1>4. IsTree(more)
  <2>1. more[Root].parent = 0
    BY <1>1, <1>2 DEF IsTree, Root
  <2>2. \A n \in Below(more) : more[n].parent \in 1 .. n - 1
    BY <1>1, <1>2, <1>3 DEF IsTree
  <2>3. \A m, n \in Below(more) : more[m].start = more[n].start => m = n
    BY <1>2, <1>3 DEF IsTree
  <2> QED
    BY <1>1, <1>2, <2>1, <2>2, <2>3 DEF IsTree
<1>5. \A n \in 0 .. len : Label(more, n) = Label(nodes, n)
  BY <1>1, <1>2 DEF Label
<1>6. ASSUME NEW n \in Below(nodes) PROVE ViewOf(more, n) = ViewOf(nodes, n)
  <2>1. nodes[n].parent \in 0 .. len /\ more[n] = nodes[n]
    BY <1>1, <1>2, TreeNodes
  <2> QED
    BY <1>5, <2>1 DEF ViewOf
<1>7. ViewOf(more, len + 1) = SeenNode(node, Label(nodes, node.parent))
  <2>1. node.parent \in 0 .. len
    BY <1>1
  <2> QED
    BY <1>2, <1>5, <2>1 DEF ViewOf
<1>8. View(more) = {ViewOf(more, n) : n \in Below(nodes) \union {len + 1}}
  BY <1>3, <1>4, ViewIs
<1>9. View(nodes) = {ViewOf(nodes, n) : n \in Below(nodes)}
  BY ViewIs
<1>10. View(more) = View(nodes) \union {SeenNode(node, Label(nodes, node.parent))}
  BY <1>6, <1>7, <1>8, <1>9
<1> QED
  BY <1>2, <1>4, <1>5, <1>10 DEF more

\* The view once the node that starts at start has got its end.
EndedAt(v, start, end) ==
    Seen(v.name, v.isDir, v.length, v.offset, v.start,
         IF v.start = start THEN end ELSE v.end, v.parent)

LEMMA EndSetIs ==
  ASSUME NEW nodes, IsTree(nodes), NEW n \in DOMAIN nodes, NEW i \in Nat
  PROVE  LET more == EndSet(nodes, n, i)
         IN  /\ IsTree(more) /\ Len(more) = Len(nodes)
             /\ \A k \in DOMAIN nodes \ {n} : more[k] = nodes[k]
             /\ more[n].end = i
             /\ \A k \in DOMAIN nodes :
                   /\ more[k].name = nodes[k].name /\ more[k].isDir = nodes[k].isDir
                   /\ more[k].parent = nodes[k].parent /\ more[k].start = nodes[k].start
             /\ \A k \in 0 .. Len(nodes) : Label(more, k) = Label(nodes, k)
             /\ View(more) = {EndedAt(v, Label(nodes, n), i) : v \in View(nodes)}
<1> DEFINE more == EndSet(nodes, n, i)
           node == [nodes[n] EXCEPT !.end = i]
           len == Len(nodes)
<1>1. /\ nodes \in Seq(Nodes) /\ len \in Nat /\ len > 0 /\ DOMAIN nodes = 1 .. len
      /\ Below(nodes) = 2 .. len
  BY TreeNodes DEF IsTree
<1>2. /\ node \in Nodes /\ node.end = i
      /\ node.name = nodes[n].name /\ node.isDir = nodes[n].isDir
      /\ node.parent = nodes[n].parent /\ node.start = nodes[n].start
      /\ node.offset = nodes[n].offset /\ node.length = nodes[n].length
  <2>1. nodes[n] \in Nodes
    BY <1>1
  <2> QED
    BY <2>1, EndReplaced
<1>3. more = [nodes EXCEPT ![n] = node]
  BY DEF EndSet
<1> HIDE DEF more, node
<1>4. /\ more \in Seq(Nodes) /\ Len(more) = len /\ DOMAIN more = DOMAIN nodes
      /\ more[n] = node /\ \A k \in DOMAIN nodes \ {n} : more[k] = nodes[k]
  BY <1>1, <1>2, <1>3
<1>5. \A k \in DOMAIN nodes :
         /\ more[k].name = nodes[k].name /\ more[k].isDir = nodes[k].isDir
         /\ more[k].parent = nodes[k].parent /\ more[k].start = nodes[k].start
         /\ more[k].offset = nodes[k].offset /\ more[k].length = nodes[k].length
         /\ more[k].end = IF k = n THEN i ELSE nodes[k].end
  BY <1>2, <1>4
<1>6. Below(more) = Below(nodes) /\ Below(nodes) \subseteq DOMAIN nodes
  BY <1>4 DEF Below
<1>7. IsTree(more)
  <2>1. more[Root].parent = 0
    BY <1>1, <1>5 DEF IsTree, Root
  <2>2. \A k \in Below(more) : more[k].parent \in 1 .. k - 1
    BY <1>5, <1>6 DEF IsTree
  <2>3. \A j, k \in Below(more) : more[j].start = more[k].start => j = k
    BY <1>5, <1>6 DEF IsTree
  <2> QED
    BY <1>1, <1>4, <2>1, <2>2, <2>3 DEF IsTree
<1>8. \A k \in 0 .. len : Label(more, k) = Label(nodes, k)
  BY <1>1, <1>5 DEF Label
<1>9. ASSUME NEW k \in Below(nodes)
      PROVE  ViewOf(more, k) = EndedAt(ViewOf(nodes, k), Label(nodes, n), i)
  <2>1. nodes[k].parent \in 0 .. len /\ k \in 0 .. len /\ n \in 0 .. len /\ k # 0 /\ k # Root
    BY <1>1, TreeNodes DEF Root
  <2>2. nodes[k].start = Label(nodes, k)
    BY <2>1 DEF Label
  <2>3. nodes[k].start = Label(nodes, n) <=> k = n
    BY <2>1, <2>2, LabelsApart
  <2>4. Label(more, more[k].parent) = Label(nodes, nodes[k].parent)
    BY <1>5, <1>6, <1>8, <2>1
  <2>5. more[k].end = IF nodes[k].start = Label(nodes, n) THEN i ELSE nodes[k].end
    BY <1>5, <1>6, <2>3
  <2> DEFINE v == ViewOf(nodes, k)
  <2>6. /\ v.name = nodes[k].name /\ v.isDir = nodes[k].isDir /\ v.length = nodes[k].length
        /\ v.offset = Offset(nodes[k].offset, nodes[k].length)
        /\ v.start = nodes[k].start /\ v.end = nodes[k].end
        /\ v.parent = Label(nodes, nodes[k].parent)
    BY ViewFields
  <2> HIDE DEF v
  <2>7. EndedAt(v, Label(nodes, n), i)
           = Seen(nodes[k].name, nodes[k].isDir, nodes[k].length,
                  Offset(nodes[k].offset, nodes[k].length), nodes[k].start,
                  more[k].end, Label(nodes, nodes[k].parent))
    BY <2>5, <2>6 DEF EndedAt
  <2>8. ViewOf(more, k)
           = Seen(nodes[k].name, nodes[k].isDir, nodes[k].length,
                  Offset(nodes[k].offset, nodes[k].length), nodes[k].start,
                  more[k].end, Label(nodes, nodes[k].parent))
    BY <1>5, <1>6, <2>4 DEF ViewOf, SeenNode
  <2> QED
    BY <2>7, <2>8 DEF v
<1>10. View(more) = {ViewOf(more, k) : k \in Below(nodes)}
  BY <1>6, <1>7, ViewIs
<1>11. View(nodes) = {ViewOf(nodes, k) : k \in Below(nodes)}
  BY ViewIs
<1>12. View(more) = {EndedAt(v, Label(nodes, n), i) : v \in View(nodes)}
  BY <1>9, <1>10, <1>11
<1>13. \A k \in DOMAIN nodes :
         /\ more[k].name = nodes[k].name /\ more[k].isDir = nodes[k].isDir
         /\ more[k].parent = nodes[k].parent /\ more[k].start = nodes[k].start
  BY <1>5
<1>14. more[n].end = i
  BY <1>5
<1> QED
  BY <1>4, <1>7, <1>8, <1>12, <1>13, <1>14 DEF more

-----------------------------------------------------------------------------
(* The states parse goes through                                           *)

\* A directory whose end parse has yet to find.
OpenDir(nodes, n) ==
    /\ n \in Below(nodes)
    /\ nodes[n].isDir /\ nodes[n].name.mark # "map" /\ nodes[n].end = 0

\* The directory that is open when the current map is full.
Top(p) == IF p.left = 0 THEN p.cur ELSE p.nodes[p.cur].parent

\* After i descriptors: nodes start in the order they are made, before i.
Ordered(nodes, i) ==
    /\ \A n \in Below(nodes) : nodes[n].start < i /\ nodes[n].end < i
    /\ \A m, n \in Below(nodes) : m < n => nodes[m].start < nodes[n].start

\* What is in a directory starts before its end.
Nested(nodes) ==
    \A n \in Below(nodes) :
       LET up == nodes[n].parent
       IN  nodes[up].isDir /\ nodes[up].name.mark # "map" /\ nodes[up].end # 0 /\ up # Root
              => nodes[n].start < nodes[up].end

\* The open directories are the current one and those above it.
Chain(p) ==
    /\ p.left > 0 => p.cur \in Below(p.nodes) /\ p.nodes[p.cur].name.mark = "map"
                     /\ p.nodes[p.cur].isDir
    /\ Top(p) = Root \/ OpenDir(p.nodes, Top(p))
    /\ \A n \in DOMAIN p.nodes :
          OpenDir(p.nodes, n) =>
             /\ n <= Top(p)
             /\ p.nodes[n].parent = Root \/ OpenDir(p.nodes, p.nodes[n].parent)
             /\ \A m \in DOMAIN p.nodes :
                   OpenDir(p.nodes, m) /\ m < n => m <= p.nodes[n].parent

RunState(p, i) ==
    /\ p \in ParseStates
    /\ IsTree(p.nodes) /\ Ordered(p.nodes, i) /\ Nested(p.nodes)
    /\ p.cur # 0 => Chain(p)

Here(p) == Label(p.nodes, p.cur)
Above(p) == Label(p.nodes, p.nodes[p.cur].parent)

\* What parse sees of the descriptor at index i.
OpenedView(p, i, d) == Seen(DirName(d), TRUE, 0, 0, i, 0, Here(p))
FiledView(p, i, d) ==
    Seen(d.name, FALSE, d.length, Offset(d.offset, d.length), i, 0, Here(p))

LEMMA RunFields ==
  ASSUME NEW i \in Nat, NEW p, RunState(p, i)
  PROVE  /\ p \in ParseStates /\ IsState(p) /\ IsTree(p.nodes)
         /\ p.cur \in 0 .. Len(p.nodes) /\ p.left \in Nat /\ p.failed \in BOOLEAN
         /\ p.cur # 0 => p.cur \in DOMAIN p.nodes
BY ParseStatesAreStates, TreeNodes DEF RunState, ParseStates

LEMMA StepOpens ==
  ASSUME NEW i \in Nat, NEW p, RunState(p, i), NEW d \in Descriptors, p.cur # 0, Opens(p, d)
  PROVE  LET q == ParseStep(p, i, d)
         IN  /\ RunState(q, i + 1)
             /\ View(q.nodes) = View(p.nodes) \union {OpenedView(p, i, d)}
             /\ Here(q) = i /\ Here(q) # -1
             /\ q.failed = p.failed
             /\ q.left = IF d.name.mark = "map" THEN MapElements ELSE 0
<1> DEFINE q == ParseStep(p, i, d)
           node == DirNode(DirName(d), p.cur, i, 0)
           len == Len(p.nodes)
           nodes == p.nodes
           more == Append(nodes, node)
<1>1. /\ p \in ParseStates /\ IsState(p) /\ IsTree(nodes)
      /\ p.cur \in DOMAIN nodes /\ p.left = 0
  BY RunFields DEF Opens
<1>2. /\ q.nodes = more /\ q.cur = len + 1
      /\ q.left = IF d.name.mark = "map" THEN MapElements ELSE 0
      /\ q.failed = p.failed
  BY <1>1, StepFields
<1>3. q \in ParseStates
  BY <1>1, StepKeepsStates
<1>4. DirName(d) \in Names
  <2>1. d.name \in Names
    BY DEF Descriptors
  <2> QED
    BY <2>1, PlainIsName DEF DirName
<1>5. /\ node \in Nodes /\ node.name = DirName(d) /\ node.isDir = TRUE /\ node.offset = 0
      /\ node.length = 0 /\ node.parent = p.cur /\ node.start = i /\ node.end = 0
  <2>1. p.cur \in Nat
    BY <1>1 DEF ParseStates
  <2> QED
    BY <1>4, <2>1 DEF DirNode, Nodes
<1>6. /\ len \in Nat /\ len > 0 /\ DOMAIN nodes = 1 .. len /\ Below(nodes) = 2 .. len
      /\ \A n \in DOMAIN nodes : nodes[n].start \in Nat /\ nodes[n].parent \in Nat
      /\ \A n \in Below(nodes) : nodes[n].parent \in DOMAIN nodes /\ nodes[n].parent # 0
  BY <1>1, TreeNodes DEF IsTree
<1>7. /\ \A n \in Below(nodes) : nodes[n].start < i /\ nodes[n].end < i
      /\ \A m, n \in Below(nodes) : m < n => nodes[m].start < nodes[n].start
  BY DEF RunState, Ordered
<1> HIDE DEF node, q, more
<1>8. /\ IsTree(more) /\ Len(more) = len + 1 /\ more[len + 1] = node
      /\ \A n \in DOMAIN nodes : more[n] = nodes[n]
      /\ View(more) = View(nodes) \union {SeenNode(node, Label(nodes, node.parent))}
  <2>1. \A n \in Below(nodes) : nodes[n].start # node.start
    BY <1>5, <1>6, <1>7
  <2>2. node.parent \in DOMAIN nodes
    BY <1>1, <1>5
  <2> QED
    BY <1>1, <1>5, <2>1, <2>2, ViewGrows DEF more
<1>9. SeenNode(node, Label(nodes, node.parent)) = OpenedView(p, i, d)
  BY <1>5 DEF SeenNode, OpenedView, Here, Offset
<1>10. Here(q) = i /\ Here(q) # -1
  BY <1>2, <1>5, <1>6, <1>8 DEF Here, Label, Root
<1>11. /\ DOMAIN more = 1 .. len + 1 /\ Below(more) = 2 .. len + 1
       /\ Below(more) = Below(nodes) \union {len + 1}
       /\ Below(nodes) \subseteq DOMAIN nodes
       /\ \A n \in Below(nodes) : n < len + 1
  BY <1>6, <1>8, TreeNodes
<1>12. Ordered(more, i + 1)
  <2>1. ASSUME NEW n \in Below(more) PROVE more[n].start < i + 1 /\ more[n].end < i + 1
    <3>1. CASE n = len + 1
      BY <1>5, <1>8, <3>1
    <3>2. CASE n \in Below(nodes)
      <4>1. /\ more[n] = nodes[n] /\ nodes[n].start < i /\ nodes[n].end < i
            /\ nodes[n].start \in Nat /\ nodes[n].end \in Nat
        BY <1>1, <1>7, <1>8, <1>11, <3>2, TreeNodes
      <4> QED
        BY <4>1
    <3> QED
      BY <1>11, <3>1, <3>2
  <2>2. ASSUME NEW m \in Below(more), NEW n \in Below(more), m < n
        PROVE  more[m].start < more[n].start
    <3>1. m \in Below(nodes) /\ more[m] = nodes[m]
      BY <1>6, <1>8, <1>11, <2>2
    <3> QED
      BY <1>5, <1>7, <1>8, <1>11, <2>2, <3>1
  <2> QED
    BY <2>1, <2>2 DEF Ordered
<1>13. /\ p.cur = Root \/ OpenDir(nodes, p.cur)
       /\ \A n \in DOMAIN nodes :
             OpenDir(nodes, n) =>
                /\ n <= p.cur
                /\ nodes[n].parent = Root \/ OpenDir(nodes, nodes[n].parent)
                /\ \A m \in DOMAIN nodes : OpenDir(nodes, m) /\ m < n => m <= nodes[n].parent
  BY <1>1 DEF RunState, Chain, Top
<1>14. Nested(more)
  <2> SUFFICES ASSUME NEW n \in Below(more), NEW up, up = more[n].parent,
                      more[up].isDir, more[up].name.mark # "map", more[up].end # 0, up # Root
               PROVE  more[n].start < more[up].end
    BY DEF Nested
  <2>1. CASE n \in Below(nodes)
    <3>1. more[n] = nodes[n] /\ up \in DOMAIN nodes /\ more[up] = nodes[up]
      BY <1>6, <1>8, <1>11, <2>1
    <3> QED
      BY <2>1, <3>1 DEF RunState, Nested
  <2>2. CASE n = len + 1
    <3>1. up = p.cur /\ more[up] = nodes[up]
      BY <1>1, <1>5, <1>8, <2>2
    <3>2. nodes[up].end = 0
      BY <1>13, <3>1 DEF OpenDir
    <3> QED
      BY <3>1, <3>2
  <2> QED
    BY <1>11, <2>1, <2>2
<1>15. \A n \in DOMAIN nodes : OpenDir(more, n) <=> OpenDir(nodes, n)
  BY <1>6, <1>8, <1>11 DEF OpenDir
<1>16. CASE d.name.mark = "map"
  <2>1. DirName(d).mark = "map" /\ ~ OpenDir(more, len + 1)
    BY <1>5, <1>8, <1>16 DEF DirName, OpenDir
  <2>2. q.left > 0 /\ q.left # 0
    BY <1>2, <1>16, SizesAssumption
  <2>3. Top(q) = p.cur
    BY <1>2, <1>5, <1>8, <2>2 DEF Top
  <2>4. q.cur \in Below(q.nodes) /\ q.nodes[q.cur].name.mark = "map" /\ q.nodes[q.cur].isDir
    BY <1>2, <1>5, <1>8, <1>11, <2>1
  <2>5. p.cur = Root \/ OpenDir(more, p.cur)
    BY <1>1, <1>13, <1>15
  <2>6. ASSUME NEW n \in DOMAIN more, OpenDir(more, n)
        PROVE  /\ n <= p.cur
               /\ more[n].parent = Root \/ OpenDir(more, more[n].parent)
               /\ \A m \in DOMAIN more : OpenDir(more, m) /\ m < n => m <= more[n].parent
    <3>1. n \in DOMAIN nodes /\ n \in Below(nodes) /\ OpenDir(nodes, n) /\ more[n] = nodes[n]
      BY <1>6, <1>8, <1>11, <1>15, <2>1, <2>6 DEF OpenDir
    <3>2. \A m \in DOMAIN more : OpenDir(more, m) => m \in DOMAIN nodes /\ OpenDir(nodes, m)
      BY <1>6, <1>11, <1>15, <2>1
    <3>3. nodes[n].parent \in DOMAIN nodes
      BY <1>6, <3>1
    <3> QED
      BY <1>13, <1>15, <3>1, <3>2, <3>3
  <2>7. Chain(q)
    BY <1>2, <2>3, <2>4, <2>5, <2>6 DEF Chain
  <2> QED
    BY <1>2, <1>3, <1>8, <1>9, <1>10, <1>12, <1>14, <2>7 DEF RunState, q
<1>17. CASE d.name.mark # "map"
  <2>1. q.left = 0 /\ Top(q) = len + 1
    BY <1>2, <1>17 DEF Top
  <2>2. OpenDir(more, len + 1)
    BY <1>5, <1>8, <1>11, <1>17 DEF OpenDir, DirName, Plain, Marked
  <2>3. ASSUME NEW n \in DOMAIN more, OpenDir(more, n)
        PROVE  /\ n <= len + 1
               /\ more[n].parent = Root \/ OpenDir(more, more[n].parent)
               /\ \A m \in DOMAIN more : OpenDir(more, m) /\ m < n => m <= more[n].parent
    <3>1. CASE n \in DOMAIN nodes
      <4>1. n \in Below(nodes) /\ OpenDir(nodes, n) /\ more[n] = nodes[n]
        BY <1>6, <1>8, <1>11, <1>15, <2>3, <3>1 DEF OpenDir
      <4>2. nodes[n].parent \in DOMAIN nodes
        BY <1>6, <4>1
      <4>3. \A m \in DOMAIN more : OpenDir(more, m) /\ m < n => m \in DOMAIN nodes /\ OpenDir(nodes, m)
        BY <1>6, <1>11, <1>15, <3>1
      <4> QED
        BY <1>6, <1>11, <1>13, <1>15, <4>1, <4>2, <4>3
    <3>2. CASE n = len + 1
      <4>1. more[n].parent = p.cur
        BY <1>5, <1>8, <3>2
      <4>2. \A m \in DOMAIN more : OpenDir(more, m) /\ m < n => m \in DOMAIN nodes /\ OpenDir(nodes, m)
        BY <1>6, <1>11, <1>15, <3>2
      <4> QED
        BY <1>1, <1>13, <1>15, <3>2, <4>1, <4>2
    <3> QED
      BY <1>6, <1>11, <3>1, <3>2
  <2>4. Chain(q)
    BY <1>2, <2>1, <2>2, <2>3 DEF Chain
  <2> QED
    BY <1>2, <1>3, <1>8, <1>9, <1>10, <1>12, <1>14, <2>4 DEF RunState, q
<1> QED
  BY <1>16, <1>17
\* What a step finds in a tree with a current directory.
LEMMA HereOpen ==
  ASSUME NEW i \in Nat, NEW p, RunState(p, i), p.cur # 0
  PROVE  /\ p.left = 0 => /\ Top(p) = p.cur
                          /\ p.cur = Root \/ (OpenDir(p.nodes, p.cur) /\ p.cur # Root)
         /\ p.left # 0 => /\ p.cur \in Below(p.nodes) /\ p.nodes[p.cur].name.mark = "map"
                          /\ Top(p) = p.nodes[p.cur].parent
         /\ Top(p) \in DOMAIN p.nodes
         /\ Top(p) = Root \/ OpenDir(p.nodes, Top(p))
         /\ \A n \in DOMAIN p.nodes :
               OpenDir(p.nodes, n) =>
                  /\ n <= Top(p)
                  /\ p.nodes[n].parent = Root \/ OpenDir(p.nodes, p.nodes[n].parent)
                  /\ \A m \in DOMAIN p.nodes :
                        OpenDir(p.nodes, m) /\ m < n => m <= p.nodes[n].parent
<1>1. Chain(p)
  BY DEF RunState
<1>2. IsTree(p.nodes) /\ p.cur \in DOMAIN p.nodes /\ p.left \in Nat
  BY RunFields
<1>3. p.left = 0 => /\ Top(p) = p.cur
                    /\ p.cur = Root \/ (OpenDir(p.nodes, p.cur) /\ p.cur # Root)
  BY <1>1 DEF Chain, Top
<1>4. p.left # 0 => /\ p.cur \in Below(p.nodes) /\ p.nodes[p.cur].name.mark = "map"
                    /\ Top(p) = p.nodes[p.cur].parent
  BY <1>1, <1>2 DEF Chain, Top
<1>5. Top(p) \in DOMAIN p.nodes
  BY <1>2, <1>3, <1>4, TreeNodes
<1> QED
  BY <1>1, <1>3, <1>4, <1>5 DEF Chain

LEMMA StepCloses ==
  ASSUME NEW i \in Nat, NEW p, RunState(p, i), NEW d \in Descriptors, p.cur # 0, Closes(p, d)
  PROVE  LET q == ParseStep(p, i, d)
         IN  /\ RunState(q, i + 1)
             /\ View(q.nodes) = {EndedAt(v, Here(p), i) : v \in View(p.nodes)}
             /\ Here(q) = Above(p)
             /\ q.failed = p.failed /\ q.left = 0
<1> DEFINE q == ParseStep(p, i, d)
           len == Len(p.nodes)
           nodes == p.nodes
           cur == p.cur
           more == EndSet(nodes, cur, i)
<1>1. /\ p \in ParseStates /\ IsState(p) /\ IsTree(nodes) /\ cur \in DOMAIN nodes /\ p.left = 0
  BY RunFields DEF Closes
<1>2. q.nodes = more /\ q.cur = nodes[cur].parent /\ q.left = 0 /\ q.failed = p.failed
  BY <1>1, StepFields
<1>3. q \in ParseStates
  BY <1>1, StepKeepsStates
<1>4. /\ len \in Nat /\ len > 0 /\ DOMAIN nodes = 1 .. len /\ Below(nodes) = 2 .. len
      /\ \A n \in DOMAIN nodes : nodes[n].start \in Nat /\ nodes[n].end \in Nat /\ nodes[n].parent \in Nat
      /\ \A n \in Below(nodes) : nodes[n].parent \in DOMAIN nodes /\ nodes[n].parent # 0
  BY <1>1, TreeNodes DEF IsTree
<1>5. /\ \A n \in Below(nodes) : nodes[n].start < i /\ nodes[n].end < i
      /\ \A m, n \in Below(nodes) : m < n => nodes[m].start < nodes[n].start
  BY DEF RunState, Ordered
<1>6. /\ IsTree(more) /\ Len(more) = len
      /\ \A k \in DOMAIN nodes \ {cur} : more[k] = nodes[k]
      /\ more[cur].end = i
      /\ \A k \in DOMAIN nodes :
            /\ more[k].name = nodes[k].name /\ more[k].isDir = nodes[k].isDir
            /\ more[k].parent = nodes[k].parent /\ more[k].start = nodes[k].start
      /\ \A k \in 0 .. len : Label(more, k) = Label(nodes, k)
      /\ View(more) = {EndedAt(v, Label(nodes, cur), i) : v \in View(nodes)}
  BY <1>1, EndSetIs
<1> HIDE DEF q, more
<1>7. DOMAIN more = 1 .. len /\ Below(more) = Below(nodes) /\ Below(nodes) \subseteq DOMAIN nodes
  BY <1>4, <1>6, TreeNodes
<1>8. nodes[cur].parent \in 0 .. len
  <2>1. nodes[Root].parent = 0
    BY <1>1 DEF IsTree
  <2>2. cur = Root \/ cur \in Below(nodes)
    BY <1>1 DEF Below
  <2> QED
    BY <1>4, <2>1, <2>2
<1>9. Here(q) = Above(p)
  BY <1>2, <1>6, <1>8 DEF Here, Above
<1>10. Ordered(more, i + 1)
  <2>1. ASSUME NEW n \in Below(more) PROVE more[n].start < i + 1 /\ more[n].end < i + 1
    <3>1. more[n].start = nodes[n].start /\ nodes[n].start < i /\ nodes[n].start \in Nat
          /\ nodes[n].end < i /\ nodes[n].end \in Nat
      BY <1>4, <1>5, <1>6, <1>7
    <3>2. more[n].end = i \/ more[n].end = nodes[n].end
      BY <1>6, <1>7
    <3> QED
      BY <3>1, <3>2
  <2>2. \A m, n \in Below(more) : m < n => more[m].start < more[n].start
    BY <1>5, <1>6, <1>7
  <2> QED
    BY <2>1, <2>2 DEF Ordered
<1>11. Nested(more)
  <2> SUFFICES ASSUME NEW n \in Below(more), NEW up, up = more[n].parent,
                      more[up].isDir, more[up].name.mark # "map", more[up].end # 0, up # Root
               PROVE  more[n].start < more[up].end
    BY DEF Nested
  <2>1. up = nodes[n].parent /\ up \in DOMAIN nodes /\ more[n].start = nodes[n].start
        /\ nodes[n].start < i
    BY <1>4, <1>5, <1>6, <1>7
  <2>2. CASE up = cur
    BY <1>6, <2>1, <2>2
  <2>3. CASE up # cur
    <3>1. more[up] = nodes[up]
      BY <1>6, <2>1, <2>3
    <3> QED
      BY <1>7, <2>1, <3>1 DEF RunState, Nested
  <2> QED
    BY <2>2, <2>3
<1>12. ASSUME q.cur # 0 PROVE Chain(q)
  <2>1. Top(q) = nodes[cur].parent
    BY <1>2 DEF Top
  <2>2. /\ Top(p) = cur
        /\ cur = Root \/ (OpenDir(nodes, cur) /\ cur # Root)
        /\ \A n \in DOMAIN nodes :
              OpenDir(nodes, n) =>
                 /\ n <= cur
                 /\ nodes[n].parent = Root \/ OpenDir(nodes, nodes[n].parent)
                 /\ \A m \in DOMAIN nodes : OpenDir(nodes, m) /\ m < n => m <= nodes[n].parent
    BY <1>1, HereOpen
  <2>3. cur # Root /\ OpenDir(nodes, cur) /\ cur \in Below(nodes)
    BY <1>1, <1>2, <1>12, <2>2 DEF IsTree, OpenDir
  <2>4. i > 0
    BY <1>4, <1>5, <1>7, <2>3
  <2>5. \A n \in DOMAIN nodes : OpenDir(more, n) <=> OpenDir(nodes, n) /\ n # cur
    <3>1. ASSUME NEW n \in DOMAIN nodes PROVE OpenDir(more, n) <=> OpenDir(nodes, n) /\ n # cur
      <4>1. CASE n = cur
        BY <1>6, <2>4, <4>1 DEF OpenDir
      <4>2. CASE n # cur
        BY <1>6, <1>7, <4>2 DEF OpenDir
      <4> QED
        BY <4>1, <4>2
    <3> QED
      BY <3>1
  <2>6. nodes[cur].parent = Root \/ OpenDir(more, nodes[cur].parent)
    <3>1. nodes[cur].parent \in DOMAIN nodes /\ nodes[cur].parent # cur
      BY <1>1, <1>4, <2>3 DEF IsTree
    <3> QED
      BY <1>1, <2>2, <2>3, <2>5, <3>1
  <2>7. ASSUME NEW n \in DOMAIN more, OpenDir(more, n)
        PROVE  /\ n <= nodes[cur].parent
               /\ more[n].parent = Root \/ OpenDir(more, more[n].parent)
               /\ \A m \in DOMAIN more : OpenDir(more, m) /\ m < n => m <= more[n].parent
    <3>1. n \in DOMAIN nodes /\ n \in Below(nodes) /\ OpenDir(nodes, n) /\ n # cur /\ more[n] = nodes[n]
      BY <1>4, <1>6, <1>7, <2>5, <2>7 DEF OpenDir
    <3>2. n <= nodes[cur].parent
      <4>1. n < cur
        BY <1>1, <1>4, <2>2, <3>1
      <4> QED
        BY <1>1, <2>2, <2>3, <3>1, <4>1
    <3>3. nodes[n].parent \in DOMAIN nodes /\ nodes[n].parent < n
      BY <1>1, <1>4, <3>1 DEF IsTree
    <3>4. nodes[n].parent # cur
      BY <1>1, <1>4, <2>2, <3>1, <3>3
    <3>5. more[n].parent = Root \/ OpenDir(more, more[n].parent)
      BY <2>2, <2>5, <3>1, <3>3, <3>4
    <3>6. \A m \in DOMAIN more : OpenDir(more, m) /\ m < n => m <= more[n].parent
      BY <1>4, <1>7, <2>2, <2>5, <3>1
    <3> QED
      BY <3>2, <3>5, <3>6
  <2> QED
    BY <1>2, <2>1, <2>6, <2>7 DEF Chain
<1> QED
  BY <1>2, <1>3, <1>6, <1>9, <1>10, <1>11, <1>12 DEF RunState, Here, q

LEMMA StepFiles ==
  ASSUME NEW i \in Nat, NEW p, RunState(p, i), NEW d \in Descriptors, p.cur # 0,
         ~ Opens(p, d), ~ Closes(p, d)
  PROVE  LET q == ParseStep(p, i, d)
         IN  /\ RunState(q, i + 1)
             /\ View(q.nodes) = View(p.nodes) \union {FiledView(p, i, d)}
             /\ Here(q) = IF p.left = 1 THEN Above(p) ELSE Here(p)
             /\ q.failed = p.failed
             /\ q.left = IF p.left > 0 THEN p.left - 1 ELSE 0
<1> DEFINE q == ParseStep(p, i, d)
           node == FileNode(d, p.cur, i)
           len == Len(p.nodes)
           nodes == p.nodes
           more == Append(nodes, node)
           up == nodes[p.cur].parent
<1>1. /\ p \in ParseStates /\ IsState(p) /\ IsTree(nodes) /\ p.cur \in DOMAIN nodes /\ p.left \in Nat
  BY RunFields
<1>2. /\ q.nodes = more
      /\ q.cur = IF p.left = 1 THEN up ELSE p.cur
      /\ q.left = IF p.left > 0 THEN p.left - 1 ELSE 0
      /\ q.failed = p.failed
  BY <1>1, StepFields
<1>3. q \in ParseStates
  BY <1>1, StepKeepsStates
<1>4. d.name \in Names /\ d.offset \in Nat /\ d.length \in Nat
  BY DEF Descriptors
<1>5. /\ node \in Nodes /\ node.name = d.name /\ node.isDir = FALSE /\ node.offset = d.offset
      /\ node.length = d.length /\ node.parent = p.cur /\ node.start = i /\ node.end = 0
  <2>1. p.cur \in Nat
    BY <1>1 DEF ParseStates
  <2> QED
    BY <1>4, <2>1 DEF FileNode, Nodes
<1>6. /\ len \in Nat /\ len > 0 /\ DOMAIN nodes = 1 .. len /\ Below(nodes) = 2 .. len
      /\ \A n \in DOMAIN nodes : nodes[n].start \in Nat /\ nodes[n].end \in Nat /\ nodes[n].parent \in Nat
      /\ \A n \in Below(nodes) : nodes[n].parent \in DOMAIN nodes /\ nodes[n].parent # 0
  BY <1>1, TreeNodes DEF IsTree
<1>7. /\ \A n \in Below(nodes) : nodes[n].start < i /\ nodes[n].end < i
      /\ \A m, n \in Below(nodes) : m < n => nodes[m].start < nodes[n].start
  BY DEF RunState, Ordered
<1> HIDE DEF node, q, more
<1>8. /\ IsTree(more) /\ Len(more) = len + 1 /\ more[len + 1] = node
      /\ \A n \in DOMAIN nodes : more[n] = nodes[n]
      /\ \A n \in 0 .. len : Label(more, n) = Label(nodes, n)
      /\ View(more) = View(nodes) \union {SeenNode(node, Label(nodes, node.parent))}
  <2>1. \A n \in Below(nodes) : nodes[n].start # node.start
    BY <1>5, <1>6, <1>7
  <2>2. node.parent \in DOMAIN nodes
    BY <1>1, <1>5
  <2> QED
    BY <1>1, <1>5, <2>1, <2>2, ViewGrows DEF more
<1>9. SeenNode(node, Label(nodes, node.parent)) = FiledView(p, i, d)
  BY <1>5 DEF SeenNode, FiledView, Here, Offset
<1>10. /\ p.left = 0 => Top(p) = p.cur /\ (p.cur = Root \/ OpenDir(nodes, p.cur))
       /\ p.left # 0 => /\ p.cur \in Below(nodes) /\ nodes[p.cur].name.mark = "map"
                        /\ nodes[p.cur].isDir /\ Top(p) = up
       /\ Top(p) \in DOMAIN nodes
       /\ Top(p) = Root \/ OpenDir(nodes, Top(p))
       /\ \A n \in DOMAIN nodes :
             OpenDir(nodes, n) =>
                /\ n <= Top(p)
                /\ nodes[n].parent = Root \/ OpenDir(nodes, nodes[n].parent)
                /\ \A m \in DOMAIN nodes : OpenDir(nodes, m) /\ m < n => m <= nodes[n].parent
  <2>1. p.left # 0 => nodes[p.cur].isDir
    BY <1>1 DEF RunState, Chain
  <2> QED
    BY <2>1, HereOpen
<1>11. /\ DOMAIN more = 1 .. len + 1 /\ Below(more) = 2 .. len + 1
       /\ Below(more) = Below(nodes) \union {len + 1}
       /\ Below(nodes) \subseteq DOMAIN nodes
       /\ \A n \in Below(nodes) : n < len + 1
  BY <1>6, <1>8, TreeNodes
<1>12. Here(q) = IF p.left = 1 THEN Above(p) ELSE Here(p)
  <2>1. CASE p.left = 1
    <3>1. up \in 0 .. len
      BY <1>6, <1>10, <2>1
    <3> QED
      BY <1>2, <1>8, <2>1, <3>1 DEF Here, Above
  <2>2. CASE p.left # 1
    <3>1. p.cur \in 0 .. len
      BY <1>1, <1>6
    <3> QED
      BY <1>2, <1>8, <2>2, <3>1 DEF Here
  <2> QED
    BY <2>1, <2>2
<1>13. Ordered(more, i + 1)
  <2>1. ASSUME NEW n \in Below(more) PROVE more[n].start < i + 1 /\ more[n].end < i + 1
    <3>1. CASE n = len + 1
      BY <1>5, <1>8, <3>1
    <3>2. CASE n \in Below(nodes)
      BY <1>6, <1>7, <1>8, <1>11, <3>2
    <3> QED
      BY <1>11, <3>1, <3>2
  <2>2. ASSUME NEW m \in Below(more), NEW n \in Below(more), m < n
        PROVE  more[m].start < more[n].start
    <3>1. m \in Below(nodes) /\ more[m] = nodes[m]
      BY <1>6, <1>8, <1>11, <2>2
    <3> QED
      BY <1>5, <1>7, <1>8, <1>11, <2>2, <3>1
  <2> QED
    BY <2>1, <2>2 DEF Ordered
<1>14. Nested(more)
  <2> SUFFICES ASSUME NEW n \in Below(more), NEW in, in = more[n].parent,
                      more[in].isDir, more[in].name.mark # "map", more[in].end # 0, in # Root
               PROVE  more[n].start < more[in].end
    BY DEF Nested
  <2>1. CASE n \in Below(nodes)
    <3>1. more[n] = nodes[n] /\ in \in DOMAIN nodes /\ more[in] = nodes[in]
      BY <1>6, <1>8, <1>11, <2>1
    <3> QED
      BY <2>1, <3>1 DEF RunState, Nested
  <2>2. CASE n = len + 1
    <3>1. in = p.cur /\ more[in] = nodes[in]
      BY <1>1, <1>5, <1>8, <2>2
    <3> QED
      BY <1>10, <3>1 DEF OpenDir
  <2> QED
    BY <1>11, <2>1, <2>2
<1>15. \A n \in DOMAIN more : OpenDir(more, n) <=> n \in DOMAIN nodes /\ OpenDir(nodes, n)
  <2>1. ASSUME NEW n \in DOMAIN more
        PROVE  OpenDir(more, n) <=> n \in DOMAIN nodes /\ OpenDir(nodes, n)
    <3>1. CASE n = len + 1
      BY <1>5, <1>6, <1>8, <3>1 DEF OpenDir
    <3>2. CASE n # len + 1
      <4>1. n \in DOMAIN nodes /\ more[n] = nodes[n] /\ (n \in Below(more) <=> n \in Below(nodes))
        BY <1>6, <1>8, <1>11, <3>2
      <4> QED
        BY <4>1 DEF OpenDir
    <3> QED
      BY <3>1, <3>2
  <2> QED
    BY <2>1
<1>16. Top(q) = Top(p)
  <2>1. CASE p.left = 0
    BY <1>2, <1>10, <2>1 DEF Top
  <2>2. CASE p.left = 1
    BY <1>2, <1>10, <2>2 DEF Top
  <2>3. CASE p.left > 1
    <3>1. q.left # 0 /\ q.cur = p.cur /\ q.nodes[q.cur] = nodes[p.cur]
      BY <1>1, <1>2, <1>8, <2>3
    <3> QED
      BY <1>1, <1>10, <2>3, <3>1 DEF Top
  <2> QED
    BY <1>1, <2>1, <2>2, <2>3
<1>17. Chain(q)
  <2>1. q.left > 0 => q.cur \in Below(q.nodes) /\ q.nodes[q.cur].name.mark = "map"
                      /\ q.nodes[q.cur].isDir
    <3>1. ASSUME q.left > 0 PROVE p.left # 0 /\ p.left # 1
      BY <1>1, <1>2, <3>1
    <3> QED
      BY <1>1, <1>2, <1>8, <1>10, <1>11, <3>1
  <2>2. Top(q) = Root \/ OpenDir(more, Top(q))
    BY <1>6, <1>10, <1>11, <1>15, <1>16
  <2>3. ASSUME NEW n \in DOMAIN more, OpenDir(more, n)
        PROVE  /\ n <= Top(q)
               /\ more[n].parent = Root \/ OpenDir(more, more[n].parent)
               /\ \A m \in DOMAIN more : OpenDir(more, m) /\ m < n => m <= more[n].parent
    <3>1. n \in DOMAIN nodes /\ OpenDir(nodes, n) /\ more[n] = nodes[n]
      BY <1>8, <1>15, <2>3
    <3>2. nodes[n].parent \in DOMAIN nodes /\ nodes[n].parent \in DOMAIN more
      BY <1>6, <1>11, <3>1 DEF OpenDir
    <3>3. n <= Top(q)
      BY <1>10, <1>16, <3>1
    <3>4. more[n].parent = Root \/ OpenDir(more, more[n].parent)
      BY <1>10, <1>15, <3>1, <3>2
    <3>5. \A m \in DOMAIN more : OpenDir(more, m) /\ m < n => m <= more[n].parent
      BY <1>10, <1>15, <3>1
    <3> QED
      BY <3>3, <3>4, <3>5
  <2> QED
    BY <1>2, <2>1, <2>2, <2>3 DEF Chain
<1> QED
  BY <1>2, <1>3, <1>8, <1>9, <1>12, <1>13, <1>14, <1>17 DEF RunState, q

-----------------------------------------------------------------------------
(* What a view tells of a tree                                             *)

IsSeen(v) ==
    /\ v = Seen(v.name, v.isDir, v.length, v.offset, v.start, v.end, v.parent)
    /\ v.isDir \in BOOLEAN /\ v.start \in Nat /\ v.end \in Nat /\ v.parent \in Int

LEMMA SeenTyped ==
  ASSUME NEW v, IsSeen(v)
  PROVE  v.isDir \in BOOLEAN /\ v.start \in Nat /\ v.end \in Nat /\ v.parent \in Int
BY DEF IsSeen

LEMMA SeenIs ==
  ASSUME NEW a, NEW b \in BOOLEAN, NEW c, NEW d, NEW e \in Nat, NEW f \in Nat, NEW g \in Int
  PROVE  IsSeen(Seen(a, b, c, d, e, f, g)) /\ Seen(a, b, c, d, e, f, g).start = e
<1> DEFINE v == Seen(a, b, c, d, e, f, g)
<1>1. /\ v.name = a /\ v.isDir = b /\ v.length = c /\ v.offset = d
      /\ v.start = e /\ v.end = f /\ v.parent = g
  BY DEF Seen
<1>2. v = Seen(v.name, v.isDir, v.length, v.offset, v.start, v.end, v.parent)
  BY <1>1
<1> HIDE DEF v
<1>3. v.isDir \in BOOLEAN /\ v.start \in Nat /\ v.end \in Nat /\ v.parent \in Int
  BY <1>1
<1> QED
  BY <1>1, <1>2, <1>3 DEF IsSeen, v

LEMMA LabelIs ==
  ASSUME NEW nodes, IsTree(nodes), NEW n \in 0 .. Len(nodes)
  PROVE  /\ Label(nodes, n) \in Int
         /\ n = 0 <=> Label(nodes, n) = -2
         /\ n = Root <=> Label(nodes, n) = -1
         /\ n \in Below(nodes) <=> Label(nodes, n) \in Nat
         /\ n \in Below(nodes) => Label(nodes, n) = nodes[n].start
<1>1. /\ Len(nodes) \in Nat /\ Below(nodes) = 2 .. Len(nodes) /\ Len(nodes) > 0
      /\ \A k \in Below(nodes) : nodes[k].start \in Nat /\ k # 0 /\ k # Root
  BY TreeNodes DEF IsTree, Root
<1>2. n = 0 \/ n = Root \/ n \in Below(nodes)
  BY <1>1 DEF Root
<1>3. CASE n = 0
  BY <1>1, <1>3 DEF Label, Root
<1>4. CASE n = Root
  BY <1>1, <1>4 DEF Label, Root
<1>5. CASE n \in Below(nodes)
  <2>1. n # 0 /\ n # Root /\ nodes[n].start \in Nat /\ nodes[n].start # -1 /\ nodes[n].start # -2
    BY <1>1, <1>5
  <2> QED
    BY <1>5, <2>1 DEF Label
<1> QED
  BY <1>2, <1>3, <1>4, <1>5

LEMMA SeenOf ==
  ASSUME NEW nodes, IsTree(nodes), NEW n \in Below(nodes)
  PROVE  /\ ViewOf(nodes, n) \in View(nodes) /\ IsSeen(ViewOf(nodes, n))
         /\ ViewOf(nodes, n).start = Label(nodes, n)
         /\ ViewOf(nodes, n).start = nodes[n].start /\ ViewOf(nodes, n).end = nodes[n].end
         /\ ViewOf(nodes, n).isDir = nodes[n].isDir /\ ViewOf(nodes, n).name = nodes[n].name
         /\ ViewOf(nodes, n).parent = Label(nodes, nodes[n].parent)
<1> DEFINE v == ViewOf(nodes, n)
<1>1. /\ v.name = nodes[n].name /\ v.isDir = nodes[n].isDir
      /\ v.length = nodes[n].length
      /\ v.offset = Offset(nodes[n].offset, nodes[n].length)
      /\ v.start = nodes[n].start /\ v.end = nodes[n].end
      /\ v.parent = Label(nodes, nodes[n].parent)
  BY ViewFields
<1>2. v = Seen(nodes[n].name, nodes[n].isDir, nodes[n].length,
               Offset(nodes[n].offset, nodes[n].length), nodes[n].start, nodes[n].end,
               Label(nodes, nodes[n].parent))
  BY DEF ViewOf, SeenNode
<1>3. v \in View(nodes)
  BY ViewIs
<1> HIDE DEF v
<1>4. /\ n \in 0 .. Len(nodes) /\ nodes[n].parent \in 0 .. Len(nodes)
      /\ nodes[n].isDir \in BOOLEAN /\ nodes[n].start \in Nat /\ nodes[n].end \in Nat
  BY TreeNodes
<1>5. Label(nodes, nodes[n].parent) \in Int /\ Label(nodes, n) = nodes[n].start
  BY <1>4, LabelIs
<1>6. IsSeen(v)
  BY <1>1, <1>2, <1>4, <1>5 DEF IsSeen
<1> QED
  BY <1>1, <1>3, <1>5, <1>6 DEF v

\* A view comes from a node.
LEMMA SeenFrom ==
  ASSUME NEW nodes, IsTree(nodes), NEW v \in View(nodes)
  PROVE  \E n \in Below(nodes) : v = ViewOf(nodes, n)
BY ViewIs

\* No two views of a tree start at the same descriptor.
LEMMA SeenApart ==
  ASSUME NEW nodes, IsTree(nodes)
  PROVE  /\ \A v \in View(nodes) : IsSeen(v)
         /\ \A u, v \in View(nodes) : u.start = v.start => u = v
<1>1. ASSUME NEW v \in View(nodes) PROVE IsSeen(v)
  BY SeenFrom, SeenOf
<1>2. ASSUME NEW u \in View(nodes), NEW v \in View(nodes), u.start = v.start PROVE u = v
  <2>1. PICK m \in Below(nodes) : u = ViewOf(nodes, m)
    BY SeenFrom
  <2>2. PICK n \in Below(nodes) : v = ViewOf(nodes, n)
    BY SeenFrom
  <2>3. nodes[m].start = nodes[n].start
    BY <1>2, <2>1, <2>2, SeenOf
  <2>4. m = n
    BY <2>3 DEF IsTree
  <2> QED
    BY <2>1, <2>2, <2>4
<1> QED
  BY <1>1, <1>2

\* The view after i descriptors, and the current directory in it.
LEMMA RunViews ==
  ASSUME NEW i \in Nat, NEW p, RunState(p, i)
  PROVE  /\ \A v \in View(p.nodes) : /\ IsSeen(v) /\ v.start < i /\ v.end < i /\ v.parent < i
                                     /\ v.parent # -2
         /\ \A u, v \in View(p.nodes) : u.start = v.start => u = v
         /\ Here(p) \in Int /\ Here(p) < i
         /\ p.cur = 0 <=> Here(p) = -2
         /\ p.cur = Root <=> Here(p) = -1
         /\ p.cur # 0 /\ p.cur # Root =>
               \E v \in View(p.nodes) :
                  /\ v.start = Here(p) /\ v.parent = Above(p)
                  /\ v.isDir = p.nodes[p.cur].isDir
<1> DEFINE nodes == p.nodes
<1>1. IsTree(nodes) /\ p.cur \in 0 .. Len(nodes) /\ Len(nodes) \in Nat /\ Len(nodes) > 0
  BY RunFields DEF IsTree
<1>2. \A n \in Below(nodes) : nodes[n].start < i /\ nodes[n].end < i
  BY DEF RunState, Ordered
<1>3. /\ \A n \in Below(nodes) : nodes[n].parent \in DOMAIN nodes /\ nodes[n].parent # 0
      /\ DOMAIN nodes = 1 .. Len(nodes) /\ Below(nodes) = 2 .. Len(nodes)
  BY <1>1, TreeNodes
<1>4. ASSUME NEW n \in 0 .. Len(nodes) PROVE Label(nodes, n) \in Int /\ Label(nodes, n) < i
  <2>1. CASE n \in Below(nodes)
    BY <1>1, <1>2, <2>1, LabelIs
  <2>2. CASE n = 0 \/ n = Root
    BY <1>1, <2>2, LabelIs
  <2> QED
    BY <1>1, <1>3, <2>1, <2>2 DEF Root
<1>5. ASSUME NEW v \in View(nodes)
      PROVE  IsSeen(v) /\ v.start < i /\ v.end < i /\ v.parent < i /\ v.parent # -2
  <2>1. PICK n \in Below(nodes) : v = ViewOf(nodes, n)
    BY <1>1, SeenFrom
  <2>2. /\ IsSeen(v) /\ v.start = nodes[n].start /\ v.end = nodes[n].end
        /\ v.parent = Label(nodes, nodes[n].parent)
    BY <1>1, <2>1, SeenOf
  <2>3. nodes[n].parent \in 0 .. Len(nodes) /\ nodes[n].parent # 0
    BY <1>3
  <2> QED
    BY <1>1, <1>2, <1>4, <2>2, <2>3, LabelIs
<1>6. \A u, v \in View(nodes) : u.start = v.start => u = v
  BY <1>1, SeenApart
<1>7. /\ Here(p) \in Int /\ Here(p) < i
      /\ p.cur = 0 <=> Here(p) = -2
      /\ p.cur = Root <=> Here(p) = -1
  BY <1>1, <1>4, LabelIs DEF Here
<1>8. ASSUME p.cur # 0, p.cur # Root
      PROVE  \E v \in View(p.nodes) :
                /\ v.start = Here(p) /\ v.parent = Above(p)
                /\ v.isDir = p.nodes[p.cur].isDir
  <2>1. p.cur \in Below(nodes)
    BY <1>1, <1>3, <1>8 DEF Root
  <2> QED
    BY <1>1, <2>1, SeenOf DEF Here, Above
<1> QED
  BY <1>5, <1>6, <1>7, <1>8

-----------------------------------------------------------------------------
(* A whole run of parse                                                    *)

\* A directory that may get children, whose end was found.
IsEnded(v) == v.isDir /\ v.name.mark # "map" /\ v.end # 0

EndsFound(f, k) ==
    \A v \in View(f[k].nodes) :
       IsEnded(v) => v.end < k /\ Here(f[v.end]) = v.start /\ f[v.end].left = 0

LEMMA StepKeepsRun ==
  ASSUME NEW i \in Nat, NEW p, RunState(p, i), NEW d \in Descriptors, p.cur # 0
  PROVE  LET q == ParseStep(p, i, d)
         IN  /\ RunState(q, i + 1)
             /\ q.failed = p.failed
             /\ p.cur # Root \/ ~ Closes(p, d) => q.nodes[Root] = p.nodes[Root]
             /\ p.cur = Root /\ Closes(p, d) => q.cur = 0
             /\ \A v \in View(q.nodes) :
                   IsEnded(v) =>
                      \/ v \in View(p.nodes)
                      \/ v.end = i /\ v.start = Here(p) /\ p.left = 0
<1> DEFINE q == ParseStep(p, i, d)
<1>1. IsState(p) /\ IsTree(p.nodes) /\ p.cur \in DOMAIN p.nodes /\ p.nodes[Root].parent = 0
  BY RunFields DEF RunState, IsTree
<1>2. p.nodes \in Seq(Nodes) /\ Root \in DOMAIN p.nodes
  BY <1>1, TreeNodes DEF IsTree
<1>3. CASE Opens(p, d)
  <2>1. /\ RunState(q, i + 1) /\ q.failed = p.failed
        /\ View(q.nodes) = View(p.nodes) \union {OpenedView(p, i, d)}
    BY <1>3, StepOpens
  <2>2. q.nodes = Append(p.nodes, DirNode(DirName(d), p.cur, i, 0))
    BY <1>1, <1>3, StepFields
  <2> HIDE DEF q
  <2>3. q.nodes[Root] = p.nodes[Root]
    BY <1>2, <2>2
  <2>4. ~ Closes(p, d)
    BY <1>3 DEF Opens, Closes
  <2>5. ~ IsEnded(OpenedView(p, i, d))
    <3>1. OpenedView(p, i, d).end = 0
      BY DEF OpenedView, Seen
    <3> QED
      BY <3>1 DEF IsEnded
  <2> QED
    BY <2>1, <2>3, <2>4, <2>5 DEF q
<1>4. CASE Closes(p, d)
  <2>1. /\ RunState(q, i + 1) /\ q.failed = p.failed
        /\ View(q.nodes) = {EndedAt(v, Here(p), i) : v \in View(p.nodes)}
    BY <1>4, StepCloses
  <2>2. q.nodes = EndSet(p.nodes, p.cur, i) /\ q.cur = p.nodes[p.cur].parent
    <3>1. ~ Opens(p, d)
      BY <1>4 DEF Opens, Closes
    <3> QED
      BY <1>1, <1>4, <3>1, StepFields
  <2> HIDE DEF q
  <2>3. p.cur # Root => q.nodes[Root] = p.nodes[Root]
    BY <1>2, <2>2 DEF EndSet
  <2>4. p.cur = Root => q.cur = 0
    BY <1>1, <2>2
  <2>5. ASSUME NEW v \in View(q.nodes), IsEnded(v)
        PROVE  v \in View(p.nodes) \/ (v.end = i /\ v.start = Here(p) /\ p.left = 0)
    <3>1. PICK u \in View(p.nodes) : v = EndedAt(u, Here(p), i)
      BY <2>1
    <3>2. u = Seen(u.name, u.isDir, u.length, u.offset, u.start, u.end, u.parent)
      BY RunViews DEF IsSeen
    <3>3. CASE u.start = Here(p)
      BY <1>4, <3>1, <3>3, SeenFields DEF EndedAt, Closes
    <3>4. CASE u.start # Here(p)
      BY <3>1, <3>2, <3>4 DEF EndedAt
    <3> QED
      BY <3>3, <3>4
  <2> QED
    BY <1>4, <2>1, <2>3, <2>4, <2>5 DEF q
<1>5. CASE ~ Opens(p, d) /\ ~ Closes(p, d)
  <2>1. /\ RunState(q, i + 1) /\ q.failed = p.failed
        /\ View(q.nodes) = View(p.nodes) \union {FiledView(p, i, d)}
    BY <1>5, StepFiles
  <2>2. q.nodes = Append(p.nodes, FileNode(d, p.cur, i))
    BY <1>1, <1>5, StepFields
  <2> HIDE DEF q
  <2>3. q.nodes[Root] = p.nodes[Root]
    BY <1>2, <2>2
  <2>4. ~ IsEnded(FiledView(p, i, d))
    <3>1. FiledView(p, i, d).end = 0
      BY DEF FiledView, Seen
    <3> QED
      BY <3>1 DEF IsEnded
  <2> QED
    BY <1>5, <2>1, <2>3, <2>4 DEF q
<1> QED
  BY <1>3, <1>4, <1>5

\* A parse of a list, which always has a current directory.
IsRun(f, list) ==
    /\ IsParse(f, list, Len(list))
    /\ \A k \in 0 .. Len(list) :
          /\ RunState(f[k], k) /\ f[k].cur # 0 /\ f[k].failed = FALSE
          /\ f[k].nodes[Root].end = Len(list) /\ f[k].nodes[Root].isDir
          /\ EndsFound(f, k)

LEMMA StartRuns ==
  ASSUME NEW count \in Nat
  PROVE  LET p == ParseStart(count)
         IN  /\ RunState(p, 0)
             /\ p.cur = Root /\ p.left = 0 /\ p.failed = FALSE
             /\ p.nodes[Root].end = count /\ p.nodes[Root].isDir
             /\ View(p.nodes) = {} /\ Here(p) = -1
<1> DEFINE p == ParseStart(count)
           root == RootNode(count)
<1>1. p \in ParseStates
  BY StartIsState
<1>2. p.cur = Root /\ p.left = 0 /\ p.failed = FALSE /\ p.nodes = << root >>
  BY DEF ParseStart
<1>3. root \in Nodes /\ root.parent = 0 /\ root.end = count /\ root.isDir
  BY DEF RootNode, DirNode, Nodes, Names, Bases, Plain, Marked
<1> HIDE DEF p, root
<1>4. p.nodes \in Seq(Nodes) /\ Len(p.nodes) = 1 /\ p.nodes[1] = root /\ DOMAIN p.nodes = {1}
  BY <1>2, <1>3
<1>5. Below(p.nodes) = {}
  BY <1>4 DEF Below, Root
<1>6. IsTree(p.nodes)
  BY <1>3, <1>4, <1>5 DEF IsTree, Root
<1>7. Ordered(p.nodes, 0) /\ Nested(p.nodes)
  BY <1>5 DEF Ordered, Nested
<1>8. Chain(p)
  <2>1. Top(p) = Root
    BY <1>2 DEF Top
  <2>2. \A n \in DOMAIN p.nodes : ~ OpenDir(p.nodes, n)
    BY <1>5 DEF OpenDir
  <2> QED
    BY <1>2, <2>1, <2>2 DEF Chain
<1>9. View(p.nodes) = {}
  BY <1>5, <1>6, ViewIs
<1>10. Here(p) = -1
  BY <1>2 DEF Here, Label, Root
<1>11. p.nodes[Root].end = count /\ p.nodes[Root].isDir
  BY <1>3, <1>4 DEF Root
<1> QED
  BY <1>1, <1>2, <1>6, <1>7, <1>8, <1>9, <1>10, <1>11 DEF RunState, p

LEMMA NullStays ==
  ASSUME NEW list \in Seq(Descriptors), NEW f, IsParse(f, list, Len(list)),
         NEW k \in 0 .. Len(list), f[k].cur = 0
  PROVE  f[Len(list)].cur = 0
<1> DEFINE S == {m \in 0 .. Len(list) : m >= k => f[m].cur = 0}
           len == Len(list)
<1>1. len \in Nat
  OBVIOUS
<1>2. 0 \in S
  OBVIOUS
<1>3. ASSUME NEW m \in 0 .. len - 1, m \in S PROVE m + 1 \in S
  <2>1. CASE m + 1 = k
    BY <2>1
  <2>2. CASE m >= k
    <3>1. f[m].cur = 0 /\ f[m] \in ParseStates
      BY <1>3, <2>2 DEF IsParse
    <3>2. f[m + 1] = ParseStep(f[m], m, list[m + 1])
      BY DEF IsParse
    <3>3. f[m + 1].cur = 0
      BY <3>1, <3>2, ParseStatesAreStates, StepFields
    <3> QED
      BY <3>3
  <2>3. CASE m + 1 < k
    BY <2>3
  <2> QED
    BY <2>1, <2>2, <2>3
<1> HIDE DEF S
<1>4. \A m \in 0 .. len - 1 : m \in S => m + 1 \in S
  BY <1>3
<1>5. 0 .. len \subseteq S
  BY <1>1, <1>2, <1>4, IntervalInduction
<1>6. len \in S
  BY <1>1, <1>5
<1> QED
  BY <1>6 DEF S

LEMMA BalancedRuns ==
  ASSUME NEW list \in Seq(Descriptors), Balances(Parse(list, Len(list)))
  PROVE  \E f : IsRun(f, list)
<1> DEFINE len == Len(list)
<1>1. len \in Nat
  OBVIOUS
<1>2. PICK f : IsParse(f, list, len)
  BY <1>1, ParseRuns
<1>3. ASSUME NEW k \in 0 .. len PROVE f[k].cur # 0
  <2>1. f[len].cur # 0
    BY <1>2 DEF IsParse, Balances, Root
  <2> QED
    BY <1>2, <2>1, NullStays
<1> DEFINE T(k) == /\ RunState(f[k], k) /\ f[k].failed = FALSE
                   /\ f[k].nodes[Root].end = len /\ f[k].nodes[Root].isDir
                   /\ EndsFound(f, k)
           S == {k \in 0 .. len : T(k)}
<1>4. 0 \in S
  <2>1. f[0] = ParseStart(len)
    BY <1>2 DEF IsParse
  <2>2. /\ RunState(f[0], 0) /\ f[0].failed = FALSE
        /\ f[0].nodes[Root].end = len /\ f[0].nodes[Root].isDir
        /\ View(f[0].nodes) = {}
    BY <1>1, <2>1, StartRuns
  <2> QED
    BY <1>1, <2>2 DEF EndsFound
<1>5. ASSUME NEW k \in 0 .. len - 1, k \in S PROVE k + 1 \in S
  <2> DEFINE p == f[k]
             q == f[k + 1]
             d == list[k + 1]
  <2>1. q = ParseStep(p, k, d) /\ d \in Descriptors
    BY <1>2 DEF IsParse
  <2>2. /\ RunState(p, k) /\ p.failed = FALSE
        /\ p.nodes[Root].end = len /\ p.nodes[Root].isDir
        /\ EndsFound(f, k)
    BY <1>5
  <2>3. p.cur # 0 /\ q.cur # 0
    BY <1>3
  <2>4. /\ RunState(q, k + 1)
        /\ q.failed = p.failed
        /\ p.cur # Root \/ ~ Closes(p, d) => q.nodes[Root] = p.nodes[Root]
        /\ p.cur = Root /\ Closes(p, d) => q.cur = 0
        /\ \A v \in View(q.nodes) :
              IsEnded(v) =>
                 \/ v \in View(p.nodes)
                 \/ v.end = k /\ v.start = Here(p) /\ p.left = 0
    <3> HIDE DEF p, d
    <3> QED
      BY <2>1, <2>2, <2>3, StepKeepsRun
  <2>5. EndsFound(f, k + 1)
    <3>1. ASSUME NEW v \in View(q.nodes), IsEnded(v)
          PROVE  v.end < k + 1 /\ Here(f[v.end]) = v.start /\ f[v.end].left = 0
      <4>1. CASE v \in View(p.nodes)
        <5>1. v.end < k /\ Here(f[v.end]) = v.start /\ f[v.end].left = 0
          BY <2>2, <3>1, <4>1 DEF EndsFound
        <5>2. IsSeen(v)
          <6> HIDE DEF p, q, d
          <6> QED
            BY <2>2, <4>1, RunViews
        <5>3. v.end \in Nat
          BY <5>2, SeenTyped
        <5> QED
          BY <5>1, <5>3
      <4>2. CASE v.end = k /\ v.start = Here(p) /\ p.left = 0
        BY <4>2
      <4> QED
        BY <2>4, <3>1, <4>1, <4>2
    <3> QED
      BY <3>1 DEF EndsFound
  <2> HIDE DEF p, q, d
  <2>6. q.nodes[Root].end = len /\ q.nodes[Root].isDir /\ q.failed = FALSE
    BY <2>2, <2>3, <2>4
  <2> QED
    BY <2>4, <2>5, <2>6 DEF q
<1> HIDE DEF T
<1>6. 0 .. len \subseteq S
  <2> HIDE DEF S
  <2>1. \A k \in 0 .. len - 1 : k \in S => k + 1 \in S
    BY <1>5
  <2> QED
    BY <1>1, <1>4, <2>1, IntervalInduction
<1>7. \A k \in 0 .. len : T(k)
  BY <1>6
<1>8. IsRun(f, list)
  BY <1>2, <1>3, <1>7 DEF IsRun, T
<1> QED
  BY <1>8

\* What a view of the whole list says of a directory that takes children, and
\* of what is in it.
LEMMA RunEnds ==
  ASSUME NEW list \in Seq(Descriptors), NEW f, IsRun(f, list),
         Balances(Parse(list, Len(list))),
         NEW v \in View(Parse(list, Len(list)).nodes), v.isDir, v.name.mark # "map"
  PROVE  /\ v.end \in 1 .. Len(list) - 1
         /\ Here(f[v.end]) = v.start /\ f[v.end].left = 0 /\ v.start < v.end
         /\ \A u \in View(Parse(list, Len(list)).nodes) : u.parent = v.start => u.start < v.end
<1> DEFINE len == Len(list)
           p == f[len]
           nodes == p.nodes
<1>1. len \in Nat /\ p = Parse(list, len) /\ RunState(p, len) /\ EndsFound(f, len)
      /\ p.cur = Root /\ p.left = 0
  BY DEF IsRun, IsParse, Balances
<1> HIDE DEF p
<1>2. IsTree(nodes) /\ Nested(nodes)
  BY <1>1 DEF RunState
<1>3. PICK n \in Below(nodes) : v = ViewOf(nodes, n)
  BY <1>1, <1>2, SeenFrom
<1>4. /\ IsSeen(v) /\ v.start = nodes[n].start /\ v.end = nodes[n].end
      /\ v.isDir = nodes[n].isDir /\ v.name = nodes[n].name /\ v.start = Label(nodes, n)
  BY <1>2, <1>3, SeenOf
<1>5. Below(nodes) = 2 .. Len(nodes) /\ Len(nodes) \in Nat /\ n \in DOMAIN nodes /\ n # Root
  BY <1>2, TreeNodes DEF Below
<1>6. nodes[n].end # 0
  <2>1. ~ OpenDir(nodes, n)
    BY <1>1, <1>5, HereOpen DEF Root
  <2> QED
    BY <1>4, <2>1 DEF OpenDir
<1>7. IsEnded(v)
  BY <1>4, <1>6 DEF IsEnded
<1>8. v.end < len /\ Here(f[v.end]) = v.start /\ f[v.end].left = 0 /\ v.end \in Nat
  <2>1. v.end < len /\ Here(f[v.end]) = v.start /\ f[v.end].left = 0
    BY <1>1, <1>7 DEF EndsFound, p
  <2> QED
    BY <1>4, <2>1, SeenTyped
<1>9. v.start < v.end
  <2>1. RunState(f[v.end], v.end)
    BY <1>1, <1>8 DEF IsRun
  <2>2. Here(f[v.end]) < v.end
    BY <1>8, <2>1, RunViews
  <2> QED
    BY <1>8, <2>2
<1>10. ASSUME NEW u \in View(nodes), u.parent = v.start PROVE u.start < v.end
  <2>1. PICK m \in Below(nodes) : u = ViewOf(nodes, m)
    BY <1>2, SeenFrom
  <2>2. u.start = nodes[m].start /\ u.parent = Label(nodes, nodes[m].parent)
    BY <1>2, <2>1, SeenOf
  <2>3. nodes[m].parent \in 0 .. Len(nodes) /\ n \in 0 .. Len(nodes)
    <3>1. nodes[m].parent \in DOMAIN nodes /\ DOMAIN nodes = 1 .. Len(nodes)
      BY <1>2, TreeNodes
    <3> QED
      BY <1>5, <3>1
  <2>4. nodes[m].parent = n
    BY <1>2, <1>4, <1>10, <2>2, <2>3, LabelsApart
  <2> QED
    BY <1>2, <1>4, <1>5, <1>6, <2>2, <2>4 DEF Nested
<1>11. View(nodes) = View(Parse(list, Len(list)).nodes)
  BY <1>1
<1>12. v.end \in 1 .. Len(list) - 1
  BY <1>1, <1>4, <1>6, <1>8
<1> QED
  BY <1>8, <1>9, <1>10, <1>11, <1>12

-----------------------------------------------------------------------------
(* The same descriptors, with others put in or one of them changed         *)

\* A call moves what is at index at, or after it, up by by, or gives the file
\* at index of an offset and a length.
Changes == [at : Nat, by : Nat, of : Int, offset : Nat, length : Nat]

Shift(c, i) == IF i >= c.at THEN i + c.by ELSE i
Concerns(c, v) == v.start = c.of /\ ~ v.isDir
Image(c, v) ==
    Seen(v.name, v.isDir,
         IF Concerns(c, v) THEN c.length ELSE v.length,
         IF Concerns(c, v) THEN Offset(c.offset, c.length) ELSE v.offset,
         Shift(c, v.start), IF v.isDir THEN Shift(c, v.end) ELSE v.end, Shift(c, v.parent))
Images(c, V) == {Image(c, v) : v \in V}

\* new is what the call adds to the tree, at the indices it makes room at.
Adds(c, new) ==
    /\ c \in Changes
    /\ c.at > 0 \/ c.by = 0
    /\ \A v \in new : c.by > 0 /\ v.start = c.at /\ IsSeen(v)

\* q stands in the changed list where p stands in the old one.
Alike(c, new, p, q) ==
    /\ View(q.nodes) = Images(c, View(p.nodes)) \union new
    /\ Here(q) = Shift(c, Here(p))
    /\ q.left = p.left
    /\ q.failed = p.failed

\* What becomes of the descriptor at index i.
Becomes(c, i, d, e) ==
    /\ e.name = d.name
    /\ e.length = IF i = c.of THEN c.length ELSE d.length
    /\ Offset(e.offset, e.length) =
          IF i = c.of THEN Offset(c.offset, c.length) ELSE Offset(d.offset, d.length)

LEMMA Shifts ==
  ASSUME NEW c \in Changes
  PROVE  /\ \A i \in Int : Shift(c, i) \in Int
         /\ \A i \in Nat : Shift(c, i) \in Nat
         /\ \A i \in Int : i < 0 => Shift(c, i) = i
         /\ \A i \in Int : i < c.at => Shift(c, i) = i
         /\ \A i \in Int : Shift(c, i) < 0 => Shift(c, i) = i
         /\ \A i, j \in Int : Shift(c, i) = Shift(c, j) => i = j
         /\ \A i, j \in Int : i < j => Shift(c, i) < Shift(c, j)
         /\ \A i \in Int : c.by > 0 => Shift(c, i) # c.at
         /\ c.at > 0 \/ c.by = 0 => Shift(c, 0) = 0
         /\ c.by = 0 => \A i \in Int : Shift(c, i) = i
<1>1. c.at \in Nat /\ c.by \in Nat
  BY DEF Changes
<1> QED
  BY <1>1 DEF Shift

LEMMA ImageFields ==
  ASSUME NEW c \in Changes, NEW v, IsSeen(v)
  PROVE  /\ IsSeen(Image(c, v))
         /\ Image(c, v).name = v.name /\ Image(c, v).isDir = v.isDir
         /\ Image(c, v).start = Shift(c, v.start)
         /\ Image(c, v).end = IF v.isDir THEN Shift(c, v.end) ELSE v.end
         /\ Image(c, v).parent = Shift(c, v.parent)
         /\ Image(c, v).length = IF Concerns(c, v) THEN c.length ELSE v.length
         /\ Image(c, v).offset = IF Concerns(c, v) THEN Offset(c.offset, c.length) ELSE v.offset
<1> DEFINE w == Image(c, v)
<1>1. /\ w.name = v.name /\ w.isDir = v.isDir
      /\ w.start = Shift(c, v.start)
      /\ w.end = IF v.isDir THEN Shift(c, v.end) ELSE v.end
      /\ w.parent = Shift(c, v.parent)
      /\ w.length = IF Concerns(c, v) THEN c.length ELSE v.length
      /\ w.offset = IF Concerns(c, v) THEN Offset(c.offset, c.length) ELSE v.offset
  BY DEF Image, Seen
<1>2. w = Seen(w.name, w.isDir, w.length, w.offset, w.start, w.end, w.parent)
  BY DEF Image, Seen
<1> HIDE DEF w
<1>3. v.isDir \in BOOLEAN /\ v.start \in Nat /\ v.end \in Nat /\ v.parent \in Int
  BY SeenTyped
<1>4. w.isDir \in BOOLEAN /\ w.start \in Nat /\ w.end \in Nat /\ w.parent \in Int
  BY <1>1, <1>3, Shifts
<1> QED
  BY <1>1, <1>2, <1>4 DEF IsSeen, w

\* The directories above are alike, too.
LEMMA AlikeAbove ==
  ASSUME NEW c, NEW new, Adds(c, new), NEW i \in Nat, NEW j \in Nat,
         NEW p, NEW q, RunState(p, i), RunState(q, j), p.cur # 0, Alike(c, new, p, q)
  PROVE  /\ q.cur # 0 /\ (p.cur = Root <=> q.cur = Root)
         /\ Above(q) = Shift(c, Above(p))
         /\ p.cur = Root => Above(p) = -2
<1>1. c \in Changes /\ Here(q) = Shift(c, Here(p)) /\ Here(p) \in Int
      /\ View(q.nodes) = Images(c, View(p.nodes)) \union new
  BY RunViews DEF Adds, Alike
<1>2. \A i_1 \in Int : i_1 < 0 => Shift(c, i_1) = i_1
  BY <1>1, Shifts
<1>3. \A i_1 \in Int : Shift(c, i_1) < 0 => Shift(c, i_1) = i_1
  BY <1>1, Shifts
<1>4. /\ p.cur = 0 <=> Here(p) = -2
      /\ p.cur = Root <=> Here(p) = -1
      /\ q.cur = 0 <=> Here(q) = -2
      /\ q.cur = Root <=> Here(q) = -1
  BY RunViews
<1>5. q.cur # 0 /\ (p.cur = Root <=> q.cur = Root)
  BY <1>1, <1>2, <1>3, <1>4
<1>6. CASE p.cur = Root
  <2>1. p.nodes[p.cur].parent = 0 /\ q.nodes[q.cur].parent = 0
    BY <1>5, <1>6 DEF RunState, IsTree
  <2>2. Above(p) = -2 /\ Above(q) = -2
    BY <2>1 DEF Above, Label
  <2> QED
    BY <1>2, <1>5, <2>2
<1>7. CASE p.cur # Root
  <2>1. PICK v \in View(p.nodes) : v.start = Here(p) /\ v.parent = Above(p)
    BY <1>7, RunViews
  <2>2. PICK w \in View(q.nodes) : w.start = Here(q) /\ w.parent = Above(q)
    BY <1>5, <1>7, RunViews
  <2>3. IsSeen(v) /\ Image(c, v) \in View(q.nodes)
    BY <1>1, <2>1, RunViews DEF Images
  <2>4. Image(c, v).start = Shift(c, v.start) /\ Image(c, v).parent = Shift(c, v.parent)
    BY <1>1, <2>3, ImageFields
  <2>5. Image(c, v) = w
    <3>1. Image(c, v).start = w.start
      BY <1>1, <2>1, <2>2, <2>4
    <3> QED
      BY <2>2, <2>3, <3>1, RunViews
  <2> QED
    BY <1>5, <1>7, <2>1, <2>2, <2>4, <2>5
<1> QED
  BY <1>5, <1>6, <1>7

LEMMA ImagesGrow ==
  ASSUME NEW c, NEW new, NEW V, NEW W, NEW v, W = Images(c, V) \union new
  PROVE  W \union {Image(c, v)} = Images(c, V \union {v}) \union new
BY DEF Images

LEMMA ImagesEnd ==
  ASSUME NEW c, NEW new, Adds(c, new), NEW V, NEW W, W = Images(c, V) \union new,
         \A v \in V : IsSeen(v), NEW h \in Int, NEW i \in Nat,
         \A v \in V : v.start = h => v.isDir
  PROVE  {EndedAt(w, Shift(c, h), Shift(c, i)) : w \in W}
            = Images(c, {EndedAt(v, h, i) : v \in V}) \union new
<1> DEFINE E == {EndedAt(v, h, i) : v \in V}
           h2 == Shift(c, h)
           i2 == Shift(c, i)
<1>1. c \in Changes
  BY DEF Adds
<1>2. ASSUME NEW v \in V PROVE EndedAt(Image(c, v), h2, i2) = Image(c, EndedAt(v, h, i))
  <2> DEFINE w == Image(c, v)
             e == EndedAt(v, h, i)
  <2>1. IsSeen(v) /\ v.start \in Nat /\ v.isDir \in BOOLEAN /\ (v.start = h => v.isDir)
    BY <1>2, SeenTyped
  <2>2. /\ w.name = v.name /\ w.isDir = v.isDir
        /\ w.start = Shift(c, v.start)
        /\ w.end = IF v.isDir THEN Shift(c, v.end) ELSE v.end
        /\ w.parent = Shift(c, v.parent)
        /\ w.length = IF Concerns(c, v) THEN c.length ELSE v.length
        /\ w.offset = IF Concerns(c, v) THEN Offset(c.offset, c.length) ELSE v.offset
    BY <1>1, <2>1, ImageFields
  <2>3. /\ e.name = v.name /\ e.isDir = v.isDir /\ e.start = v.start /\ e.parent = v.parent
        /\ e.length = v.length /\ e.offset = v.offset
        /\ e.end = IF v.start = h THEN i ELSE v.end
    BY DEF EndedAt, Seen
  <2> HIDE DEF w, e
  <2>4. w.start = h2 <=> v.start = h
    BY <1>1, <2>1, <2>2, Shifts
  <2>5. Concerns(c, e) <=> Concerns(c, v)
    BY <2>3 DEF Concerns
  <2>6. (IF w.start = h2 THEN i2 ELSE w.end) = IF e.isDir THEN Shift(c, e.end) ELSE e.end
    BY <2>1, <2>2, <2>3, <2>4
  <2>7. EndedAt(w, h2, i2)
           = Seen(v.name, v.isDir, w.length, w.offset, Shift(c, v.start),
                  IF w.start = h2 THEN i2 ELSE w.end, Shift(c, v.parent))
    BY <2>2 DEF EndedAt
  <2>8. Image(c, e)
           = Seen(v.name, v.isDir, w.length, w.offset, Shift(c, v.start),
                  IF e.isDir THEN Shift(c, e.end) ELSE e.end, Shift(c, v.parent))
    <3>1. /\ w.length = IF Concerns(c, e) THEN c.length ELSE e.length
          /\ w.offset = IF Concerns(c, e) THEN Offset(c.offset, c.length) ELSE e.offset
      BY <2>2, <2>3, <2>5
    <3> QED
      BY <2>3, <3>1 DEF Image
  <2> QED
    BY <2>6, <2>7, <2>8 DEF w, e
<1>3. ASSUME NEW v \in new PROVE EndedAt(v, h2, i2) = v
  <2>1. IsSeen(v) /\ v.start = c.at /\ c.by > 0
    BY <1>3 DEF Adds
  <2>2. v.start # h2
    BY <1>1, <2>1, Shifts
  <2> QED
    BY <2>1, <2>2 DEF EndedAt, IsSeen
<1> DEFINE A == {EndedAt(w, h2, i2) : w \in W}
<1>4. ASSUME NEW x \in A PROVE x \in Images(c, E) \union new
  <2>1. PICK w \in W : x = EndedAt(w, h2, i2)
    OBVIOUS
  <2>2. CASE w \in new
    BY <1>3, <2>1, <2>2
  <2>3. CASE w \in Images(c, V)
    <3>1. PICK v \in V : w = Image(c, v)
      BY <2>3 DEF Images
    <3>2. x = Image(c, EndedAt(v, h, i))
      BY <1>2, <2>1, <3>1
    <3> QED
      BY <3>2 DEF Images
  <2> QED
    BY <2>1, <2>2, <2>3
<1>5. ASSUME NEW x \in Images(c, E) \union new PROVE x \in A
  <2>1. CASE x \in new
    BY <1>3, <2>1
  <2>2. CASE x \in Images(c, E)
    <3>1. PICK v \in V : x = Image(c, EndedAt(v, h, i))
      BY <2>2 DEF Images
    <3>2. x = EndedAt(Image(c, v), h2, i2) /\ Image(c, v) \in W
      BY <1>2, <3>1 DEF Images
    <3> QED
      BY <3>2
  <2> QED
    BY <2>1, <2>2
<1> QED
  BY <1>4, <1>5

\* parse sees the same in a descriptor and in what becomes of it.
LEMMA OpenedImage ==
  ASSUME NEW c, NEW new, Adds(c, new), NEW i \in Nat, NEW p, NEW q, NEW d, NEW e,
         d.name = e.name, Here(q) = Shift(c, Here(p))
  PROVE  OpenedView(q, Shift(c, i), e) = Image(c, OpenedView(p, i, d))
<1> DEFINE v == OpenedView(p, i, d)
<1>1. c \in Changes /\ Shift(c, 0) = 0
  BY Shifts DEF Adds
<1>2. /\ v.name = DirName(d) /\ v.isDir = TRUE /\ v.length = 0 /\ v.offset = 0
      /\ v.start = i /\ v.end = 0 /\ v.parent = Here(p)
  BY DEF OpenedView, Seen
<1>3. DirName(e) = DirName(d)
  BY DEF DirName
<1> HIDE DEF v
<1>4. ~ Concerns(c, v)
  BY <1>2 DEF Concerns
<1>5. Image(c, v) = Seen(DirName(d), TRUE, 0, 0, Shift(c, i), 0, Shift(c, Here(p)))
  BY <1>1, <1>2, <1>4 DEF Image
<1> QED
  BY <1>3, <1>5 DEF OpenedView, v

LEMMA FiledImage ==
  ASSUME NEW c, NEW i \in Nat, NEW p, NEW q, NEW d, NEW e,
         Becomes(c, i, d, e), Here(q) = Shift(c, Here(p))
  PROVE  FiledView(q, Shift(c, i), e) = Image(c, FiledView(p, i, d))
<1> DEFINE v == FiledView(p, i, d)
<1>1. /\ v.name = d.name /\ v.isDir = FALSE /\ v.length = d.length
      /\ v.offset = Offset(d.offset, d.length)
      /\ v.start = i /\ v.end = 0 /\ v.parent = Here(p)
  BY DEF FiledView, Seen
<1> HIDE DEF v
<1>2. Concerns(c, v) <=> i = c.of
  BY <1>1 DEF Concerns
<1>3. /\ e.length = IF Concerns(c, v) THEN c.length ELSE v.length
      /\ Offset(e.offset, e.length)
            = IF Concerns(c, v) THEN Offset(c.offset, c.length) ELSE v.offset
  BY <1>1, <1>2 DEF Becomes
<1>4. Image(c, v) = Seen(d.name, FALSE, e.length, Offset(e.offset, e.length),
                         Shift(c, i), 0, Shift(c, Here(p)))
  BY <1>1, <1>3 DEF Image
<1>5. e.name = d.name
  BY DEF Becomes
<1> QED
  BY <1>4, <1>5 DEF FiledView, v

LEMMA StepAlike ==
  ASSUME NEW c, NEW new, Adds(c, new), NEW i \in Nat, NEW j \in Nat, j = Shift(c, i),
         NEW p, NEW q, RunState(p, i), RunState(q, j), p.cur # 0,
         NEW d \in Descriptors, NEW e \in Descriptors, Becomes(c, i, d, e),
         Alike(c, new, p, q)
  PROVE  /\ RunState(ParseStep(q, j, e), j + 1)
         /\ Alike(c, new, ParseStep(p, i, d), ParseStep(q, j, e))
<1> DEFINE p2 == ParseStep(p, i, d)
           q2 == ParseStep(q, j, e)
<1>1. q.cur # 0 /\ Above(q) = Shift(c, Above(p)) /\ p.left \in Nat
  <2>1. q.cur # 0 /\ Above(q) = Shift(c, Above(p))
    BY AlikeAbove
  <2>2. p.left \in Nat
    BY RunFields
  <2> QED
    BY <2>1, <2>2
<1>2. /\ View(q.nodes) = Images(c, View(p.nodes)) \union new
      /\ Here(q) = Shift(c, Here(p)) /\ q.left = p.left /\ q.failed = p.failed
      /\ e.name = d.name
  BY DEF Alike, Becomes
<1>3. (Opens(q, e) <=> Opens(p, d)) /\ (Closes(q, e) <=> Closes(p, d))
  BY <1>2 DEF Opens, Closes
<1>4. RunState(q2, j + 1)
  BY <1>1, StepKeepsRun
<1>5. CASE Opens(p, d)
  <2>1. /\ View(p2.nodes) = View(p.nodes) \union {OpenedView(p, i, d)}
        /\ Here(p2) = i /\ p2.failed = p.failed
        /\ p2.left = IF d.name.mark = "map" THEN MapElements ELSE 0
    BY <1>5, StepOpens
  <2>2. /\ View(q2.nodes) = View(q.nodes) \union {OpenedView(q, j, e)}
        /\ Here(q2) = j /\ q2.failed = q.failed
        /\ q2.left = IF e.name.mark = "map" THEN MapElements ELSE 0
    <3>1. Opens(q, e)
      BY <1>3, <1>5
    <3> QED
      BY <1>1, <3>1, StepOpens
  <2>3. OpenedView(q, j, e) = Image(c, OpenedView(p, i, d))
    BY <1>2, OpenedImage
  <2> HIDE DEF p2, q2
  <2>4. View(q2.nodes) = Images(c, View(p2.nodes)) \union new
    BY <1>2, <2>1, <2>2, <2>3, ImagesGrow
  <2> QED
    BY <1>2, <1>4, <2>1, <2>2, <2>4 DEF Alike, p2, q2
<1>6. CASE Closes(p, d)
  <2>1. /\ View(p2.nodes) = {EndedAt(v, Here(p), i) : v \in View(p.nodes)}
        /\ Here(p2) = Above(p) /\ p2.failed = p.failed /\ p2.left = 0
    BY <1>6, StepCloses
  <2>2. /\ View(q2.nodes) = {EndedAt(v, Here(q), j) : v \in View(q.nodes)}
        /\ Here(q2) = Above(q) /\ q2.failed = q.failed /\ q2.left = 0
    BY <1>1, <1>3, <1>6, StepCloses
  <2> HIDE DEF p2, q2
  <2>3. \A v \in View(p.nodes) : IsSeen(v) /\ (v.start = Here(p) => v.isDir)
    <3>1. p.left = 0
      BY <1>6 DEF Closes
    <3>2. p.cur = Root \/ (p.cur # Root /\ p.nodes[p.cur].isDir)
      BY <3>1, HereOpen DEF OpenDir
    <3>3. ASSUME NEW v \in View(p.nodes), v.start = Here(p) PROVE v.isDir
      <4>1. v.start \in Nat
        BY RunViews, SeenTyped
      <4>2. p.cur # Root
        BY <3>3, <4>1, RunViews
      <4>3. PICK u \in View(p.nodes) : u.start = Here(p) /\ u.isDir = p.nodes[p.cur].isDir
        BY <4>2, RunViews
      <4>4. u = v
        BY <3>3, <4>3, RunViews
      <4> QED
        BY <3>2, <4>2, <4>3, <4>4
    <3> QED
      BY <3>3, RunViews
  <2>4. {EndedAt(w, Shift(c, Here(p)), Shift(c, i)) : w \in View(q.nodes)}
           = Images(c, {EndedAt(v, Here(p), i) : v \in View(p.nodes)}) \union new
    <3>1. Here(p) \in Int
      BY RunViews
    <3> DEFINE V == View(p.nodes)
               W == View(q.nodes)
               h == Here(p)
    <3>2. /\ h \in Int /\ W = Images(c, V) \union new
          /\ \A v \in V : IsSeen(v)
          /\ \A v \in V : v.start = h => v.isDir
      BY <1>2, <2>3, <3>1
    <3> HIDE DEF V, W, h
    <3>3. {EndedAt(w, Shift(c, h), Shift(c, i)) : w \in W}
             = Images(c, {EndedAt(v, h, i) : v \in V}) \union new
      BY <3>2, ImagesEnd
    <3> QED
      BY <3>3 DEF V, W, h
  <2>5. View(q2.nodes) = Images(c, View(p2.nodes)) \union new
    BY <1>2, <2>1, <2>2, <2>4
  <2> QED
    BY <1>1, <1>2, <1>4, <2>1, <2>2, <2>5 DEF Alike, p2, q2
<1>7. CASE ~ Opens(p, d) /\ ~ Closes(p, d)
  <2>1. /\ View(p2.nodes) = View(p.nodes) \union {FiledView(p, i, d)}
        /\ Here(p2) = IF p.left = 1 THEN Above(p) ELSE Here(p)
        /\ p2.failed = p.failed
        /\ p2.left = IF p.left > 0 THEN p.left - 1 ELSE 0
    BY <1>7, StepFiles
  <2>2. /\ View(q2.nodes) = View(q.nodes) \union {FiledView(q, j, e)}
        /\ Here(q2) = IF q.left = 1 THEN Above(q) ELSE Here(q)
        /\ q2.failed = q.failed
        /\ q2.left = IF q.left > 0 THEN q.left - 1 ELSE 0
    BY <1>1, <1>3, <1>7, StepFiles
  <2>3. FiledView(q, j, e) = Image(c, FiledView(p, i, d))
    BY <1>2, FiledImage
  <2> HIDE DEF p2, q2
  <2>4. View(q2.nodes) = Images(c, View(p2.nodes)) \union new
    BY <1>2, <2>1, <2>2, <2>3, ImagesGrow
  <2> QED
    BY <1>1, <1>2, <1>4, <2>1, <2>2, <2>4 DEF Alike, p2, q2
<1> QED
  BY <1>5, <1>6, <1>7

\* So are whole runs, from an index on.
LEMMA RunsAlike ==
  ASSUME NEW list \in Seq(Descriptors), NEW other \in Seq(Descriptors),
         NEW f, IsRun(f, list), NEW g, IsParse(g, other, Len(other)),
         NEW c, NEW new, Adds(c, new),
         NEW first \in Nat, NEW last \in 0 .. Len(list), first <= last,
         c.by = 0 \/ first >= c.at,
         \A k \in 0 .. last - 1 :
            k >= first => /\ Shift(c, k) + 1 \in DOMAIN other
                          /\ Becomes(c, k, list[k + 1], other[Shift(c, k) + 1]),
         RunState(g[Shift(c, first)], Shift(c, first)),
         Alike(c, new, f[first], g[Shift(c, first)])
  PROVE  /\ RunState(g[Shift(c, last)], Shift(c, last))
         /\ Alike(c, new, f[last], g[Shift(c, last)])
<1> DEFINE T(k) == RunState(g[Shift(c, k)], Shift(c, k)) /\ Alike(c, new, f[k], g[Shift(c, k)])
           S == {k \in 0 .. last : k >= first => T(k)}
<1>1. c \in Changes /\ c.at \in Nat /\ c.by \in Nat
  BY DEF Adds, Changes
<1>2. T(first)
  OBVIOUS
<1>3. 0 \in S
  <2> HIDE DEF T
  <2>1. 0 >= first => first = 0
    OBVIOUS
  <2> QED
    BY <1>2, <2>1
<1>4. ASSUME NEW k \in 0 .. last - 1, k \in S PROVE k + 1 \in S
  <2>1. CASE k + 1 < first
    BY <2>1
  <2>2. CASE k + 1 = first
    <3> HIDE DEF T
    <3> QED
      BY <1>2, <2>2
  <2>3. CASE k >= first
    <3> DEFINE j == Shift(c, k)
               p == f[k]
               q == g[j]
               d == list[k + 1]
               e == other[j + 1]
    <3>1. RunState(q, j) /\ Alike(c, new, p, q) /\ Becomes(c, k, d, e) /\ j + 1 \in DOMAIN other
      BY <1>4, <2>3
    <3>2. RunState(p, k) /\ p.cur # 0 /\ d \in Descriptors /\ f[k + 1] = ParseStep(p, k, d)
      BY DEF IsRun, IsParse
    <3>3. j \in Nat /\ Shift(c, k + 1) = j + 1
      <4>1. k \in Nat /\ (k >= c.at \/ c.by = 0)
        BY <1>1, <2>3
      <4> QED
        BY <1>1, <4>1 DEF Shift
    <3>4. e \in Descriptors /\ g[j + 1] = ParseStep(q, j, e)
      BY <3>1, <3>3 DEF IsParse
    <3>5. /\ RunState(ParseStep(q, j, e), j + 1)
          /\ Alike(c, new, ParseStep(p, k, d), ParseStep(q, j, e))
      <4>1. j = Shift(c, k)
        OBVIOUS
      <4> HIDE DEF j, p, q, d, e
      <4> QED
        BY <3>1, <3>2, <3>3, <3>4, <4>1, StepAlike
    <3>6. T(k + 1)
      BY <3>2, <3>3, <3>4, <3>5
    <3> QED
      BY <3>6
  <2> QED
    BY <2>1, <2>2, <2>3
<1>5. last \in S
  <2> HIDE DEF S
  <2>1. \A k \in 0 .. last - 1 : k \in S => k + 1 \in S
    BY <1>4
  <2>2. last \in Nat
    OBVIOUS
  <2>3. 0 .. last \subseteq S
    BY <1>3, <2>1, <2>2, IntervalInduction, Zenon
  <2> QED
    BY <2>2, <2>3
<1> QED
  BY <1>5

-----------------------------------------------------------------------------
(* Lists that mean the same, and a list with an extended file              *)

NoChange == [at |-> 0, by |-> 0, of |-> -1, offset |-> 0, length |-> 0]

\* Two lists that differ in the offsets of empty lumps only.
Equivalent(list, other) ==
    /\ Len(list) = Len(other)
    /\ \A i \in 1 .. Len(list) :
          /\ other[i].name = list[i].name /\ other[i].length = list[i].length
          /\ Offset(other[i].offset, other[i].length) = Offset(list[i].offset, list[i].length)

LEMMA NoChangeIs ==
  /\ Adds(NoChange, {}) /\ NoChange.by = 0 /\ NoChange.of = -1
  /\ \A i \in Int : Shift(NoChange, i) = i
<1>1. NoChange \in Changes /\ NoChange.by = 0 /\ NoChange.of = -1 /\ NoChange.at = 0
  BY DEF NoChange, Changes
<1>2. \A i \in Int : Shift(NoChange, i) = i
  BY <1>1 DEF Shift
<1>3. Adds(NoChange, {})
  BY <1>1 DEF Adds
<1> QED
  BY <1>1, <1>2, <1>3

LEMMA NoChangeImage ==
  ASSUME NEW V, \A v \in V : IsSeen(v)
  PROVE  Images(NoChange, V) = V
<1>1. NoChange.of = -1
  BY NoChangeIs
<1>2. \A i \in Int : Shift(NoChange, i) = i
  BY NoChangeIs
<1>3. ASSUME NEW v \in V PROVE Image(NoChange, v) = v
  <2>1. v.start \in Nat /\ v.end \in Nat /\ v.parent \in Int /\ v.isDir \in BOOLEAN
    BY SeenTyped
  <2>2. ~ Concerns(NoChange, v)
    BY <1>1, <2>1 DEF Concerns
  <2>3. /\ Shift(NoChange, v.start) = v.start /\ Shift(NoChange, v.parent) = v.parent
        /\ (IF v.isDir THEN Shift(NoChange, v.end) ELSE v.end) = v.end
    BY <1>2, <2>1
  <2>4. Image(NoChange, v)
           = Seen(v.name, v.isDir, v.length, v.offset, v.start, v.end, v.parent)
    BY <2>2, <2>3 DEF Image
  <2> QED
    BY <2>4 DEF IsSeen
<1> QED
  BY <1>3 DEF Images

\* As far as two lists are equivalent, their runs are.
LEMMA PrefixAlike ==
  ASSUME NEW list \in Seq(Descriptors), NEW other \in Seq(Descriptors),
         NEW f, IsRun(f, list), NEW g, IsParse(g, other, Len(other)),
         NEW last \in 0 .. Len(list), last <= Len(other),
         \A i \in 1 .. last :
            /\ other[i].name = list[i].name /\ other[i].length = list[i].length
            /\ Offset(other[i].offset, other[i].length) = Offset(list[i].offset, list[i].length)
  PROVE  /\ RunState(g[last], last)
         /\ View(g[last].nodes) = View(f[last].nodes) /\ Here(g[last]) = Here(f[last])
         /\ g[last].left = f[last].left /\ g[last].failed = FALSE
<1> DEFINE c == NoChange
<1>1. /\ Adds(c, {}) /\ c.by = 0 /\ c.of = -1
      /\ \A i \in Int : Shift(c, i) = i
      /\ \A V : (\A v \in V : IsSeen(v)) => Images(c, V) = V
  <2>1. ASSUME NEW V, \A v \in V : IsSeen(v) PROVE Images(c, V) = V
    BY <2>1, NoChangeImage
  <2>2. Adds(c, {}) /\ c.by = 0 /\ c.of = -1 /\ \A i \in Int : Shift(c, i) = i
    BY NoChangeIs
  <2> QED
    BY <2>1, <2>2
<1> HIDE DEF c
<1>2. Len(list) \in Nat /\ Len(other) \in Nat /\ last \in Nat
  OBVIOUS
<1>3. /\ RunState(g[0], 0) /\ View(g[0].nodes) = View(f[0].nodes) /\ Here(g[0]) = Here(f[0])
      /\ g[0].left = f[0].left /\ g[0].failed = f[0].failed
  <2>1. f[0] = ParseStart(Len(list)) /\ g[0] = ParseStart(Len(other))
    BY DEF IsRun, IsParse
  <2>2. /\ RunState(f[0], 0) /\ f[0].left = 0 /\ f[0].failed = FALSE
        /\ View(f[0].nodes) = {} /\ Here(f[0]) = -1
    BY <1>2, <2>1, StartRuns
  <2>3. /\ RunState(g[0], 0) /\ g[0].left = 0 /\ g[0].failed = FALSE
        /\ View(g[0].nodes) = {} /\ Here(g[0]) = -1
    BY <1>2, <2>1, StartRuns
  <2> QED
    BY <2>2, <2>3
<1>4. Shift(c, 0) = 0 /\ Shift(c, last) = last
  BY <1>1, <1>2
<1>5. ASSUME NEW k \in 0 .. Len(list)
      PROVE  /\ Images(c, View(f[k].nodes)) = View(f[k].nodes)
             /\ Shift(c, Here(f[k])) = Here(f[k]) /\ f[k].failed = FALSE
  <2>1. RunState(f[k], k) /\ f[k].failed = FALSE
    BY DEF IsRun
  <2>2. Here(f[k]) \in Int /\ \A v \in View(f[k].nodes) : IsSeen(v)
    BY <2>1, RunViews
  <2> QED
    BY <1>1, <2>1, <2>2
<1>6. Alike(c, {}, f[0], g[Shift(c, 0)])
  <2>1. 0 \in 0 .. Len(list)
    BY <1>2
  <2>2. Images(c, View(f[0].nodes)) = View(f[0].nodes) /\ Shift(c, Here(f[0])) = Here(f[0])
    BY <1>5, <2>1
  <2> QED
    BY <1>3, <1>4, <2>2 DEF Alike
<1>7. ASSUME NEW k \in 0 .. last - 1
      PROVE  Shift(c, k) + 1 \in DOMAIN other /\ Becomes(c, k, list[k + 1], other[Shift(c, k) + 1])
  <2>1. Shift(c, k) = k /\ k + 1 \in 1 .. last /\ k # c.of /\ k + 1 \in DOMAIN other
    BY <1>1
  <2> QED
    BY <2>1 DEF Becomes
<1>8. /\ RunState(g[Shift(c, last)], Shift(c, last))
      /\ Alike(c, {}, f[last], g[Shift(c, last)])
  <2>1. RunState(g[Shift(c, 0)], Shift(c, 0))
    BY <1>3, <1>4
  <2>2. 0 \in Nat /\ 0 <= last
    BY <1>2
  <2> QED
    BY <1>1, <1>6, <1>7, <2>1, <2>2, RunsAlike
<1> QED
  BY <1>4, <1>5, <1>8 DEF Alike

\* The end of a run tells what parse returns.
LEMMA RunBalances ==
  ASSUME NEW list \in Seq(Descriptors), NEW g, IsParse(g, list, Len(list)),
         RunState(g[Len(list)], Len(list)), Here(g[Len(list)]) = -1,
         g[Len(list)].left = 0, g[Len(list)].failed = FALSE
  PROVE  Balances(Parse(list, Len(list)))
<1>1. Len(list) \in Nat /\ Parse(list, Len(list)) = g[Len(list)]
  BY DEF IsParse
<1>2. g[Len(list)].cur = Root
  BY <1>1, RunViews
<1> QED
  BY <1>1, <1>2 DEF Balances

LEMMA BalancesAt ==
  ASSUME NEW list \in Seq(Descriptors), Balances(Parse(list, Len(list))), NEW f, IsRun(f, list)
  PROVE  LET p == Parse(list, Len(list))
         IN  /\ p = f[Len(list)] /\ RunState(p, Len(list)) /\ Here(p) = -1
             /\ p.left = 0 /\ p.failed = FALSE
             /\ p.nodes[Root].end = Len(list) /\ p.nodes[Root].isDir
<1>1. Len(list) \in Nat /\ Parse(list, Len(list)) = f[Len(list)]
  BY DEF IsRun, IsParse
<1>2. /\ RunState(f[Len(list)], Len(list))
      /\ f[Len(list)].nodes[Root].end = Len(list) /\ f[Len(list)].nodes[Root].isDir
      /\ f[Len(list)].cur = Root /\ f[Len(list)].left = 0 /\ f[Len(list)].failed = FALSE
  BY <1>1 DEF IsRun, Balances
<1> QED
  BY <1>1, <1>2, RunViews

\* Equivalent lists make the same tree.
LEMMA EquivalentLists ==
  ASSUME NEW list \in Seq(Descriptors), NEW other \in Seq(Descriptors),
         Equivalent(list, other), Balances(Parse(list, Len(list)))
  PROVE  /\ Balances(Parse(other, Len(other)))
         /\ View(Parse(other, Len(other)).nodes) = View(Parse(list, Len(list)).nodes)
<1> DEFINE len == Len(list)
<1>1. len \in Nat /\ Len(other) = len
  BY DEF Equivalent
<1>2. PICK f : IsRun(f, list)
  BY BalancedRuns
<1>3. PICK g : IsParse(g, other, Len(other))
  BY <1>1, ParseRuns
<1>4. /\ RunState(g[len], len)
      /\ View(g[len].nodes) = View(f[len].nodes) /\ Here(g[len]) = Here(f[len])
      /\ g[len].left = f[len].left /\ g[len].failed = FALSE
  <2>1. len \in 0 .. Len(list) /\ len <= Len(other)
    BY <1>1
  <2> QED
    BY <1>2, <1>3, <2>1, PrefixAlike DEF Equivalent
<1>5. f[len] = Parse(list, len) /\ Here(f[len]) = -1 /\ f[len].left = 0
  BY <1>2, BalancesAt
<1>6. g[len] = Parse(other, Len(other))
  BY <1>1, <1>3 DEF IsParse
<1> QED
  BY <1>1, <1>3, <1>4, <1>5, <1>6, RunBalances

\* The file at index of is given an offset and a length.
Extension(of, offset, length) ==
    [at |-> 1, by |-> 0, of |-> of, offset |-> offset, length |-> length]

LEMMA ExtendedList2 ==
  ASSUME NEW list \in Seq(Descriptors), NEW other \in Seq(Descriptors), Len(other) = Len(list),
         Balances(Parse(list, Len(list))),
         NEW index \in 1 .. Len(list), NEW o \in Nat, NEW count \in Nat,
         \A i \in 1 .. Len(list) : i # index => other[i] = list[i],
         other[index].name = list[index].name, other[index].offset = o,
         other[index].length = count
  PROVE  /\ Balances(Parse(other, Len(other)))
         /\ View(Parse(other, Len(other)).nodes)
               = Images(Extension(index - 1, o, count), View(Parse(list, Len(list)).nodes))
<1> DEFINE len == Len(list)
           c == Extension(index - 1, o, count)
<1>1. len \in Nat
  OBVIOUS
<1>2. PICK f : IsRun(f, list)
  BY BalancedRuns
<1>3. PICK g : IsParse(g, other, Len(other))
  BY <1>1, ParseRuns
<1>4. /\ c \in Changes /\ c.at = 1 /\ c.by = 0 /\ c.of = index - 1
      /\ c.offset = o /\ c.length = count
  BY DEF Extension, Changes
<1> HIDE DEF c
<1>5. Adds(c, {}) /\ \A i \in Int : Shift(c, i) = i
  BY <1>4, Shifts DEF Adds
<1>6. /\ f[0] = ParseStart(len) /\ g[0] = ParseStart(len)
  BY <1>2, <1>3 DEF IsRun, IsParse
<1>7. RunState(g[Shift(c, 0)], Shift(c, 0)) /\ Alike(c, {}, f[0], g[Shift(c, 0)])
  <2>1. Shift(c, 0) = 0 /\ Shift(c, -1) = -1
    BY <1>5
  <2>2. /\ RunState(g[0], 0) /\ View(f[0].nodes) = {} /\ View(g[0].nodes) = {}
        /\ Here(f[0]) = -1 /\ Here(g[0]) = -1
    BY <1>1, <1>6, StartRuns
  <2>3. Images(c, {}) = {}
    BY DEF Images
  <2> QED
    BY <1>6, <2>1, <2>2, <2>3 DEF Alike
<1>8. ASSUME NEW k \in 0 .. len - 1
      PROVE  Shift(c, k) + 1 \in DOMAIN other /\ Becomes(c, k, list[k + 1], other[Shift(c, k) + 1])
  <2>1. Shift(c, k) = k /\ k + 1 \in 1 .. len /\ k + 1 \in DOMAIN other
    BY <1>1, <1>5
  <2>2. CASE k + 1 = index
    <3>1. k = c.of
      BY <1>4, <2>2
    <3> QED
      BY <1>4, <2>1, <2>2, <3>1 DEF Becomes
  <2>3. CASE k + 1 # index
    <3>1. k # c.of
      BY <1>4, <2>3
    <3> QED
      BY <2>1, <2>3, <3>1 DEF Becomes
  <2> QED
    BY <2>2, <2>3
<1>9. /\ RunState(g[Shift(c, len)], Shift(c, len))
      /\ Alike(c, {}, f[len], g[Shift(c, len)])
  <2>1. len \in 0 .. Len(list) /\ 0 \in Nat /\ 0 <= len
    BY <1>1
  <2> QED
    BY <1>2, <1>3, <1>4, <1>5, <1>7, <1>8, <2>1, RunsAlike
<1>10. Shift(c, len) = len /\ Shift(c, -1) = -1
  BY <1>1, <1>5
<1>11. f[len] = Parse(list, len) /\ Here(f[len]) = -1 /\ f[len].left = 0 /\ f[len].failed = FALSE
  BY <1>2, BalancesAt
<1>12. /\ View(g[len].nodes) = Images(c, View(f[len].nodes))
       /\ Here(g[len]) = -1 /\ g[len].left = 0 /\ g[len].failed = FALSE
  BY <1>9, <1>10, <1>11 DEF Alike
<1>13. g[len] = Parse(other, Len(other))
  BY <1>1, <1>3 DEF IsParse
<1>14. Balances(Parse(other, Len(other)))
  BY <1>1, <1>3, <1>9, <1>10, <1>12, RunBalances
<1> QED
  BY <1>1, <1>11, <1>12, <1>13, <1>14 DEF c

-----------------------------------------------------------------------------
(* A list with descriptors put in                                          *)

Insertion(at, by) == [at |-> at, by |-> by, of |-> -1, offset |-> 0, length |-> 0]

\* other is list with by descriptors put in at index at.
PutIn(list, other, at, by) ==
    /\ list \in Seq(Descriptors) /\ other \in Seq(Descriptors)
    /\ at \in 0 .. Len(list) /\ by \in Nat \ {0} /\ Len(other) = Len(list) + by
    /\ \A i \in 1 .. at : other[i] = list[i]
    /\ \A i \in at + 1 .. Len(list) : other[i + by] = list[i]

\* Where createX puts the descriptors of a child of the directory with the
\* label here: at the end of the list for the root, else at its end.
InsertsAt(V, len, at, here) ==
    \/ here = -1 /\ at = len
    \/ \E v \in V : v.isDir /\ v.name.mark # "map" /\ v.start = here /\ v.end = at

LEMMA InsertionIs ==
  ASSUME NEW at \in Nat, NEW by \in Nat
  PROVE  LET c == Insertion(at, by)
         IN  c \in Changes /\ c.at = at /\ c.by = by /\ c.of = -1
BY DEF Insertion, Changes

LEMMA InsertPoint ==
  ASSUME NEW list \in Seq(Descriptors), Balances(Parse(list, Len(list))), NEW f, IsRun(f, list),
         NEW at, NEW here, InsertsAt(View(Parse(list, Len(list)).nodes), Len(list), at, here)
  PROVE  /\ at \in 0 .. Len(list) /\ (at > 0 \/ at = Len(list))
         /\ f[at].left = 0 /\ Here(f[at]) = here
<1> DEFINE len == Len(list)
           V == View(Parse(list, Len(list)).nodes)
<1>1. len \in Nat
  OBVIOUS
<1>2. CASE here = -1 /\ at = len
  <2>1. Parse(list, len) = f[len] /\ Here(f[len]) = -1 /\ f[len].left = 0
    BY BalancesAt
  <2> QED
    BY <1>1, <1>2, <2>1
<1>3. CASE \E v \in V : v.isDir /\ v.name.mark # "map" /\ v.start = here /\ v.end = at
  <2>1. PICK v \in V : v.isDir /\ v.name.mark # "map" /\ v.start = here /\ v.end = at
    BY <1>3
  <2>2. /\ v.end \in 1 .. Len(list) - 1 /\ Here(f[v.end]) = v.start /\ f[v.end].left = 0
    BY <2>1, RunEnds
  <2> QED
    BY <1>1, <2>1, <2>2
<1> QED
  BY <1>2, <1>3 DEF InsertsAt

\* Nothing before the index of an insertion moves.
LEMMA BeforeInsertion ==
  ASSUME NEW at \in Nat, NEW by \in Nat, NEW p, RunState(p, at)
  PROVE  LET c == Insertion(at, by)
         IN  /\ Images(c, View(p.nodes)) = View(p.nodes)
             /\ Shift(c, Here(p)) = Here(p)
<1> DEFINE c == Insertion(at, by)
<1>1. c \in Changes /\ c.at = at /\ c.by = by /\ c.of = -1
  BY InsertionIs
<1> HIDE DEF c
<1>2. \A i \in Int : i < at => Shift(c, i) = i
  BY <1>1, Shifts
<1>3. ASSUME NEW v \in View(p.nodes) PROVE Image(c, v) = v
  <2>1. IsSeen(v) /\ v.start < at /\ v.end < at /\ v.parent < at
    BY RunViews
  <2>2. v.start \in Nat /\ v.end \in Nat /\ v.parent \in Int /\ v.isDir \in BOOLEAN
    BY <2>1, SeenTyped
  <2>3. ~ Concerns(c, v)
    BY <1>1, <2>2 DEF Concerns
  <2>4. /\ Shift(c, v.start) = v.start /\ Shift(c, v.parent) = v.parent
        /\ (IF v.isDir THEN Shift(c, v.end) ELSE v.end) = v.end
    BY <1>2, <2>1, <2>2
  <2>5. Image(c, v) = Seen(v.name, v.isDir, v.length, v.offset, v.start, v.end, v.parent)
    BY <2>3, <2>4 DEF Image
  <2> QED
    BY <2>1, <2>5 DEF IsSeen
<1>4. Images(c, View(p.nodes)) = View(p.nodes)
  BY <1>3 DEF Images
<1>5. Shift(c, Here(p)) = Here(p)
  BY <1>2, RunViews
<1> QED
  BY <1>4, <1>5 DEF c

\* After the new descriptors, everything goes on as it did without them.
LEMMA AfterInsertion ==
  ASSUME NEW list, NEW other, NEW at, NEW by, PutIn(list, other, at, by),
         Balances(Parse(list, Len(list))), NEW f, IsRun(f, list),
         NEW g, IsParse(g, other, Len(other)), at > 0 \/ at = Len(list),
         NEW new, \A v \in new : v.start = at /\ IsSeen(v),
         RunState(g[at + by], at + by), Alike(Insertion(at, by), new, f[at], g[at + by])
  PROVE  /\ Balances(Parse(other, Len(other)))
         /\ View(Parse(other, Len(other)).nodes)
               = Images(Insertion(at, by), View(Parse(list, Len(list)).nodes)) \union new
<1> DEFINE len == Len(list)
           c == Insertion(at, by)
<1>1. /\ list \in Seq(Descriptors) /\ other \in Seq(Descriptors) /\ len \in Nat
      /\ at \in Nat /\ at <= len /\ by \in Nat /\ by > 0 /\ Len(other) = len + by
      /\ \A i \in at + 1 .. len : other[i + by] = list[i]
  BY DEF PutIn
<1>2. c \in Changes /\ c.at = at /\ c.by = by /\ c.of = -1
  BY <1>1, InsertionIs
<1> HIDE DEF c
<1>3. \A i \in Int : i >= at => Shift(c, i) = i + by
  BY <1>2 DEF Shift
<1>4. RunState(g[len + by], len + by) /\ Alike(c, new, f[len], g[len + by])
  <2>1. CASE at = len
    BY <2>1 DEF c
  <2>2. CASE at > 0
    <3>1. Adds(c, new)
      BY <1>1, <1>2, <2>2 DEF Adds
    <3>2. ASSUME NEW k \in 0 .. len - 1, k >= at
          PROVE  Shift(c, k) + 1 \in DOMAIN other /\ Becomes(c, k, list[k + 1], other[Shift(c, k) + 1])
      <4>1. Shift(c, k) = k + by /\ k + 1 \in at + 1 .. len /\ k # -1
        BY <1>1, <1>3, <3>2
      <4>2. (k + 1) + by \in DOMAIN other /\ other[(k + 1) + by] = list[k + 1]
        BY <1>1, <4>1
      <4>3. Shift(c, k) + 1 = (k + 1) + by
        BY <1>1, <4>1
      <4>4. k # c.of
        BY <1>2, <4>1
      <4>5. Shift(c, k) + 1 \in DOMAIN other
        BY <4>2, <4>3
      <4>6. other[Shift(c, k) + 1] = list[k + 1]
        BY <4>2, <4>3
      <4>7. Becomes(c, k, list[k + 1], list[k + 1])
        BY <4>4 DEF Becomes
      <4> QED
        BY <4>5, <4>6, <4>7
    <3>3. Shift(c, at) = at + by /\ Shift(c, len) = len + by /\ len \in 0 .. Len(list)
      BY <1>1, <1>3
    <3>4. RunState(g[Shift(c, at)], Shift(c, at)) /\ Alike(c, new, f[at], g[Shift(c, at)])
      BY <3>3 DEF c
    <3>5. c.by = 0 \/ at >= c.at
      BY <1>1, <1>2
    <3>6. RunState(g[Shift(c, len)], Shift(c, len)) /\ Alike(c, new, f[len], g[Shift(c, len)])
      BY <1>1, <3>1, <3>2, <3>3, <3>4, <3>5, RunsAlike
    <3> QED
      BY <3>3, <3>6
  <2> QED
    BY <2>1, <2>2
<1>5. f[len] = Parse(list, len) /\ Here(f[len]) = -1 /\ f[len].left = 0 /\ f[len].failed = FALSE
  BY <1>1, BalancesAt
<1>6. Shift(c, -1) = -1
  BY <1>2, Shifts
<1>7. /\ View(g[len + by].nodes) = Images(c, View(f[len].nodes)) \union new
      /\ Here(g[len + by]) = -1 /\ g[len + by].left = 0 /\ g[len + by].failed = FALSE
  BY <1>4, <1>5, <1>6 DEF Alike
<1>8. g[len + by] = Parse(other, Len(other))
  BY <1>1 DEF IsParse
<1>9. Balances(Parse(other, Len(other)))
  BY <1>1, <1>4, <1>7, RunBalances
<1> QED
  BY <1>5, <1>7, <1>8, <1>9 DEF c

\* The runs up to an insertion.
ReadyFor(f, g, at, by, here) ==
    /\ here \in Int /\ here < at
    /\ f[at].left = 0 /\ f[at].failed = FALSE /\ Here(f[at]) = here
    /\ Images(Insertion(at, by), View(f[at].nodes)) = View(f[at].nodes)
    /\ Shift(Insertion(at, by), here) = here
    /\ RunState(g[at], at) /\ View(g[at].nodes) = View(f[at].nodes) /\ Here(g[at]) = here
    /\ g[at].left = 0 /\ g[at].failed = FALSE /\ g[at].cur # 0

LEMMA UntilInsertion ==
  ASSUME NEW list, NEW other, NEW at, NEW by, PutIn(list, other, at, by),
         Balances(Parse(list, Len(list))), NEW f, IsRun(f, list),
         NEW here, InsertsAt(View(Parse(list, Len(list)).nodes), Len(list), at, here),
         NEW g, IsParse(g, other, Len(other))
  PROVE  ReadyFor(f, g, at, by, here)
<1>1. /\ list \in Seq(Descriptors) /\ other \in Seq(Descriptors)
      /\ at \in Nat /\ Len(list) \in Nat /\ at <= Len(list) /\ at <= Len(other)
      /\ by \in Nat /\ at \in 0 .. Len(list)
      /\ \A i \in 1 .. at : other[i] = list[i]
  BY DEF PutIn
<1>2. (at > 0 \/ at = Len(list)) /\ f[at].left = 0 /\ Here(f[at]) = here
  BY <1>1, InsertPoint
<1>3. RunState(f[at], at) /\ f[at].cur # 0 /\ f[at].failed = FALSE
  BY <1>1 DEF IsRun
<1>4. here \in Int /\ here < at /\ here # -2
  BY <1>1, <1>2, <1>3, RunViews
<1>5. \A i \in 1 .. at :
         /\ other[i].name = list[i].name /\ other[i].length = list[i].length
         /\ Offset(other[i].offset, other[i].length) = Offset(list[i].offset, list[i].length)
  BY <1>1
<1>6. /\ RunState(g[at], at)
      /\ View(g[at].nodes) = View(f[at].nodes) /\ Here(g[at]) = Here(f[at])
      /\ g[at].left = f[at].left /\ g[at].failed = FALSE
  BY <1>1, <1>5, PrefixAlike
<1>7. g[at].cur # 0
  BY <1>1, <1>2, <1>4, <1>6, RunViews
<1>8. /\ Images(Insertion(at, by), View(f[at].nodes)) = View(f[at].nodes)
      /\ Shift(Insertion(at, by), Here(f[at])) = Here(f[at])
  BY <1>1, <1>3, BeforeInsertion
<1> QED
  BY <1>1, <1>2, <1>3, <1>4, <1>6, <1>7, <1>8 DEF ReadyFor

\* The descriptor of a file, and of one end of a directory, at an index.
PutAt(other, i, d, mark) == d \in Descriptors /\ d.name.mark = mark /\ other[i + 1] = d

\* parse makes the same tree of other, but for the node seen as v.
ListGrows(list, other, at, by, v) ==
    /\ Balances(Parse(other, Len(other)))
    /\ View(Parse(other, Len(other)).nodes)
          = Images(Insertion(at, by), View(Parse(list, Len(list)).nodes)) \union {v}

\* The descriptor of a new file.
LEMMA FilePutIn ==
  ASSUME NEW list, NEW other, NEW at, PutIn(list, other, at, 1),
         Balances(Parse(list, Len(list))),
         NEW here, InsertsAt(View(Parse(list, Len(list)).nodes), Len(list), at, here),
         NEW d, PutAt(other, at, d, "none")
  PROVE  ListGrows(list, other, at, 1,
                   Seen(d.name, FALSE, d.length, Offset(d.offset, d.length), at, 0, here))
<1> DEFINE v == Seen(d.name, FALSE, d.length, Offset(d.offset, d.length), at, 0, here)
           c == Insertion(at, 1)
<1>1. /\ list \in Seq(Descriptors) /\ other \in Seq(Descriptors)
      /\ at \in Nat /\ Len(list) \in Nat /\ at <= Len(list) /\ Len(other) = Len(list) + 1
      /\ \A i \in 1 .. at : other[i] = list[i]
  BY DEF PutIn
<1>0. d \in Descriptors /\ d.name.mark = "none" /\ other[at + 1] = d
  BY DEF PutAt
<1>2. PICK f : IsRun(f, list)
  BY <1>1, BalancedRuns
<1>3. PICK g : IsParse(g, other, Len(other))
  BY <1>1, ParseRuns
<1>4. /\ (at > 0 \/ at = Len(list)) /\ here \in Int
      /\ f[at].left = 0 /\ f[at].failed = FALSE /\ Here(f[at]) = here
      /\ Images(Insertion(at, 1), View(f[at].nodes)) = View(f[at].nodes)
      /\ Shift(Insertion(at, 1), here) = here
      /\ RunState(g[at], at) /\ View(g[at].nodes) = View(f[at].nodes) /\ Here(g[at]) = here
      /\ g[at].left = 0 /\ g[at].failed = FALSE /\ g[at].cur # 0
  <2>1. ReadyFor(f, g, at, 1, here)
    BY <1>2, <1>3, UntilInsertion, Zenon
  <2>2. at > 0 \/ at = Len(list)
    BY <1>1, <1>2, InsertPoint, Zenon
  <2> QED
    BY <2>1, <2>2 DEF ReadyFor
<1> DEFINE p == g[at]
           q == ParseStep(p, at, d)
<1>5. /\ RunState(p, at) /\ View(p.nodes) = View(f[at].nodes) /\ Here(p) = here
      /\ p.left = 0 /\ p.failed = FALSE
  BY <1>4
<1>6. at + 1 \in 1 .. Len(other) /\ at + 1 \in Nat
  BY <1>1
<1>7. p.cur # 0
  BY <1>4
<1>8. g[at + 1] = q
  BY <1>0, <1>1, <1>3, <1>6 DEF IsParse
<1>9. ~ Opens(p, d) /\ ~ Closes(p, d)
  BY <1>0 DEF Opens, Closes
<1> HIDE DEF p
<1>10. /\ RunState(q, at + 1)
       /\ View(q.nodes) = View(p.nodes) \union {FiledView(p, at, d)}
       /\ Here(q) = Here(p) /\ q.failed = FALSE /\ q.left = 0
  BY <1>0, <1>1, <1>5, <1>7, <1>9, StepFiles
<1>11. FiledView(p, at, d) = v
  BY <1>5 DEF FiledView
<1>12. v.start = at /\ IsSeen(v)
  <2>1. at \in Nat /\ at + 1 \in Nat /\ 0 \in Nat /\ here \in Int /\ FALSE \in BOOLEAN /\ TRUE \in BOOLEAN
    BY <1>1, <1>4, <1>6
  <2>2. IsSeen(Seen(d.name, FALSE, d.length, Offset(d.offset, d.length), at, 0, here))
    BY <2>1, SeenIs, Zenon
  <2>3. Seen(d.name, FALSE, d.length, Offset(d.offset, d.length), at, 0, here).start = at
    BY DEF Seen
  <2> QED
    BY <2>2, <2>3
<1>13. Images(c, View(f[at].nodes)) = View(f[at].nodes) /\ Shift(c, Here(f[at])) = Here(f[at])
  BY <1>4
<1> HIDE DEF q, v, c
<1>14. Alike(c, {v}, f[at], q)
  BY <1>4, <1>5, <1>10, <1>11, <1>13 DEF Alike
<1>15. Alike(Insertion(at, 1), {v}, f[at], g[at + 1]) /\ RunState(g[at + 1], at + 1)
  BY <1>8, <1>10, <1>14 DEF c
<1>16. \A w \in {v} : w.start = at /\ IsSeen(w)
  BY <1>12
<1>17. /\ Balances(Parse(other, Len(other)))
       /\ View(Parse(other, Len(other)).nodes)
             = Images(Insertion(at, 1), View(Parse(list, Len(list)).nodes)) \union {v}
  <2> DEFINE new == {v}
             by == 1
  <2>1. /\ \A w \in new : w.start = at /\ IsSeen(w)
        /\ RunState(g[at + by], at + by) /\ Alike(Insertion(at, by), new, f[at], g[at + by])
        /\ PutIn(list, other, at, by)
    BY <1>15, <1>16
  <2>2. at > 0 \/ at = Len(list)
    BY <1>4
  <2> HIDE DEF new, by
  <2>3. /\ Balances(Parse(other, Len(other)))
        /\ View(Parse(other, Len(other)).nodes)
              = Images(Insertion(at, by), View(Parse(list, Len(list)).nodes)) \union new
    BY <1>2, <1>3, <2>1, <2>2, AfterInsertion
  <2> QED
    BY <2>3 DEF new, by
<1> QED
  BY <1>17 DEF v, ListGrows

\* The two descriptors of a new directory.
LEMMA DirectoryPutIn ==
  ASSUME NEW list, NEW other, NEW at, PutIn(list, other, at, 2),
         Balances(Parse(list, Len(list))),
         NEW here, InsertsAt(View(Parse(list, Len(list)).nodes), Len(list), at, here),
         NEW d, PutAt(other, at, d, "start"), NEW e, PutAt(other, at + 1, e, "end")
  PROVE  ListGrows(list, other, at, 2, Seen(Plain(d.name.base), TRUE, 0, 0, at, at + 1, here))
<1> DEFINE v == Seen(Plain(d.name.base), TRUE, 0, 0, at, at + 1, here)
           c == Insertion(at, 2)
<1>1. /\ list \in Seq(Descriptors) /\ other \in Seq(Descriptors)
      /\ at \in Nat /\ Len(list) \in Nat /\ at <= Len(list) /\ Len(other) = Len(list) + 2
      /\ \A i \in 1 .. at : other[i] = list[i]
  BY DEF PutIn
<1>0. /\ d \in Descriptors /\ d.name.mark = "start" /\ other[at + 1] = d
      /\ e \in Descriptors /\ e.name.mark = "end" /\ other[at + 2] = e
  <2>1. (at + 1) + 1 = at + 2
    BY <1>1
  <2> QED
    BY <2>1 DEF PutAt
<1>2. PICK f : IsRun(f, list)
  BY <1>1, BalancedRuns
<1>3. PICK g : IsParse(g, other, Len(other))
  BY <1>1, ParseRuns
<1>4. /\ (at > 0 \/ at = Len(list)) /\ here \in Int /\ here < at
      /\ f[at].left = 0 /\ f[at].failed = FALSE /\ Here(f[at]) = here
      /\ Images(Insertion(at, 2), View(f[at].nodes)) = View(f[at].nodes)
      /\ Shift(Insertion(at, 2), here) = here
      /\ RunState(g[at], at) /\ View(g[at].nodes) = View(f[at].nodes) /\ Here(g[at]) = here
      /\ g[at].left = 0 /\ g[at].failed = FALSE /\ g[at].cur # 0
  <2>1. ReadyFor(f, g, at, 2, here)
    BY <1>2, <1>3, UntilInsertion, Zenon
  <2>2. at > 0 \/ at = Len(list)
    BY <1>1, <1>2, InsertPoint, Zenon
  <2> QED
    BY <2>1, <2>2 DEF ReadyFor
<1> DEFINE p == g[at]
           q == ParseStep(p, at, d)
           r == ParseStep(q, at + 1, e)
<1>5. /\ RunState(p, at) /\ View(p.nodes) = View(f[at].nodes) /\ Here(p) = here
      /\ p.left = 0 /\ p.failed = FALSE
  BY <1>4
<1>6. at + 1 \in 1 .. Len(other) /\ at + 2 \in 1 .. Len(other) /\ at + 1 \in Nat
  BY <1>1
<1>7. p.cur # 0 /\ at + 1 \in Nat
  BY <1>1, <1>4
<1>8. g[at + 1] = q /\ g[at + 2] = r
  <2>1. g[at + 1] = ParseStep(g[(at + 1) - 1], (at + 1) - 1, other[at + 1])
    BY <1>3, <1>6 DEF IsParse
  <2>2. g[at + 2] = ParseStep(g[(at + 2) - 1], (at + 2) - 1, other[at + 2])
    BY <1>3, <1>6 DEF IsParse
  <2>3. (at + 1) - 1 = at /\ (at + 2) - 1 = at + 1
    BY <1>1
  <2>4. g[at + 1] = q
    BY <1>0, <2>1, <2>3
  <2> QED
    BY <1>0, <2>2, <2>3, <2>4
<1>9. Opens(p, d)
  BY <1>0, <1>5 DEF Opens
<1>10. DirName(d) = Plain(d.name.base)
  BY <1>0 DEF DirName
<1> HIDE DEF p
<1>11. /\ RunState(q, at + 1)
       /\ View(q.nodes) = View(p.nodes) \union {OpenedView(p, at, d)}
       /\ Here(q) = at /\ q.failed = FALSE /\ q.left = 0
  <2>1. /\ RunState(q, at + 1)
        /\ View(q.nodes) = View(p.nodes) \union {OpenedView(p, at, d)}
        /\ Here(q) = at /\ q.failed = p.failed
        /\ q.left = IF d.name.mark = "map" THEN MapElements ELSE 0
    <3>1. at \in Nat /\ RunState(p, at) /\ d \in Descriptors /\ p.cur # 0 /\ Opens(p, d)
      BY <1>0, <1>1, <1>5, <1>7, <1>9
    <3> QED
      BY <3>1, StepOpens, Zenon
  <2> HIDE DEF q
  <2> QED
    BY <1>0, <1>5, <2>1
<1> HIDE DEF q
<1>12. Closes(q, e)
  BY <1>0, <1>11 DEF Closes
<1>13. q.cur # 0 /\ q.cur # Root
  BY <1>1, <1>7, <1>11, RunViews
<1>14. /\ RunState(r, (at + 1) + 1)
       /\ View(r.nodes) = {EndedAt(w, Here(q), at + 1) : w \in View(q.nodes)}
       /\ Here(r) = Above(q)
       /\ r.failed = FALSE /\ r.left = 0
  BY <1>0, <1>7, <1>11, <1>12, <1>13, StepCloses
<1> HIDE DEF r
<1>15. (at + 1) + 1 = at + 2
  BY <1>1
<1>16. OpenedView(p, at, d) = Seen(Plain(d.name.base), TRUE, 0, 0, at, 0, here)
  BY <1>5, <1>10 DEF OpenedView
<1>17. Here(r) = here
  <2>1. PICK w \in View(q.nodes) : w.start = Here(q) /\ w.parent = Above(q)
    BY <1>7, <1>11, <1>13, RunViews
  <2>2. /\ OpenedView(p, at, d).start = at /\ OpenedView(p, at, d).parent = here
    BY <1>16 DEF Seen
  <2>3. w = OpenedView(p, at, d)
    BY <1>7, <1>11, <2>1, <2>2, RunViews
  <2> QED
    BY <1>14, <2>1, <2>2, <2>3
<1>18. EndedAt(OpenedView(p, at, d), at, at + 1) = v
  BY <1>16 DEF EndedAt, Seen
<1>19. ASSUME NEW w \in View(p.nodes) PROVE EndedAt(w, at, at + 1) = w
  <2>1. IsSeen(w) /\ w.start < at
    BY <1>1, <1>5, <1>19, RunViews
  <2>2. w.start # at
    BY <1>1, <2>1, SeenTyped
  <2> QED
    BY <2>1, <2>2 DEF EndedAt, IsSeen
<1>20. View(r.nodes) = View(p.nodes) \union {v}
  <2> HIDE DEF v
  <2> QED
    BY <1>11, <1>14, <1>18, <1>19
<1>21. v.start = at /\ IsSeen(v)
  <2>1. at \in Nat /\ at + 1 \in Nat /\ 0 \in Nat /\ here \in Int /\ FALSE \in BOOLEAN /\ TRUE \in BOOLEAN
    BY <1>1, <1>4, <1>6
  <2>2. IsSeen(Seen(Plain(d.name.base), TRUE, 0, 0, at, at + 1, here))
    BY <2>1, SeenIs, Zenon
  <2>3. Seen(Plain(d.name.base), TRUE, 0, 0, at, at + 1, here).start = at
    BY DEF Seen
  <2> QED
    BY <2>2, <2>3
<1>22. Images(c, View(f[at].nodes)) = View(f[at].nodes) /\ Shift(c, Here(f[at])) = Here(f[at])
  BY <1>4
<1> HIDE DEF v, c
<1>23. Alike(c, {v}, f[at], r)
  BY <1>4, <1>5, <1>14, <1>17, <1>20, <1>22 DEF Alike
<1>24. Alike(Insertion(at, 2), {v}, f[at], g[at + 2]) /\ RunState(g[at + 2], at + 2)
  BY <1>8, <1>14, <1>15, <1>23 DEF c
<1>25. \A w \in {v} : w.start = at /\ IsSeen(w)
  BY <1>21
<1>26. /\ Balances(Parse(other, Len(other)))
       /\ View(Parse(other, Len(other)).nodes)
             = Images(Insertion(at, 2), View(Parse(list, Len(list)).nodes)) \union {v}
  <2> DEFINE new == {v}
             by == 2
  <2>1. /\ \A w \in new : w.start = at /\ IsSeen(w)
        /\ RunState(g[at + by], at + by) /\ Alike(Insertion(at, by), new, f[at], g[at + by])
        /\ PutIn(list, other, at, by)
    BY <1>24, <1>25
  <2>2. at > 0 \/ at = Len(list)
    BY <1>4
  <2> HIDE DEF new, by
  <2>3. /\ Balances(Parse(other, Len(other)))
        /\ View(Parse(other, Len(other)).nodes)
              = Images(Insertion(at, by), View(Parse(list, Len(list)).nodes)) \union new
    BY <1>2, <1>3, <2>1, <2>2, AfterInsertion
  <2> QED
    BY <2>3 DEF new, by
<1> QED
  BY <1>26 DEF v, ListGrows

-----------------------------------------------------------------------------
(* The tree in memory                                                      *)

\* nodes is a tree that parse could have made of list, as far as can be seen.
TreeAgrees(nodes, list) ==
    /\ Balances(Parse(list, Len(list)))
    /\ IsTree(nodes) /\ ChildrenInOrder(nodes)
    /\ nodes[Root].isDir /\ nodes[Root].end = Len(list)
    /\ View(nodes) = View(Parse(list, Len(list)).nodes)

\* What parse makes of a list agrees with it.
LEMMA ParseAgrees ==
  ASSUME NEW list \in Seq(Descriptors), Balances(Parse(list, Len(list)))
  PROVE  TreeAgrees(Parse(list, Len(list)).nodes, list)
<1> DEFINE p == Parse(list, Len(list))
           nodes == p.nodes
<1>1. PICK f : IsRun(f, list)
  BY BalancedRuns
<1>2. /\ RunState(p, Len(list)) /\ nodes[Root].end = Len(list) /\ nodes[Root].isDir
  BY <1>1, BalancesAt
<1> HIDE DEF p
<1>3. IsTree(nodes) /\ Ordered(nodes, Len(list)) /\ nodes[Root].parent = 0
  BY <1>2 DEF RunState, IsTree
<1>4. /\ Below(nodes) = 2 .. Len(nodes) /\ DOMAIN nodes = 1 .. Len(nodes) /\ Len(nodes) \in Nat
      /\ \A n \in Below(nodes) : nodes[n].parent # 0
  BY <1>3, TreeNodes
<1>5. ASSUME NEW i \in DOMAIN nodes, NEW j \in DOMAIN nodes,
             i < j, nodes[i].parent = nodes[j].parent
      PROVE  nodes[i].start < nodes[j].start
  <2>1. j \in Below(nodes)
    BY <1>4, <1>5
  <2>2. i # Root
    BY <1>3, <1>4, <1>5, <2>1
  <2>3. i \in Below(nodes)
    BY <1>4, <1>5, <2>2 DEF Root
  <2> QED
    BY <1>3, <1>5, <2>1, <2>3 DEF Ordered
<1>6. ChildrenInOrder(nodes)
  BY <1>5 DEF ChildrenInOrder
<1> QED
  BY <1>2, <1>3, <1>6 DEF TreeAgrees, p

\* An equivalent list makes the same tree.
LEMMA EquivalentAgrees ==
  ASSUME NEW nodes, NEW list \in Seq(Descriptors), NEW other \in Seq(Descriptors),
         Equivalent(list, other), TreeAgrees(nodes, list)
  PROVE  TreeAgrees(nodes, other)
<1>1. Balances(Parse(list, Len(list)))
  BY DEF TreeAgrees
<1>2. /\ Balances(Parse(other, Len(other)))
      /\ View(Parse(other, Len(other)).nodes) = View(Parse(list, Len(list)).nodes)
  BY <1>1, EquivalentLists
<1>3. Len(list) = Len(other)
  BY DEF Equivalent
<1> QED
  BY <1>2, <1>3 DEF TreeAgrees

\* What the shift of the indices in the tree does to what is seen.
LEMMA ShiftedViews ==
  ASSUME IsTree(tree), NEW at \in Nat, NEW by \in Nat, NEW node
  PROVE  LET nodes == Shifted(at, by, node)
             c == Insertion(at, by)
         IN  /\ IsTree(nodes) /\ Len(nodes) = Len(tree)
             /\ \A n \in DOMAIN tree :
                   /\ nodes[n].parent = tree[n].parent /\ nodes[n].isDir = tree[n].isDir
                   /\ nodes[n].start = Shift(c, tree[n].start)
             /\ tree[Root].isDir => nodes[Root].end = Shift(c, tree[Root].end)
             /\ \A n \in 0 .. Len(tree) : Label(nodes, n) = Shift(c, Label(tree, n))
             /\ View(nodes) = Images(c, View(tree))
<1> DEFINE nodes == Shifted(at, by, node)
           c == Insertion(at, by)
<1>1. c \in Changes /\ c.at = at /\ c.by = by /\ c.of = -1
  BY InsertionIs
<1>2. /\ tree \in Seq(Nodes) /\ Len(tree) \in Nat /\ Len(tree) > 0 /\ DOMAIN tree = 1 .. Len(tree)
      /\ Below(tree) = 2 .. Len(tree)
      /\ \A n \in DOMAIN tree : /\ tree[n].start \in Nat /\ tree[n].end \in Nat
                                /\ tree[n].isDir \in BOOLEAN
      /\ \A n \in Below(tree) : tree[n].parent \in DOMAIN tree
  BY TreeNodes DEF IsTree
<1>3. /\ nodes \in Seq(Nodes) /\ Len(nodes) = Len(tree)
      /\ \A n \in DOMAIN tree :
            /\ nodes[n].name = tree[n].name /\ nodes[n].isDir = tree[n].isDir
            /\ nodes[n].parent = tree[n].parent
            /\ nodes[n].offset = tree[n].offset /\ nodes[n].length = tree[n].length
            /\ nodes[n].start =
                  IF tree[n].start >= at THEN tree[n].start + by ELSE tree[n].start
            /\ tree[n].isDir /\ tree[n].end >= at => nodes[n].end = tree[n].end + by
            /\ ~ tree[n].isDir \/ ~ tree[n].end >= at => nodes[n].end = tree[n].end
  BY <1>2, ShiftedIs
<1> HIDE DEF nodes, c
<1>4. /\ \A i : Shift(c, i) = IF i >= at THEN i + by ELSE i
      /\ \A i, j \in Int : Shift(c, i) = Shift(c, j) => i = j
      /\ Shift(c, -1) = -1 /\ Shift(c, -2) = -2
  BY <1>1, Shifts DEF Shift
<1>5. ASSUME NEW n \in DOMAIN tree
      PROVE  /\ nodes[n].start = Shift(c, tree[n].start)
             /\ nodes[n].end = IF tree[n].isDir THEN Shift(c, tree[n].end) ELSE tree[n].end
  BY <1>3, <1>4
<1>6. DOMAIN nodes = DOMAIN tree /\ Below(nodes) = Below(tree) /\ Below(tree) \subseteq DOMAIN tree
  BY <1>2, <1>3 DEF Below
<1>7. IsTree(nodes)
  <2>1. nodes[Root].parent = 0
    BY <1>2, <1>3 DEF IsTree, Root
  <2>2. \A n \in Below(nodes) : nodes[n].parent \in 1 .. n - 1
    BY <1>3, <1>6 DEF IsTree
  <2>3. ASSUME NEW m \in Below(nodes), NEW n \in Below(nodes), nodes[m].start = nodes[n].start
        PROVE  m = n
    <3>1. Shift(c, tree[m].start) = Shift(c, tree[n].start) /\ m \in DOMAIN tree /\ n \in DOMAIN tree
      BY <1>5, <1>6, <2>3
    <3>2. tree[m].start \in Int /\ tree[n].start \in Int
      BY <1>2, <3>1
    <3>3. tree[m].start = tree[n].start
      BY <1>4, <3>1, <3>2
    <3> QED
      BY <1>6, <3>3 DEF IsTree
  <2> QED
    BY <1>2, <1>3, <2>1, <2>2, <2>3 DEF IsTree
<1>8. ASSUME NEW n \in 0 .. Len(tree) PROVE Label(nodes, n) = Shift(c, Label(tree, n))
  <2>1. CASE n = 0 \/ n = Root
    BY <1>4, <2>1 DEF Label, Root
  <2>2. CASE n \in Below(tree)
    BY <1>2, <1>5, <2>2 DEF Label, Root
  <2> QED
    BY <1>2, <2>1, <2>2 DEF Root
<1>9. ASSUME NEW n \in Below(tree) PROVE ViewOf(nodes, n) = Image(c, ViewOf(tree, n))
  <2> DEFINE v == ViewOf(tree, n)
  <2>1. /\ v.name = tree[n].name /\ v.isDir = tree[n].isDir
        /\ v.length = tree[n].length
        /\ v.offset = Offset(tree[n].offset, tree[n].length)
        /\ v.start = tree[n].start /\ v.end = tree[n].end
        /\ v.parent = Label(tree, tree[n].parent)
    BY ViewFields
  <2> HIDE DEF v
  <2>2. n \in DOMAIN tree /\ tree[n].parent \in 0 .. Len(tree) /\ tree[n].start # -1
    BY <1>2, <1>6
  <2>3. ~ Concerns(c, v)
    BY <1>1, <2>1, <2>2 DEF Concerns
  <2>4. Image(c, v) = Seen(tree[n].name, tree[n].isDir, tree[n].length,
                           Offset(tree[n].offset, tree[n].length), Shift(c, tree[n].start),
                           IF tree[n].isDir THEN Shift(c, tree[n].end) ELSE tree[n].end,
                           Shift(c, Label(tree, tree[n].parent)))
    BY <2>1, <2>3 DEF Image
  <2>5. Label(nodes, nodes[n].parent) = Shift(c, Label(tree, tree[n].parent))
    BY <1>3, <1>8, <2>2
  <2>6. ViewOf(nodes, n)
           = Seen(tree[n].name, tree[n].isDir, tree[n].length,
                  Offset(tree[n].offset, tree[n].length), Shift(c, tree[n].start),
                  IF tree[n].isDir THEN Shift(c, tree[n].end) ELSE tree[n].end,
                  Shift(c, Label(tree, tree[n].parent)))
    BY <1>3, <1>5, <2>2, <2>5 DEF ViewOf, SeenNode
  <2> QED
    BY <2>4, <2>6 DEF v
<1>10. View(nodes) = Images(c, View(tree))
  <2>1. View(nodes) = {ViewOf(nodes, n) : n \in Below(tree)}
    BY <1>6, <1>7, ViewIs
  <2>2. View(tree) = {ViewOf(tree, n) : n \in Below(tree)}
    BY ViewIs
  <2> QED
    BY <1>9, <2>1, <2>2 DEF Images
<1>11. Root \in DOMAIN tree
  BY <1>2 DEF Root
<1> QED
  BY <1>3, <1>5, <1>7, <1>8, <1>10, <1>11 DEF nodes, c

\* A place for a child of the node p, at index at.
IsPlace(nodes, p, len, at) ==
    /\ p \in DOMAIN nodes
    /\ p = Root => at = len
    /\ p # Root => nodes[p].isDir /\ nodes[p].name.mark # "map" /\ nodes[p].end = at

LEMMA PlaceIs ==
  ASSUME NEW list \in Seq(Descriptors), NEW nodes, TreeAgrees(nodes, list),
         NEW p, NEW at, IsPlace(nodes, p, Len(list), at)
  PROVE  /\ at \in Nat /\ at <= Len(list)
         /\ InsertsAt(View(Parse(list, Len(list)).nodes), Len(list), at, Label(nodes, p))
         /\ Label(nodes, p) \in Int /\ Label(nodes, p) < at
         /\ \A n \in DOMAIN nodes : nodes[n].parent = p => nodes[n].start < at
<1> DEFINE V == View(Parse(list, Len(list)).nodes)
           here == Label(nodes, p)
<1>1. /\ IsTree(nodes) /\ View(nodes) = V /\ nodes[Root].parent = 0 /\ p \in DOMAIN nodes
      /\ Balances(Parse(list, Len(list)))
  BY DEF TreeAgrees, IsTree, IsPlace
<1>2. PICK f : IsRun(f, list)
  BY <1>1, BalancedRuns
<1>0. Len(list) \in Nat
  OBVIOUS
<1>3. RunState(Parse(list, Len(list)), Len(list))
  <2> HIDE DEF V, here
  <2> QED
    BY <1>1, <1>2, BalancesAt
<1>4. DOMAIN nodes = 1 .. Len(nodes) /\ p # 0 /\ Len(nodes) \in Nat
  BY <1>1, TreeNodes
<1>5. ASSUME NEW n \in DOMAIN nodes, nodes[n].parent = p
      PROVE  /\ n \in Below(nodes) /\ ViewOf(nodes, n) \in V
             /\ ViewOf(nodes, n).start = nodes[n].start
             /\ ViewOf(nodes, n).parent = here
  <2>1. n \in Below(nodes)
    BY <1>1, <1>4, <1>5 DEF Below
  <2> QED
    BY <1>1, <1>5, <2>1, SeenOf
<1>6. CASE p = Root
  <2>1. at = Len(list) /\ here = -1
    BY <1>6 DEF IsPlace, Label, Root
  <2>2. \A v \in V : v.start < Len(list)
    BY <1>3, RunViews
  <2>3. \A n \in DOMAIN nodes : nodes[n].parent = p => nodes[n].start < at
    BY <1>5, <2>1, <2>2
  <2> QED
    BY <1>0, <2>1, <2>3 DEF InsertsAt
<1>7. CASE p # Root
  <2> DEFINE v == ViewOf(nodes, p)
  <2>1. p \in Below(nodes)
    BY <1>1, <1>7 DEF Below
  <2>2. /\ v \in V /\ v.start = here /\ v.end = at /\ v.isDir /\ v.name.mark # "map"
        /\ IsSeen(v)
    BY <1>1, <1>7, <2>1, SeenOf DEF IsPlace
  <2> HIDE DEF v
  <2>3. /\ v.end \in 1 .. Len(list) - 1 /\ v.start < v.end
        /\ \A u \in V : u.parent = v.start => u.start < v.end
    BY <1>1, <1>2, <2>2, RunEnds
  <2>4. \A n \in DOMAIN nodes : nodes[n].parent = p => nodes[n].start < at
    BY <1>5, <2>2, <2>3
  <2>5. here \in Int
    BY <2>2, SeenTyped
  <2>6. at \in Nat /\ at <= Len(list) /\ here < at
    BY <1>0, <2>2, <2>3
  <2> QED
    BY <2>2, <2>4, <2>5, <2>6 DEF InsertsAt
<1> QED
  BY <1>6, <1>7

\* The tree with a new node and its indices shifted agrees with the list that
\* has the descriptors of the node.
LEMMA TreeGrows ==
  ASSUME NEW list \in Seq(Descriptors), TreeAgrees(tree, list),
         NEW p, NEW at, IsPlace(tree, p, Len(list), at),
         NEW by \in Nat, by > 0,
         NEW node \in Nodes, node.parent = p, node.start = at,
         NEW other, Len(other) = Len(list) + by,
         ListGrows(list, other, at, by, SeenNode(node, Label(tree, p)))
  PROVE  TreeAgrees(Append(Shifted(at, by, node), node), other)
<1> DEFINE c == Insertion(at, by)
           here == Label(tree, p)
           nodes == Shifted(at, by, node)
           more == Append(nodes, node)
<1>1. /\ IsTree(tree) /\ ChildrenInOrder(tree) /\ tree[Root].isDir /\ tree[Root].end = Len(list)
      /\ View(tree) = View(Parse(list, Len(list)).nodes)
      /\ p \in DOMAIN tree /\ tree[Root].parent = 0
  BY DEF TreeAgrees, IsPlace, IsTree
<1>0. /\ Balances(Parse(other, Len(other)))
      /\ View(Parse(other, Len(other)).nodes)
            = Images(c, View(Parse(list, Len(list)).nodes)) \union {SeenNode(node, here)}
  BY DEF ListGrows
<1>2. /\ at \in Nat /\ at <= Len(list) /\ here \in Int /\ here < at
      /\ \A n \in DOMAIN tree : tree[n].parent = p => tree[n].start < at
  BY PlaceIs
<1>3. c \in Changes /\ c.at = at /\ c.by = by
  BY <1>2, InsertionIs
<1>4. /\ IsTree(nodes) /\ Len(nodes) = Len(tree)
      /\ \A n \in DOMAIN tree :
            /\ nodes[n].parent = tree[n].parent /\ nodes[n].isDir = tree[n].isDir
            /\ nodes[n].start = Shift(c, tree[n].start)
      /\ nodes[Root].end = Shift(c, tree[Root].end)
      /\ \A n \in 0 .. Len(tree) : Label(nodes, n) = Shift(c, Label(tree, n))
      /\ View(nodes) = Images(c, View(tree))
  BY <1>1, <1>2, ShiftedViews
<1>5. /\ DOMAIN tree = 1 .. Len(tree) /\ Len(tree) \in Nat /\ Root \in DOMAIN tree
      /\ \A n \in DOMAIN tree : tree[n].start \in Nat
      /\ \A n \in Below(tree) : tree[n].parent # 0
      /\ Below(tree) = 2 .. Len(tree) /\ Below(nodes) = 2 .. Len(nodes) /\ DOMAIN nodes = 1 .. Len(nodes)
  BY <1>1, <1>4, TreeNodes
<1>6. /\ \A i \in Int : i < at => Shift(c, i) = i
      /\ \A i \in Int : Shift(c, i) # at
      /\ \A i, j \in Int : i < j => Shift(c, i) < Shift(c, j)
  BY <1>3, Shifts
<1> HIDE DEF c, nodes
<1>7. /\ IsTree(more) /\ Len(more) = Len(nodes) + 1 /\ more[Len(nodes) + 1] = node
      /\ \A n \in DOMAIN nodes : more[n] = nodes[n]
      /\ View(more) = View(nodes) \union {SeenNode(node, Label(nodes, p))}
  <2>1. \A n \in Below(nodes) : nodes[n].start # node.start
    BY <1>4, <1>5, <1>6
  <2>2. node.parent \in DOMAIN nodes
    BY <1>1, <1>4, <1>5
  <2> QED
    BY <1>4, <2>1, <2>2, ViewGrows
<1>8. DOMAIN more = 1 .. Len(tree) + 1
  BY <1>4, <1>7, TreeNodes
<1> HIDE DEF more
<1>9. Label(nodes, p) = here
  BY <1>1, <1>2, <1>4, <1>5, <1>6
<1>10. View(more) = View(Parse(other, Len(other)).nodes)
  BY <1>0, <1>1, <1>4, <1>7, <1>9 DEF c
<1>11. ASSUME NEW i \in DOMAIN more, NEW j \in DOMAIN more,
              i < j, more[i].parent = more[j].parent
       PROVE  more[i].start < more[j].start
  <2>1. i \in DOMAIN tree /\ i \in DOMAIN nodes
    BY <1>4, <1>5, <1>8, <1>11
  <2>2. more[i].parent = tree[i].parent /\ more[i].start = Shift(c, tree[i].start)
    BY <1>4, <1>7, <2>1
  <2>3. CASE j \in DOMAIN tree
    <3>1. j \in DOMAIN nodes
      BY <1>4, <1>5, <2>3
    <3>2. more[j].parent = tree[j].parent /\ more[j].start = Shift(c, tree[j].start)
      BY <1>4, <1>7, <2>3, <3>1
    <3>3. tree[i].start < tree[j].start
      BY <1>1, <1>11, <2>1, <2>2, <2>3, <3>2 DEF ChildrenInOrder
    <3> QED
      BY <1>5, <1>6, <2>1, <2>2, <2>3, <3>2, <3>3
  <2>4. CASE j = Len(tree) + 1
    <3>1. more[j] = node
      BY <1>4, <1>7, <2>4
    <3>2. tree[i].parent = p
      BY <1>11, <2>2, <3>1
    <3>3. tree[i].start < at
      BY <1>2, <2>1, <3>2
    <3>4. Shift(c, tree[i].start) = tree[i].start
      BY <1>5, <1>6, <2>1, <3>3
    <3> QED
      BY <2>2, <3>1, <3>3, <3>4
  <2> QED
    BY <1>5, <1>8, <2>3, <2>4
<1>12. more[Root].isDir /\ more[Root].end = Len(other)
  <2>1. more[Root] = nodes[Root]
    BY <1>4, <1>5, <1>7
  <2>2. Shift(c, Len(list)) = Len(list) + by
    BY <1>2, <1>3 DEF Shift
  <2> QED
    BY <1>1, <1>4, <1>5, <2>1, <2>2
<1>13. ChildrenInOrder(more)
  BY <1>11 DEF ChildrenInOrder
<1> QED
  BY <1>0, <1>7, <1>10, <1>12, <1>13 DEF TreeAgrees, more, nodes

\* What a write changes of a node and of a descriptor.
TreeExtended(nodes, n, o, count) ==
    /\ nodes \in Seq(Nodes) /\ Len(nodes) = Len(tree) /\ DOMAIN nodes = DOMAIN tree
    /\ nodes[n].offset = o /\ nodes[n].length = count
    /\ \A k \in DOMAIN tree \ {n} : nodes[k] = tree[k]
    /\ \A k \in DOMAIN tree :
          /\ nodes[k].name = tree[k].name /\ nodes[k].isDir = tree[k].isDir
          /\ nodes[k].parent = tree[k].parent
          /\ nodes[k].start = tree[k].start /\ nodes[k].end = tree[k].end

LEMMA ExtendedNode ==
  ASSUME tree \in Seq(Nodes), NEW n \in DOMAIN tree, tree[n].length = 0,
         NEW o \in Nat, NEW count \in Nat
  PROVE  TreeExtended(ExtendedTree(n, o, count), n, o, count)
<1> DEFINE old == tree[n]
           length == tree[n].length + count
           node == Extended(old, o, length)
           nodes == ExtendedTree(n, o, count)
<1>1. old \in Nodes /\ length \in Nat /\ length = count
  OBVIOUS
<1>2. nodes = [tree EXCEPT ![n] = node]
  BY DEF Extended, ExtendedTree
<1> HIDE DEF old, length, nodes
<1>3. LET m == Extended(old, o, length)
      IN  /\ m \in Nodes /\ m.offset = o /\ m.length = length
          /\ m.name = old.name /\ m.isDir = old.isDir /\ m.parent = old.parent
          /\ m.start = old.start /\ m.end = old.end
  <2> HIDE DEF node
  <2>1. old \in Nodes /\ length \in Nat /\ o \in Nat
    BY <1>1
  <2> QED
    BY <2>1, NodeExtended, Zenon
<1>4. /\ node \in Nodes /\ node.offset = o /\ node.length = count
      /\ node.name = tree[n].name /\ node.isDir = tree[n].isDir /\ node.parent = tree[n].parent
      /\ node.start = tree[n].start /\ node.end = tree[n].end
  BY <1>1, <1>3 DEF old
<1> HIDE DEF node
<1>5. /\ nodes \in Seq(Nodes) /\ Len(nodes) = Len(tree) /\ DOMAIN nodes = DOMAIN tree
      /\ nodes[n] = node /\ \A k \in DOMAIN tree \ {n} : nodes[k] = tree[k]
  BY <1>2, <1>4
<1>6. TreeExtended(nodes, n, o, count)
  BY <1>4, <1>5 DEF TreeExtended
<1> QED
  BY <1>6 DEF nodes

ListExtended(list, index, o, count) ==
    /\ list \in Seq(Descriptors) /\ Len(list) = Len(descriptors)
    /\ list[index].name = descriptors[index].name
    /\ list[index].offset = o /\ list[index].length = count
    /\ \A i \in DOMAIN descriptors \ {index} : list[i] = descriptors[i]

LEMMA ExtendedDescriptor ==
  ASSUME descriptors \in Seq(Descriptors), NEW index \in DOMAIN descriptors,
         descriptors[index].length = 0, NEW o \in Nat, NEW count \in Nat
  PROVE  ListExtended(ExtendedList(index, o, count), index, o, count)
<1> DEFINE old == descriptors[index]
           length == descriptors[index].length + count
           wider == Extended(old, o, length)
           list == ExtendedList(index, o, count)
<1>1. old \in Descriptors /\ length \in Nat /\ length = count
  OBVIOUS
<1>2. list = [descriptors EXCEPT ![index] = wider]
  BY DEF Extended, ExtendedList
<1> HIDE DEF old, length, list
<1>3. DescriptorOf(Extended(old, o, length), old, o, length)
  BY <1>1, DescriptorExtended
<1>4. /\ wider \in Descriptors /\ wider.offset = o /\ wider.length = count
      /\ wider.name = descriptors[index].name
  BY <1>1, <1>3 DEF old, DescriptorOf
<1> HIDE DEF wider
<1>5. /\ list \in Seq(Descriptors) /\ Len(list) = Len(descriptors)
      /\ list[index] = wider /\ \A i \in DOMAIN descriptors \ {index} : list[i] = descriptors[i]
  BY <1>2, <1>4
<1>6. ListExtended(list, index, o, count)
  BY <1>4, <1>5 DEF ListExtended
<1> QED
  BY <1>6 DEF list

\* The view of a tree with an extended file.
LEMMA ExtendedViews ==
  ASSUME IsTree(tree), NEW n \in Below(tree), tree[n].isDir = FALSE, tree[n].length = 0,
         NEW o \in Nat, NEW count \in Nat
  PROVE  LET nodes == ExtendedTree(n, o, count)
         IN  /\ IsTree(nodes)
             /\ View(nodes) = Images(Extension(tree[n].start, o, count), View(tree))
<1> DEFINE nodes == ExtendedTree(n, o, count)
           c == Extension(tree[n].start, o, count)
<1>1. /\ tree \in Seq(Nodes) /\ Len(tree) \in Nat /\ Len(tree) > 0 /\ DOMAIN tree = 1 .. Len(tree)
      /\ Below(tree) = 2 .. Len(tree) /\ n \in DOMAIN tree
      /\ \A k \in DOMAIN tree : tree[k].start \in Nat /\ tree[k].end \in Nat
      /\ \A k \in Below(tree) : tree[k].parent \in DOMAIN tree
  BY TreeNodes DEF IsTree, Below
<1>2. c \in Changes /\ c.at = 1 /\ c.by = 0 /\ c.of = tree[n].start /\ c.offset = o /\ c.length = count
  BY <1>1 DEF Extension, Changes
<1>3. /\ nodes \in Seq(Nodes) /\ Len(nodes) = Len(tree) /\ DOMAIN nodes = DOMAIN tree
      /\ nodes[n].offset = o /\ nodes[n].length = count
      /\ \A k \in DOMAIN tree \ {n} : nodes[k] = tree[k]
      /\ \A k \in DOMAIN tree :
            /\ nodes[k].name = tree[k].name /\ nodes[k].isDir = tree[k].isDir
            /\ nodes[k].parent = tree[k].parent
            /\ nodes[k].start = tree[k].start /\ nodes[k].end = tree[k].end
  <2>1. tree \in Seq(Nodes) /\ n \in DOMAIN tree
    BY <1>1
  <2>2. TreeExtended(nodes, n, o, count)
    BY <2>1, ExtendedNode, Zenon
  <2> HIDE DEF nodes
  <2> QED
    BY <2>2, Zenon DEF TreeExtended
<1> HIDE DEF nodes, c
<1>4. \A i \in Int : Shift(c, i) = i
  BY <1>2, Shifts
<1>5. Below(nodes) = Below(tree) /\ Below(tree) \subseteq DOMAIN tree
  BY <1>3 DEF Below
<1>6. IsTree(nodes)
  <2>1. nodes[Root].parent = 0
    BY <1>1, <1>3 DEF IsTree, Root
  <2>2. \A k \in Below(nodes) : nodes[k].parent \in 1 .. k - 1
    BY <1>3, <1>5 DEF IsTree
  <2>3. \A j, k \in Below(nodes) : nodes[j].start = nodes[k].start => j = k
    BY <1>3, <1>5 DEF IsTree
  <2> QED
    BY <1>1, <1>3, <2>1, <2>2, <2>3 DEF IsTree
<1>7. \A k \in 0 .. Len(tree) : Label(nodes, k) = Label(tree, k)
  BY <1>1, <1>3 DEF Label
<1>8. ASSUME NEW k \in Below(tree) PROVE ViewOf(nodes, k) = Image(c, ViewOf(tree, k))
  <2> DEFINE v == ViewOf(tree, k)
  <2>1. /\ v.name = tree[k].name /\ v.isDir = tree[k].isDir
        /\ v.length = tree[k].length
        /\ v.offset = Offset(tree[k].offset, tree[k].length)
        /\ v.start = tree[k].start /\ v.end = tree[k].end
        /\ v.parent = Label(tree, tree[k].parent)
    BY ViewFields
  <2> HIDE DEF v
  <2>2. k \in DOMAIN tree /\ tree[k].parent \in 0 .. Len(tree)
    BY <1>1, <1>5
  <2>3. Label(tree, tree[k].parent) \in Int
    BY <2>2, LabelIs
  <2>4. /\ Shift(c, v.start) = tree[k].start /\ Shift(c, v.end) = tree[k].end
        /\ Shift(c, v.parent) = Label(tree, tree[k].parent)
    BY <1>1, <1>4, <2>1, <2>2, <2>3
  <2>5. Concerns(c, v) <=> k = n
    <3>1. tree[k].start = tree[n].start <=> k = n
      BY DEF IsTree
    <3> QED
      BY <1>2, <2>1, <3>1 DEF Concerns
  <2>6. /\ nodes[k].length = IF Concerns(c, v) THEN c.length ELSE v.length
        /\ Offset(nodes[k].offset, nodes[k].length)
              = IF Concerns(c, v) THEN Offset(c.offset, c.length) ELSE v.offset
    <3>1. CASE k = n
      BY <1>2, <1>3, <2>5, <3>1
    <3>2. CASE k # n
      BY <1>3, <2>1, <2>2, <2>5, <3>2
    <3> QED
      BY <3>1, <3>2
  <2>7. Image(c, v) = Seen(tree[k].name, tree[k].isDir, nodes[k].length,
                           Offset(nodes[k].offset, nodes[k].length), tree[k].start, tree[k].end,
                           Label(tree, tree[k].parent))
    BY <2>1, <2>4, <2>6 DEF Image
  <2>8. ViewOf(nodes, k)
           = Seen(tree[k].name, tree[k].isDir, nodes[k].length,
                  Offset(nodes[k].offset, nodes[k].length), tree[k].start, tree[k].end,
                  Label(tree, tree[k].parent))
    BY <1>3, <1>7, <2>2 DEF ViewOf, SeenNode
  <2> QED
    BY <2>7, <2>8 DEF v
<1>9. View(nodes) = Images(c, View(tree))
  <2>1. View(nodes) = {ViewOf(nodes, k) : k \in Below(tree)}
    BY <1>5, <1>6, ViewIs
  <2>2. View(tree) = {ViewOf(tree, k) : k \in Below(tree)}
    BY ViewIs
  <2> QED
    BY <1>8, <2>1, <2>2 DEF Images
<1> QED
  BY <1>6, <1>9 DEF nodes, c

\* A write that counts changes tree and list alike.
LEMMA ExtendedAgrees ==
  ASSUME descriptors \in Seq(Descriptors), TreeAgrees(tree, descriptors),
         FilesDescribed(tree, descriptors, Len(descriptors)),
         NEW n \in DOMAIN tree, tree[n].isDir = FALSE, tree[n].length = 0,
         NEW o \in Nat, NEW count \in Nat
  PROVE  LET list == ExtendedList(tree[n].start + 1, o, count)
         IN  /\ TreeAgrees(ExtendedTree(n, o, count), list)
             /\ list \in Seq(Descriptors)
             /\ count = 0 => Equivalent(descriptors, list)
<1> DEFINE index == tree[n].start + 1
           list == ExtendedList(index, o, count)
           nodes == ExtendedTree(n, o, count)
           V == View(Parse(descriptors, Len(descriptors)).nodes)
<1>1. /\ IsTree(tree) /\ ChildrenInOrder(tree) /\ tree[Root].isDir
      /\ tree[Root].end = Len(descriptors)
      /\ Balances(Parse(descriptors, Len(descriptors)))
      /\ View(tree) = V
  BY DEF TreeAgrees
<1>2. /\ tree \in Seq(Nodes) /\ Root \in DOMAIN tree /\ n \in Below(tree)
      /\ tree[n].start \in Nat
  BY <1>1, TreeNodes DEF IsTree, Below
<1>3. /\ tree[n].start < Len(descriptors)
      /\ descriptors[tree[n].start + 1].length = tree[n].length
  BY DEF FilesDescribed
<1>4. /\ index \in 1 .. Len(descriptors) /\ index \in DOMAIN descriptors
      /\ descriptors[index].length = 0 /\ index - 1 = tree[n].start
      /\ Len(descriptors) \in Nat /\ DOMAIN descriptors = 1 .. Len(descriptors)
  BY <1>2, <1>3
<1> HIDE DEF index
<1>5. /\ list \in Seq(Descriptors) /\ Len(list) = Len(descriptors)
      /\ list[index].name = descriptors[index].name
      /\ list[index].offset = o /\ list[index].length = count
      /\ \A i \in DOMAIN descriptors \ {index} : list[i] = descriptors[i]
  <2>1. index \in DOMAIN descriptors /\ descriptors[index].length = 0
    BY <1>4
  <2>2. ListExtended(list, index, o, count)
    BY <2>1, ExtendedDescriptor, Zenon
  <2> HIDE DEF list
  <2> QED
    BY <2>2, Zenon DEF ListExtended
<1>6. /\ IsTree(nodes)
      /\ View(nodes) = Images(Extension(tree[n].start, o, count), View(tree))
  BY <1>1, <1>2, ExtendedViews
<1>7. /\ DOMAIN nodes = DOMAIN tree
      /\ \A k \in DOMAIN tree :
            /\ nodes[k].isDir = tree[k].isDir /\ nodes[k].parent = tree[k].parent
            /\ nodes[k].start = tree[k].start /\ nodes[k].end = tree[k].end
  <2>1. tree \in Seq(Nodes) /\ n \in DOMAIN tree /\ tree[n].length = 0
    BY <1>2
  <2>2. TreeExtended(nodes, n, o, count)
    BY <2>1, ExtendedNode, Zenon
  <2> HIDE DEF nodes
  <2> QED
    BY <2>2, Zenon DEF TreeExtended
<1> HIDE DEF nodes, list
<1>8. /\ Balances(Parse(list, Len(list)))
      /\ View(Parse(list, Len(list)).nodes) = Images(Extension(index - 1, o, count), V)
  <2>1. \A i \in 1 .. Len(descriptors) : i # index => list[i] = descriptors[i]
    BY <1>4, <1>5
  <2>2. /\ Balances(Parse(list, Len(list)))
        /\ View(Parse(list, Len(list)).nodes)
              = Images(Extension(index - 1, o, count),
                       View(Parse(descriptors, Len(descriptors)).nodes))
    BY <1>1, <1>4, <1>5, <2>1, ExtendedList2, Zenon
  <2> QED
    BY <2>2
<1>9. View(nodes) = View(Parse(list, Len(list)).nodes)
  BY <1>1, <1>4, <1>6, <1>8
<1>10. ChildrenInOrder(nodes)
  BY <1>1, <1>7 DEF ChildrenInOrder
<1>11. nodes[Root].isDir /\ nodes[Root].end = Len(list)
  BY <1>1, <1>2, <1>5, <1>7
<1>12. TreeAgrees(nodes, list)
  BY <1>6, <1>8, <1>9, <1>10, <1>11 DEF TreeAgrees
<1>13. ASSUME count = 0 PROVE Equivalent(descriptors, list)
  <2>1. ASSUME NEW i \in 1 .. Len(descriptors)
        PROVE  /\ list[i].name = descriptors[i].name /\ list[i].length = descriptors[i].length
               /\ Offset(list[i].offset, list[i].length)
                     = Offset(descriptors[i].offset, descriptors[i].length)
    <3>1. CASE i = index
      BY <1>4, <1>5, <1>13, <3>1 DEF Offset
    <3>2. CASE i # index
      BY <1>4, <1>5, <3>2
    <3> QED
      BY <3>1, <3>2
  <2> QED
    BY <1>5, <2>1 DEF Equivalent
<1> QED
  BY <1>5, <1>12, <1>13 DEF nodes, list, index

\* The list and the tree of a createX that is under way.
LEMMA CreationIs ==
  ASSUME LumpsInv, wadPc = "idle",
         NEW new \in Seq(Descriptors), NEW index \in 0 .. Len(descriptors), NEW node \in Nodes,
         \/ node.isDir = TRUE /\ Len(new) = 2
         \/ node.isDir = FALSE /\ Len(new) = 1,
         Create(new, index, node)
  PROVE  /\ Completed = tree /\ Completed' = Append(Shifted(index, Len(new), node), node)
         /\ wadPc' = "writeNum" /\ disk' = disk
         /\ PutIn(descriptors, descriptors', index, Len(new))
         /\ \A j \in 1 .. Len(new) : descriptors'[index + j] = new[j]
<1> DEFINE by == Len(new)
           list == Inserted(new, index)
<1>1. /\ descriptors' = list /\ creation' = [at |-> index, node |-> node]
      /\ wadPc' = "writeNum" /\ disk' = disk /\ tree' = tree
  BY DEF Create
<1>2. descriptors \in Seq(Descriptors) /\ creation = NoCreation /\ tree \in Seq(Nodes)
  BY DEF LumpsInv, MemoryInv, Writing
<1>3. by \in Nat \ {0}
  <2>1. by = 1 \/ by = 2
    BY Zenon
  <2>2. \A x : x = 1 \/ x = 2 => x \in Nat \ {0}
    OBVIOUS
  <2> QED
    BY <2>1, <2>2, Zenon
<1>4. /\ list \in Seq(Descriptors) /\ Len(list) = Len(descriptors) + by
      /\ \A j \in 1 .. index : list[j] = descriptors[j]
      /\ \A j \in 1 .. by : list[index + j] = new[j]
      /\ \A j \in index + 1 .. Len(descriptors) : list[j + by] = descriptors[j]
  BY <1>2, InsertedIs
<1>5. creation'.at = index /\ creation'.node = node /\ creation' # NoCreation
  BY <1>1, SomeNode DEF NoCreation
<1>6. by = IF node.isDir THEN 2 ELSE 1
  OBVIOUS
<1>7. Completed' = Append(Shifted(index, by, node), node)
  BY <1>1, <1>5, <1>6, Zenon DEF Completed, Shifted
<1>8. Completed = tree
  BY <1>2 DEF Completed
<1> HIDE DEF list, by
<1>9. PutIn(descriptors, list, index, by)
  BY <1>2, <1>3, <1>4 DEF PutIn
<1> QED
  BY <1>1, <1>4, <1>7, <1>8, <1>9 DEF by

\* A createX puts its descriptors where its node says.
LEMMA PlaceOfCreation ==
  ASSUME LumpsInv, wadPc = "idle", IsTree(tree), tree[Root].end = Len(descriptors),
         NEW parent \in 0 .. Len(tree), TakesChildren(parent)
  PROVE  IsPlace(tree, parent, Len(descriptors), InsertIndex(parent))
<1>1. tree \in Seq(Nodes)
  BY DEF IsTree
<1>2. parent \in DOMAIN tree /\ tree[parent].isDir /\ tree[parent].name.mark # "map"
  BY <1>1 DEF TakesChildren
<1> QED
  BY <1>2 DEF IsPlace, InsertIndex

LEMMA CreateFileAgrees ==
  ASSUME LumpsInv, NEW path \in Paths, CreateFile(path), TreeAgrees(tree, descriptors)
  PROVE  TreeAgrees(Completed', descriptors') /\ wadPc' = "writeNum" /\ disk' = disk
<1> DEFINE name == NameOf(path)
           parent == FindNode(ParentPath(path))
           index == InsertIndex(parent)
           new == Descriptor(name, 0, 0)
           news == << new >>
           node == FileNode(new, parent, index)
<1>1. /\ wadPc = "idle" /\ TakesChildren(parent) /\ Create(news, index, node)
      /\ name.mark = "none"
  BY DEF CreateFile, FileRefused
<1>2. /\ parent \in 0 .. Len(tree) /\ name \in Names /\ descriptors \in Seq(Descriptors)
      /\ IsTree(tree) /\ tree[Root].end = Len(descriptors)
      /\ Balances(Parse(descriptors, Len(descriptors)))
  BY <1>1, FoundIsNode, PathsAreNamed DEF TreeAgrees, LumpsInv, MemoryInv
<1> HIDE DEF name, parent
<1>3. index \in 0 .. Len(descriptors)
  BY <1>1, <1>2, IndexInList
<1>4. IsPlace(tree, parent, Len(descriptors), index)
  BY <1>1, <1>2, PlaceOfCreation
<1>5. parent \in Nat /\ index \in Nat
  BY <1>2, <1>3
<1>6. new \in Descriptors /\ new.name = name /\ new.offset = 0 /\ new.length = 0
  BY <1>2 DEF Descriptor, Descriptors
<1> HIDE DEF new, index
<1>7. news \in Seq(Descriptors) /\ Len(news) = 1 /\ news[1] = new
  BY <1>6
<1>8. /\ node \in Nodes /\ node.isDir = FALSE /\ node.start = index /\ node.parent = parent
      /\ node.name = name /\ node.offset = 0 /\ node.length = 0 /\ node.end = 0
  BY <1>2, <1>5, <1>6 DEF FileNode, Nodes
<1> HIDE DEF news, node
<1>9. /\ Completed' = Append(Shifted(index, 1, node), node)
      /\ wadPc' = "writeNum" /\ disk' = disk
      /\ PutIn(descriptors, descriptors', index, 1)
      /\ descriptors'[index + 1] = new
  <2>1. /\ Completed = tree /\ Completed' = Append(Shifted(index, Len(news), node), node)
        /\ wadPc' = "writeNum" /\ disk' = disk
        /\ PutIn(descriptors, descriptors', index, Len(news))
        /\ \A j \in 1 .. Len(news) : descriptors'[index + j] = news[j]
    BY <1>1, <1>3, <1>7, <1>8, CreationIs
  <2> QED
    BY <1>7, <2>1
<1> DEFINE here == Label(tree, parent)
           V == View(Parse(descriptors, Len(descriptors)).nodes)
<1>10. InsertsAt(V, Len(descriptors), index, here)
  BY <1>2, <1>4, PlaceIs
<1>11. PutAt(descriptors', index, new, "none")
  BY <1>1, <1>6, <1>9 DEF PutAt
<1> DEFINE other == descriptors'
<1>12. ListGrows(descriptors, other, index, 1,
                 Seen(new.name, FALSE, new.length, Offset(new.offset, new.length),
                      index, 0, here))
  <2>1. PutAt(other, index, new, "none")
    BY <1>11
  <2>2. PutIn(descriptors, other, index, 1)
    BY <1>9
  <2>3. Balances(Parse(descriptors, Len(descriptors)))
    BY <1>2
  <2> HIDE DEF other, here
  <2> QED
    BY <1>10, <2>1, <2>2, <2>3, FilePutIn, Zenon
<1>13. SeenNode(node, here)
          = Seen(new.name, FALSE, new.length, Offset(new.offset, new.length), index, 0, here)
  BY <1>6, <1>8 DEF SeenNode
<1>14. Len(other) = Len(descriptors) + 1
  BY <1>9 DEF PutIn
<1>15. TreeAgrees(Append(Shifted(index, 1, node), node), other)
  <2> DEFINE by == 1
  <2>1. ListGrows(descriptors, other, index, by, SeenNode(node, here))
    BY <1>12, <1>13
  <2>2. by \in Nat /\ by > 0 /\ Len(other) = Len(descriptors) + by
    BY <1>14
  <2> HIDE DEF other, by
  <2>3. TreeAgrees(Append(Shifted(index, by, node), node), other)
    BY <1>2, <1>4, <1>8, <2>1, <2>2, TreeGrows
  <2> QED
    BY <2>3 DEF by
<1> QED
  BY <1>9, <1>15

LEMMA CreateDirectoryAgrees ==
  ASSUME LumpsInv, NEW path \in Paths, CreateDirectory(path), TreeAgrees(tree, descriptors),
         IsNamed(path)
  PROVE  TreeAgrees(Completed', descriptors') /\ wadPc' = "writeNum" /\ disk' = disk
<1> DEFINE name == NameOf(path)
           parent == FindNode(ParentPath(path))
           index == InsertIndex(parent)
           new == Descriptor(StartName(name), 0, 0)
           close == Descriptor(EndName(name), 0, 0)
           news == << new, close >>
           node == DirNode(name, parent, index, index + 1)
<1>1. /\ wadPc = "idle" /\ TakesChildren(parent) /\ Create(news, index, node)
      /\ name.mark = "none"
  BY DEF CreateDirectory, DirectoryRefused
<1>2. /\ parent \in 0 .. Len(tree) /\ name \in Names /\ descriptors \in Seq(Descriptors)
      /\ IsTree(tree) /\ tree[Root].end = Len(descriptors)
      /\ Balances(Parse(descriptors, Len(descriptors)))
  BY <1>1, FoundIsNode, PathsAreNamed DEF TreeAgrees, LumpsInv, MemoryInv
<1>3. index \in 0 .. Len(descriptors)
  <2> HIDE DEF name, parent
  <2> QED
    BY <1>1, <1>2, IndexInList
<1>4. IsPlace(tree, parent, Len(descriptors), index)
  <2> HIDE DEF name, parent
  <2> QED
    BY <1>1, <1>2, PlaceOfCreation
<1>5. parent \in Nat /\ index \in Nat
  <2> HIDE DEF index, parent
  <2> QED
    BY <1>2, <1>3
<1>6. /\ new \in Descriptors /\ new.name = Marked("start", name.base)
      /\ close \in Descriptors /\ close.name = Marked("end", name.base)
      /\ Plain(new.name.base) = name /\ new.name.mark = "start" /\ close.name.mark = "end"
  <2>1. name.base # ""
    BY DEF IsNamed
  <2> HIDE DEF name
  <2>2. StartName(name) = Marked("start", name.base) /\ EndName(name) = Marked("end", name.base)
    BY <2>1 DEF StartName, EndName
  <2>3. /\ Marked("start", name.base) \in Names /\ Marked("end", name.base) \in Names
        /\ Plain(name.base) = name
    BY <1>1, <1>2 DEF Names, Marked, Plain
  <2>4. /\ Marked("start", name.base).base = name.base
        /\ Marked("start", name.base).mark = "start" /\ Marked("end", name.base).mark = "end"
    BY DEF Marked
  <2> QED
    BY <2>2, <2>3, <2>4 DEF Descriptor, Descriptors
<1> HIDE DEF name, parent, new, close, index
<1>7. news \in Seq(Descriptors) /\ Len(news) = 2 /\ news[1] = new /\ news[2] = close
  BY <1>6
<1>8. /\ node \in Nodes /\ node.isDir = TRUE /\ node.start = index /\ node.parent = parent
      /\ node.name = name /\ node.offset = 0 /\ node.length = 0 /\ node.end = index + 1
  BY <1>2, <1>5 DEF DirNode, Nodes
<1> HIDE DEF news, node
<1>9. /\ Completed' = Append(Shifted(index, 2, node), node)
      /\ wadPc' = "writeNum" /\ disk' = disk
      /\ PutIn(descriptors, descriptors', index, 2)
      /\ descriptors'[index + 1] = new /\ descriptors'[index + 2] = close
  <2>1. /\ Completed = tree /\ Completed' = Append(Shifted(index, Len(news), node), node)
        /\ wadPc' = "writeNum" /\ disk' = disk
        /\ PutIn(descriptors, descriptors', index, Len(news))
        /\ \A j \in 1 .. Len(news) : descriptors'[index + j] = news[j]
    BY <1>1, <1>3, <1>7, <1>8, CreationIs
  <2> QED
    BY <1>7, <2>1
<1> DEFINE here == Label(tree, parent)
           V == View(Parse(descriptors, Len(descriptors)).nodes)
<1>10. InsertsAt(V, Len(descriptors), index, here)
  BY <1>2, <1>4, PlaceIs
<1>11. PutAt(descriptors', index, new, "start") /\ PutAt(descriptors', index + 1, close, "end")
  <2>1. (index + 1) + 1 = index + 2
    BY <1>5
  <2> QED
    BY <1>6, <1>9, <2>1 DEF PutAt
<1> DEFINE other == descriptors'
<1>12. ListGrows(descriptors, other, index, 2,
                 Seen(Plain(new.name.base), TRUE, 0, 0, index, index + 1, here))
  <2>1. PutAt(other, index, new, "start")
    BY <1>11
  <2>2. PutAt(other, index + 1, close, "end")
    BY <1>11
  <2>3. PutIn(descriptors, other, index, 2)
    BY <1>9
  <2>4. Balances(Parse(descriptors, Len(descriptors)))
    BY <1>2
  <2> HIDE DEF other, here
  <2> QED
    BY <1>10, <2>1, <2>2, <2>3, <2>4, DirectoryPutIn, Zenon
<1>13. SeenNode(node, here) = Seen(Plain(new.name.base), TRUE, 0, 0, index, index + 1, here)
  BY <1>6, <1>8 DEF SeenNode, Offset
<1>14. Len(other) = Len(descriptors) + 2
  BY <1>9 DEF PutIn
<1>15. TreeAgrees(Append(Shifted(index, 2, node), node), other)
  <2> DEFINE by == 2
  <2>1. ListGrows(descriptors, other, index, by, SeenNode(node, here))
    BY <1>12, <1>13
  <2>2. by \in Nat /\ by > 0 /\ Len(other) = Len(descriptors) + by
    BY <1>14
  <2> HIDE DEF other, by
  <2>3. TreeAgrees(Append(Shifted(index, by, node), node), other)
    BY <1>2, <1>4, <1>8, <2>1, <2>2, TreeGrows
  <2> QED
    BY <2>3 DEF by
<1> QED
  BY <1>9, <1>15

-----------------------------------------------------------------------------
(* The invariant of a reload                                               *)

\* Once the running call is over, the tree is one parse makes of the list.
TreeInv == wadPc \in {"idle"} \union Writing => TreeAgrees(Completed, descriptors)

\* Whatever is whole on disk can be loaded, and leaves no directory open.
FileInv == IsWhole(disk) => Balances(Parse(ListOf(disk), disk.num))

\* Between calls the list on disk is the one in memory.
IdleInv == wadPc = "idle" => IsWhole(disk) /\ Equivalent(ListOf(disk), descriptors)

\* The descriptors writeDescriptors has written are whole.
PartsInv == wadPc = "writeList" =>
                \A i \in 1 .. written - 1 : IsDescriptor(disk, off + (i - 1) * DescSize)

ReloadInv == TreeInv /\ FileInv /\ IdleInv /\ PartsInv

LEMMA EquivalentSelf ==
  ASSUME NEW list \in Seq(Descriptors)
  PROVE  Equivalent(list, list)
BY DEF Equivalent

LEMMA EquivalentBoth ==
  ASSUME NEW list, NEW other, NEW third,
         Equivalent(list, other), Equivalent(other, third)
  PROVE  Equivalent(list, third)
BY DEF Equivalent

\* The steps that leave disk and list alone.
LEMMA ReloadKept ==
  ASSUME ReloadInv, disk' = disk,
         UNCHANGED <<descriptors, tree, creation, off, written, wadPc>>
  PROVE  ReloadInv'
<1>1. Completed' = Completed
  BY DEF Completed, Shifted
<1>2. TreeInv' /\ FileInv' /\ IdleInv' /\ PartsInv'
  BY <1>1 DEF ReloadInv, TreeInv, FileInv, IdleInv, PartsInv
<1> QED
  BY <1>2 DEF ReloadInv

LEMMA ReloadDown ==
  ASSUME ReloadInv, disk' = disk, wadPc' \in {"down", "crashed"}
  PROVE  ReloadInv'
<1>1. TreeInv' /\ FileInv' /\ IdleInv' /\ PartsInv'
  BY DEF ReloadInv, TreeInv, FileInv, IdleInv, PartsInv, Writing
<1> QED
  BY <1>1 DEF ReloadInv

\* A disk that is whole after a step was whole before it, with the same list, or
\* has just got the last descriptor of the list in memory.
DiskStep ==
    IsWhole(disk') =>
       \/ IsWhole(disk) /\ ListOf(disk') = ListOf(disk) /\ disk'.num = disk.num
       \/ /\ wadPc = "writeList" /\ wadPc' = "writeList"
          /\ ListOf(disk') = descriptors /\ disk'.num = Len(descriptors)

LEMMA FileKept == ASSUME ReloadInv, DiskStep PROVE FileInv'
<1>1. CASE wadPc = "writeList" /\ ListOf(disk') = descriptors /\ disk'.num = Len(descriptors)
  <2>1. Balances(Parse(descriptors, Len(descriptors)))
    BY <1>1 DEF ReloadInv, TreeInv, TreeAgrees, Writing
  <2> QED
    BY <1>1, <2>1 DEF FileInv
<1>2. CASE IsWhole(disk) /\ ListOf(disk') = ListOf(disk) /\ disk'.num = disk.num
  BY <1>2 DEF ReloadInv, FileInv
<1>3. CASE ~ IsWhole(disk')
  BY <1>3 DEF FileInv
<1> QED
  BY <1>1, <1>2, <1>3 DEF DiskStep

LEMMA InitReload == ASSUME BalancedDisks, Init PROVE ReloadInv
<1>1. wadPc = "down" /\ disk \in InitialDisks
  BY DEF Init
<1>2. FileInv
  BY <1>1 DEF FileInv, BalancedDisks
<1>3. TreeInv /\ IdleInv /\ PartsInv
  BY <1>1 DEF TreeInv, IdleInv, PartsInv, Writing
<1> QED
  BY <1>2, <1>3 DEF ReloadInv

LEMMA LoadWholeReload == ASSUME LumpsInv, ReloadInv, LoadWhole PROVE ReloadInv'
<1> DEFINE list == ListOf(disk)
<1>1. IsDisk(disk) /\ IsWhole(disk)
  BY DEF LumpsInv, DiskInv, LoadWhole, Load, ListIsWhole
<1>2. list \in Seq(Descriptors) /\ Len(list) = disk.num
  BY <1>1, ListIsTyped
<1>3. Balances(Parse(list, Len(list)))
  BY <1>1, <1>2 DEF ReloadInv, FileInv
<1>4. /\ descriptors' = list /\ tree' = Parse(list, Len(list)).nodes /\ disk' = disk
      /\ creation' = creation
      /\ wadPc' = IF Parse(list, Len(list)).failed THEN "crashed" ELSE "idle"
  BY <1>2, Zenon DEF LoadWhole, Load, ListOnDisk
<1>5. creation = NoCreation
  BY DEF LumpsInv, MemoryInv, LoadWhole, Load, Writing
<1>6. Completed' = tree' /\ wadPc' = "idle"
  BY <1>3, <1>4, <1>5 DEF Completed, Balances
<1> HIDE DEF list
<1>7. TreeAgrees(Parse(list, Len(list)).nodes, list) /\ Equivalent(list, list)
  BY <1>2, <1>3, ParseAgrees, EquivalentSelf
<1>8. TreeInv'
  BY <1>4, <1>6, <1>7 DEF TreeInv
<1>9. FileInv'
  BY <1>4 DEF ReloadInv, FileInv
<1>10. IdleInv'
  BY <1>1, <1>4, <1>7 DEF IdleInv, list
<1>11. PartsInv'
  BY <1>6 DEF PartsInv
<1> QED
  BY <1>8, <1>9, <1>10, <1>11 DEF ReloadInv

LEMMA CreationReload ==
  ASSUME ReloadInv, wadPc' = "writeNum", disk' = disk, TreeAgrees(Completed', descriptors')
  PROVE  ReloadInv'
<1>1. TreeInv' /\ FileInv' /\ IdleInv' /\ PartsInv'
  BY DEF ReloadInv, TreeInv, FileInv, IdleInv, PartsInv
<1> QED
  BY <1>1 DEF ReloadInv

\* Between calls the tree agrees with the list.
LEMMA IdleTree ==
  ASSUME LumpsInv, ReloadInv, wadPc = "idle"
  PROVE  TreeAgrees(tree, descriptors) /\ Completed = tree
<1>1. creation = NoCreation
  BY DEF LumpsInv, MemoryInv, Writing
<1>2. Completed = tree
  BY <1>1 DEF Completed
<1> QED
  BY <1>2 DEF ReloadInv, TreeInv

LEMMA CreateFileReload ==
  ASSUME LumpsInv, ReloadInv, NEW path \in Paths, CreateFile(path)
  PROVE  ReloadInv'
<1>1. wadPc = "idle"
  BY DEF CreateFile
<1>2. TreeAgrees(tree, descriptors)
  BY <1>1, IdleTree
<1>3. TreeAgrees(Completed', descriptors') /\ wadPc' = "writeNum" /\ disk' = disk
  BY <1>2, CreateFileAgrees
<1> QED
  BY <1>3, CreationReload

LEMMA CreateDirectoryReload ==
  ASSUME DirectoriesNamed, LumpsInv, ReloadInv, NEW path \in Paths, CreateDirectory(path)
  PROVE  ReloadInv'
<1>1. wadPc = "idle" /\ NameOf(path).base \in ShortBases
  BY DEF CreateDirectory, DirectoryRefused
<1>2. TreeAgrees(tree, descriptors) /\ IsNamed(path)
  BY <1>1, IdleTree DEF DirectoriesNamed
<1>3. TreeAgrees(Completed', descriptors') /\ wadPc' = "writeNum" /\ disk' = disk
  BY <1>2, CreateDirectoryAgrees
<1> QED
  BY <1>3, CreationReload

LEMMA NumReachesDisk == ASSUME LumpsInv, NumReaches PROVE DiskStep
<1>1. /\ wadPc = "writeNum" /\ wadPc' = "writeOff" /\ disk' = [disk EXCEPT !.num = num]
      /\ UNCHANGED <<num, off>>
  BY DEF NumReaches, memory
<1>2. disk.num = num \/ disk.off = off
  BY <1>1 DEF LumpsInv, DiskInv
<1>3. disk'.num = num /\ disk'.off = disk.off /\ disk'.cells = disk.cells
  <2>1. disk' = Disk(num, disk.off, disk.cells)
    BY <1>1, DiskIsDisk, DiskReplaced
  <2> QED
    BY <2>1 DEF Disk
<1>4. disk.num \in Nat /\ disk.off \in Nat
  BY DiskIsDisk
<1>5. CASE disk.num = num
  <2>1. disk'.num = disk.num /\ disk'.off = disk.off /\ disk'.cells = disk.cells
    BY <1>3, <1>5
  <2>2. IsWhole(disk') => IsWhole(disk) /\ ListOf(disk) = ListOf(disk')
    BY <1>4, <2>1, BytesOnly
  <2> QED
    BY <2>1, <2>2 DEF DiskStep
<1>6. CASE disk.off = off
  <2>1. LumpsInv'
    BY NumReachesInv
  <2>2. /\ num' \in Nat /\ num' > 0 /\ off' \in Nat
        /\ NoPartFrom(disk', off' + num' * DescSize - 1)
    BY <1>1, <2>1 DEF LumpsInv, MemoryInv, DiskInv, Writing
  <2>3. disk'.num = num' /\ disk'.off = off'
    BY <1>1, <1>3, <1>6
  <2>4. ~ IsWhole(disk')
    BY <2>2, <2>3, NotWhole
  <2> QED
    BY <2>4 DEF DiskStep
<1> QED
  BY <1>2, <1>5, <1>6

LEMMA NumReachesReload == ASSUME LumpsInv, ReloadInv, NumReaches PROVE ReloadInv'
<1>1. /\ wadPc = "writeNum" /\ wadPc' = "writeOff"
      /\ UNCHANGED <<num, off, descriptors, tree, creation>>
  BY DEF NumReaches, memory
<1>2. Completed' = Completed
  BY <1>1 DEF Completed, Shifted
<1>3. TreeInv'
  BY <1>1, <1>2 DEF ReloadInv, TreeInv, Writing
<1>4. FileInv'
  BY NumReachesDisk, FileKept
<1>5. IdleInv' /\ PartsInv'
  BY <1>1 DEF IdleInv, PartsInv
<1> QED
  BY <1>3, <1>4, <1>5 DEF ReloadInv

LEMMA OffReachesDisk == ASSUME LumpsInv, OffReaches PROVE DiskStep
<1>1. wadPc' = "writeList" /\ written' = 1 /\ UNCHANGED num
  BY DEF OffReaches, memory
<1>2. LumpsInv'
  BY OffReachesInv
<1>3. /\ num' \in Nat /\ num' > 0 /\ off' \in Nat /\ written' <= num'
      /\ disk'.num = num' /\ disk'.off = off'
      /\ NoPartFrom(disk', off' + num' * DescSize - 1)
  BY <1>1, <1>2 DEF LumpsInv, MemoryInv, DiskInv, Writing
<1>4. ~ IsWhole(disk')
  BY <1>3, NotWhole
<1> QED
  BY <1>4 DEF DiskStep

LEMMA OffReachesReload == ASSUME LumpsInv, ReloadInv, OffReaches PROVE ReloadInv'
<1>1. /\ wadPc = "writeOff" /\ wadPc' = "writeList" /\ written' = 1
      /\ UNCHANGED <<num, off, descriptors, tree, creation>>
  BY DEF OffReaches, memory
<1>2. Completed' = Completed
  BY <1>1 DEF Completed, Shifted
<1>3. TreeInv'
  BY <1>1, <1>2 DEF ReloadInv, TreeInv, Writing
<1>4. FileInv'
  BY OffReachesDisk, FileKept
<1>5. IdleInv' /\ PartsInv'
  BY <1>1 DEF IdleInv, PartsInv
<1> QED
  BY <1>3, <1>4, <1>5 DEF ReloadInv

\* A descriptor that is put on disk is whole, and so are the ones before it.
LEMMA PartsWritten ==
  ASSUME NEW d, NEW e, NEW cell \in Nat, NEW w \in Descriptors,
         DOMAIN e.cells = DOMAIN d.cells \union (cell .. cell + DescSize - 1),
         \A c \in cell .. cell + DescSize - 1 : e.cells[c] = Part(w, c - cell),
         \A c \in DOMAIN d.cells \ (cell .. cell + DescSize - 1) : e.cells[c] = d.cells[c]
  PROVE  /\ IsDescriptor(e, cell)
         /\ \A before \in Nat :
               before + DescSize <= cell /\ IsDescriptor(d, before) => IsDescriptor(e, before)
<1> DEFINE parts == cell .. cell + DescSize - 1
<1>1. DescSize \in Nat /\ DescSize > 0
  BY SizesAssumption
<1>2. cell \in parts /\ cell - cell = 0 /\ \A k \in 0 .. DescSize - 1 : cell + k \in parts
  BY <1>1
<1>3. e.cells[cell] = Part(w, 0)
  BY <1>2
<1>4. e.cells[cell].desc = w
  BY <1>3, CellKinds
<1>5. ASSUME NEW k \in 0 .. DescSize - 1
      PROVE  /\ {cell, cell + k} \subseteq DOMAIN e.cells
             /\ \A c \in {cell, cell + k} : "desc" \in DOMAIN e.cells[c]
             /\ e.cells[cell + k] = Part(w, k)
  <2>1. (cell + k) - cell = k
    BY <1>1
  <2>2. e.cells[cell + k] = Part(w, k)
    BY <1>2, <2>1
  <2>3. "desc" \in DOMAIN e.cells[cell + k] /\ "desc" \in DOMAIN e.cells[cell]
    BY <1>3, <2>2, CellKinds
  <2>4. {cell, cell + k} \subseteq DOMAIN e.cells
    BY <1>2
  <2> QED
    BY <2>2, <2>3, <2>4
<1>6. IsDescriptor(e, cell)
  BY <1>4, <1>5 DEF IsDescriptor
<1>7. ASSUME NEW before \in Nat, before + DescSize <= cell, IsDescriptor(d, before)
      PROVE  IsDescriptor(e, before)
  <2>1. ASSUME NEW k \in 0 .. DescSize - 1, NEW c \in {before, before + k}
        PROVE  c \in DOMAIN d.cells /\ c \in DOMAIN e.cells /\ e.cells[c] = d.cells[c]
    <3>1. c \in DOMAIN d.cells
      BY <1>7, <2>1 DEF IsDescriptor
    <3>2. c < cell
      BY <1>1, <1>7, <2>1
    <3>3. c \notin parts
      BY <3>2, <1>1, <2>1
    <3> QED
      BY <3>1, <3>3
  <2>2. 0 \in 0 .. DescSize - 1
    BY <1>1
  <2>3. e.cells[before] = d.cells[before]
    BY <2>1, <2>2
  <2> QED
    BY <1>7, <2>1, <2>3, Zenon DEF IsDescriptor
<1> QED
  BY <1>4, <1>6, <1>7

LEMMA DescriptorReachesDisk ==
  ASSUME LumpsInv, DescriptorReaches
  PROVE  DiskStep
<1>1. /\ wadPc = "writeList" /\ wadPc' = "writeList" /\ written <= Len(descriptors)
      /\ written' = written + 1 /\ UNCHANGED <<num, off, descriptors>>
  BY DEF DescriptorReaches, WithParts, DescriptorCell, ListStart, memory
<1>2. /\ num \in Nat /\ off \in Nat /\ written \in 1 .. num
      /\ num = Len(descriptors) /\ descriptors \in Seq(Descriptors)
  BY <1>1 DEF LumpsInv, MemoryInv, DiskInv, Writing
<1>3. LumpsInv'
  BY DescriptorReachesInv
<1>4. /\ disk'.num = num /\ disk'.off = off
      /\ \A i \in 1 .. written : disk'.cells[off + (i - 1) * DescSize].desc = descriptors[i]
      /\ written < num => NoPartFrom(disk', off + num * DescSize - 1)
  <2>1. /\ disk'.num = num' /\ disk'.off = off' /\ ListWritten(written - 1)'
        /\ written' <= num' => NoPartFrom(disk', off' + num' * DescSize - 1)
    BY <1>1, <1>3 DEF LumpsInv, DiskInv
  <2>2. \A i \in 1 .. written' - 1 :
            disk'.cells[off' + (i - 1) * DescSize].desc = descriptors'[i]
    BY <2>1, Zenon DEF ListWritten
  <2>3. written' - 1 = written /\ (written < num => written' <= num')
    BY <1>1, <1>2
  <2>4. \A i \in 1 .. written : disk'.cells[off + (i - 1) * DescSize].desc = descriptors[i]
    <3>1. 1 .. written' - 1 = 1 .. written
      BY <2>3
    <3>2. off' = off /\ descriptors' = descriptors
      BY <1>1
    <3> QED
      BY <2>2, <3>1, <3>2, Zenon
  <2>5. written < num => NoPartFrom(disk', off + num * DescSize - 1)
    BY <1>1, <2>1, <2>3
  <2>6. disk'.num = num /\ disk'.off = off
    BY <1>1, <2>1
  <2> QED
    BY <2>4, <2>5, <2>6, Zenon
<1>5. CASE written < num
  <2>1. disk'.num \in Nat /\ disk'.num > 0 /\ disk'.off \in Nat
    BY <1>2, <1>4
  <2>2. NoPartFrom(disk', disk'.off + disk'.num * DescSize - 1)
    BY <1>4, <1>5
  <2>3. ~ IsWhole(disk')
    BY <2>1, <2>2, NotWhole
  <2> QED
    BY <2>3 DEF DiskStep
<1>6. CASE written = num
  <2>1. descriptors = [i \in 1 .. num |-> descriptors[i]]
    BY <1>2
  <2>2. ListOf(disk') = descriptors
    BY <1>4, <1>6, <2>1 DEF ListOf
  <2> QED
    BY <1>1, <1>2, <1>4, <2>2 DEF DiskStep
<1> QED
  BY <1>2, <1>5, <1>6

LEMMA DescriptorReachesReload == ASSUME LumpsInv, ReloadInv, DescriptorReaches PROVE ReloadInv'
<1> DEFINE cell == off + (written - 1) * DescSize
           parts == cell .. cell + DescSize - 1
           cells == [c \in DOMAIN disk.cells \union parts |->
                        IF c \in parts THEN Part(descriptors[written], c - cell)
                                       ELSE disk.cells[c]]
<1>1. /\ wadPc = "writeList" /\ wadPc' = "writeList" /\ written <= Len(descriptors)
      /\ disk' = [disk EXCEPT !.cells = cells] /\ written' = written + 1
      /\ UNCHANGED <<num, off, descriptors, tree, creation>>
  BY DEF DescriptorReaches, WithParts, DescriptorCell, ListStart, memory
<1>2. /\ num \in Nat /\ off \in Nat /\ written \in 1 .. num
      /\ num = Len(descriptors) /\ descriptors \in Seq(Descriptors)
  BY <1>1 DEF LumpsInv, MemoryInv, DiskInv, Writing
<1>5. disk'.cells = cells
  <2> HIDE DEF cells
  <2>1. [disk EXCEPT !.cells = cells] = Disk(disk.num, disk.off, cells)
    BY DiskIsDisk, DiskReplaced, Zenon
  <2>2. disk' = Disk(disk.num, disk.off, cells)
    BY <1>1, <2>1, Zenon
  <2> QED
    BY <2>2 DEF Disk
<1>6. Completed' = Completed
  BY <1>1 DEF Completed, Shifted
<1>7. TreeInv'
  BY <1>1, <1>6 DEF ReloadInv, TreeInv, Writing
<1>8. IdleInv'
  BY <1>1 DEF IdleInv
<1>9. FileInv'
  <2> HIDE DEF cells
  <2> QED
    BY DescriptorReachesDisk, FileKept
<1>10. PartsInv'
  <2>1. ASSUME NEW i \in 1 .. written PROVE IsDescriptor(disk', off + (i - 1) * DescSize)
    <3>1. /\ written - 1 \in Nat /\ i - 1 \in Nat /\ DescSize \in Nat
          /\ (written - 1) * DescSize \in Nat /\ (i - 1) * DescSize \in Nat
          /\ i < written => (i - 1) * DescSize + DescSize <= (written - 1) * DescSize
      <4>1. written - 1 \in Nat /\ i - 1 \in Nat /\ (i < written => i - 1 < written - 1)
        BY <1>2
      <4> QED
        BY <4>1, SizeAdds
    <3>2. /\ cell \in Nat /\ off + (i - 1) * DescSize \in Nat
          /\ i < written => off + (i - 1) * DescSize + DescSize <= cell
      BY <1>2, <3>1
    <3> DEFINE w == descriptors[written]
               before == off + (i - 1) * DescSize
    <3>3. w \in Descriptors /\ (i = written => before = cell)
      BY <1>2
    <3>4. i < written => IsDescriptor(disk, before)
      <4>1. i < written => i \in 1 .. written - 1
        BY <1>2
      <4> QED
        BY <1>1, <4>1 DEF ReloadInv, PartsInv
    <3>5. cell \in Nat /\ before \in Nat /\ (i < written => before + DescSize <= cell)
      BY <3>2
    <3> HIDE DEF cell, w, before
    <3>6. /\ DOMAIN cells = DOMAIN disk.cells \union parts
          /\ \A c \in parts : cells[c] = Part(w, c - cell)
          /\ \A c \in DOMAIN disk.cells \ parts : cells[c] = disk.cells[c]
      BY DEF w
    <3> HIDE DEF cells
    <3>7. /\ IsDescriptor(disk', cell)
          /\ \A b \in Nat :
               b + DescSize <= cell /\ IsDescriptor(disk, b) => IsDescriptor(disk', b)
      <4>1. /\ DOMAIN disk'.cells = DOMAIN disk.cells \union parts
            /\ \A c \in parts : disk'.cells[c] = Part(w, c - cell)
            /\ \A c \in DOMAIN disk.cells \ parts : disk'.cells[c] = disk.cells[c]
        BY <1>5, <3>6
      <4> DEFINE d == disk
                 e == disk'
      <4>2. /\ DOMAIN e.cells = DOMAIN d.cells \union parts
            /\ \A c \in parts : e.cells[c] = Part(w, c - cell)
            /\ \A c \in DOMAIN d.cells \ parts : e.cells[c] = d.cells[c]
        BY <4>1
      <4> HIDE DEF d, e
      <4>3. /\ IsDescriptor(e, cell)
            /\ \A b \in Nat :
                 b + DescSize <= cell /\ IsDescriptor(d, b) => IsDescriptor(e, b)
        BY <3>3, <3>5, <4>2, PartsWritten
      <4> QED
        BY <4>3 DEF d, e
    <3>8. CASE i = written
      BY <3>3, <3>7, <3>8 DEF before
    <3>9. CASE i < written
      BY <3>4, <3>5, <3>7, <3>9 DEF before
    <3> QED
      BY <1>2, <3>8, <3>9
  <2>2. written' - 1 = written
    BY <1>1, <1>2
  <2> HIDE DEF cell, cells
  <2> QED
    BY <1>1, <2>1, <2>2 DEF PartsInv
<1> QED
  BY <1>7, <1>8, <1>9, <1>10 DEF ReloadInv

LEMMA CallReturnReload == ASSUME LumpsInv, ReloadInv, CallReturn PROVE ReloadInv'
<1>1. /\ wadPc = "writeList" /\ wadPc' = "idle" /\ tree' = Completed
      /\ creation' = NoCreation /\ written > Len(descriptors)
      /\ UNCHANGED <<disk, num, off, descriptors>>
  BY DEF CallReturn
<1>2. /\ num \in Nat /\ num = Len(descriptors) /\ descriptors \in Seq(Descriptors)
      /\ disk.num = num /\ disk.off = off /\ written \in 1 .. num + 1
      /\ ListWritten(written - 1)
  BY <1>1 DEF LumpsInv, MemoryInv, DiskInv, Writing
<1>3. written - 1 = num
  BY <1>1, <1>2
<1>4. Completed' = tree'
  BY <1>1 DEF Completed
<1>5. TreeAgrees(Completed, descriptors)
  BY <1>1 DEF ReloadInv, TreeInv, Writing
<1>6. TreeInv'
  <2> DEFINE new == Completed
  <2>1. Completed' = new /\ TreeAgrees(new, descriptors) /\ descriptors' = descriptors
    BY <1>1, <1>4, <1>5
  <2> HIDE DEF new
  <2> QED
    BY <2>1 DEF TreeInv
<1>7. FileInv'
  BY <1>1 DEF ReloadInv, FileInv
<1>8. IsWhole(disk)
  <2> SUFFICES ASSUME NEW i \in 0 .. disk.num - 1
               PROVE  IsDescriptor(disk, disk.off + i * DescSize)
    BY DEF IsWhole
  <2>1. i + 1 \in 1 .. written - 1 /\ (i + 1) - 1 = i
    BY <1>2, <1>3
  <2>2. IsDescriptor(disk, off + ((i + 1) - 1) * DescSize)
    BY <1>1, <2>1 DEF ReloadInv, PartsInv
  <2> QED
    BY <1>2, <2>1, <2>2
<1>9. ListOf(disk) = descriptors
  <2>1. \A i \in 1 .. num : disk.cells[off + (i - 1) * DescSize].desc = descriptors[i]
    BY <1>2, <1>3 DEF ListWritten
  <2>2. descriptors = [i \in 1 .. num |-> descriptors[i]]
    BY <1>2
  <2> QED
    BY <1>2, <2>1, <2>2 DEF ListOf
<1>10. Equivalent(descriptors, descriptors)
  BY <1>2, EquivalentSelf
<1>11. IdleInv'
  BY <1>1, <1>8, <1>9, <1>10 DEF IdleInv
<1>12. PartsInv'
  BY <1>1 DEF PartsInv
<1> QED
  BY <1>6, <1>7, <1>11, <1>12 DEF ReloadInv

\* A disk bytes have been written to.
LEMMA DiskWritten ==
  ASSUME LumpsInv, NEW count \in Nat, NEW buffer, NEW first \in Nat,
         disk' = [disk EXCEPT !.cells = WrittenCells(count, buffer, first)]
  PROVE  /\ disk'.num = disk.num /\ disk'.off = disk.off
         /\ IsWhole(disk') => IsWhole(disk) /\ ListOf(disk) = ListOf(disk')
         /\ count = 0 /\ IsWhole(disk) => IsWhole(disk') /\ ListOf(disk') = ListOf(disk)
<1> DEFINE cells == WrittenCells(count, buffer, first)
           new == first .. first + count - 1
<1>1. /\ DOMAIN cells = DOMAIN disk.cells \union new
      /\ \A c \in new : cells[c] = Byte(buffer[c - first + 1])
      /\ \A c \in DOMAIN disk.cells \ new : cells[c] = disk.cells[c]
  BY DEF WrittenCells
<1> HIDE DEF cells
<1>2. disk'.num = disk.num /\ disk'.off = disk.off /\ disk'.cells = cells
  <2>1. [disk EXCEPT !.cells = cells] = Disk(disk.num, disk.off, cells)
    BY DiskIsDisk, DiskReplaced, Zenon
  <2>2. disk' = Disk(disk.num, disk.off, cells)
    BY <2>1, Zenon DEF cells
  <2> QED
    BY <2>2 DEF Disk
<1>3. disk.num \in Nat /\ disk.off \in Nat
  BY DiskIsDisk
<1>4. ASSUME NEW c \in new PROVE "desc" \notin DOMAIN cells[c]
  <2> DEFINE b == buffer[c - first + 1]
  <2>1. cells[c] = Byte(b)
    BY <1>1
  <2> HIDE DEF b
  <2> QED
    BY <2>1, CellKinds
<1>5. \A c \in DOMAIN disk'.cells :
          "desc" \in DOMAIN disk'.cells[c] =>
             c \in DOMAIN disk.cells /\ disk.cells[c] = disk'.cells[c]
  BY <1>1, <1>2, <1>4
<1>6. IsWhole(disk') => IsWhole(disk) /\ ListOf(disk) = ListOf(disk')
  BY <1>2, <1>3, <1>5, BytesOnly
<1>7. ASSUME count = 0, IsWhole(disk)
      PROVE  IsWhole(disk') /\ ListOf(disk') = ListOf(disk)
  <2>1. new = {}
    BY <1>7
  <2> DEFINE d == disk'
             e == disk
  <2>2. \A c \in DOMAIN e.cells :
            "desc" \in DOMAIN e.cells[c] => c \in DOMAIN d.cells /\ d.cells[c] = e.cells[c]
    BY <1>1, <1>2, <2>1
  <2>3. d.num \in Nat /\ d.off \in Nat /\ e.num = d.num /\ e.off = d.off /\ IsWhole(e)
    BY <1>2, <1>3, <1>7
  <2> HIDE DEF d, e
  <2>4. IsWhole(d) /\ ListOf(d) = ListOf(e)
    BY <2>2, <2>3, BytesOnly
  <2> QED
    BY <2>4 DEF d, e
<1> QED
  BY <1>2, <1>6, <1>7

LEMMA WriteToFileReload ==
  ASSUME LumpsInv, ReloadInv,
         NEW path \in Paths, NEW buffer \in Buffers, NEW offset \in WriteOffsets,
         WriteToFile(path, buffer, offset)
  PROVE  ReloadInv'
<1>1. PICK n \in DOMAIN tree, count \in Nat : Extends(n, count, buffer, off + offset)
  BY WrittenIs, Zenon
<1> DEFINE first == off + offset
           nodes == ExtendedTree(n, off, count)
           list == ExtendedList(tree[n].start + 1, off, count)
<1>2. /\ wadPc = "idle" /\ tree[n].isDir = FALSE /\ tree[n].length = 0
      /\ disk' = [disk EXCEPT !.cells = WrittenCells(count, buffer, first)]
      /\ tree' = nodes /\ descriptors' = list
      /\ count = 0 => wadPc' = "idle"
      /\ count # 0 => wadPc' = "writeNum"
      /\ creation' = creation
  BY <1>1, Zenon DEF Extends
<1>3. /\ descriptors \in Seq(Descriptors) /\ off \in Nat /\ offset \in Nat
      /\ creation = NoCreation
  BY <1>2, SizesAssumption DEF LumpsInv, MemoryInv, Writing
<1>4. TreeAgrees(tree, descriptors) /\ Completed = tree
  BY <1>2, IdleTree
<1>5. FilesDescribed(tree, descriptors, Len(descriptors))
  BY <1>4 DEF LumpsInv, MemoryInv
<1>6. /\ TreeAgrees(nodes, list) /\ list \in Seq(Descriptors)
      /\ count = 0 => Equivalent(descriptors, list)
  BY <1>2, <1>3, <1>4, <1>5, ExtendedAgrees
<1>7. /\ disk'.num = disk.num /\ disk'.off = disk.off
      /\ IsWhole(disk') => IsWhole(disk) /\ ListOf(disk) = ListOf(disk')
      /\ count = 0 /\ IsWhole(disk) => IsWhole(disk') /\ ListOf(disk') = ListOf(disk)
  <2>1. first \in Nat
    BY <1>3
  <2> HIDE DEF first
  <2> QED
    BY <1>2, <2>1, DiskWritten
<1> HIDE DEF nodes, list
<1>8. Completed' = nodes
  BY <1>2, <1>3 DEF Completed
<1>9. TreeInv'
  BY <1>2, <1>6, <1>8 DEF TreeInv
<1>10. FileInv'
  BY <1>7 DEF ReloadInv, FileInv
<1>11. IdleInv'
  <2>1. CASE count = 0
    <3>1. IsWhole(disk) /\ Equivalent(ListOf(disk), descriptors)
      BY <1>2 DEF ReloadInv, IdleInv
    <3>2. IsWhole(disk') /\ ListOf(disk') = ListOf(disk)
      BY <1>7, <2>1, <3>1
    <3>3. Equivalent(ListOf(disk), list)
      BY <1>6, <2>1, <3>1, EquivalentBoth
    <3> QED
      BY <1>2, <3>2, <3>3 DEF IdleInv
  <2>2. CASE count # 0
    BY <1>2, <2>2 DEF IdleInv
  <2> QED
    BY <2>1, <2>2
<1>12. PartsInv'
  <2>1. wadPc' # "writeList"
    BY <1>2
  <2> QED
    BY <2>1 DEF PartsInv
<1> QED
  BY <1>9, <1>10, <1>11, <1>12 DEF ReloadInv

LEMMA NextReload ==
  ASSUME DirectoriesNamed, LumpsInv, ReloadInv, [Sound]_vars
  PROVE  ReloadInv'
<1>1. CASE LoadWhole
  BY <1>1, LoadWholeReload
<1>2. CASE GoDown
  <2>1. disk' = disk /\ wadPc' = "down"
    BY <1>2 DEF GoDown
  <2> QED
    BY <2>1, ReloadDown
<1>3. ASSUME NEW path \in Paths, CreateDirectory(path) PROVE ReloadInv'
  BY <1>3, CreateDirectoryReload
<1>4. ASSUME NEW path \in Paths, CreateFile(path) PROVE ReloadInv'
  BY <1>4, CreateFileReload
<1>5. CASE UNCHANGED vars
  BY <1>5, ReloadKept DEF vars, memory
<1>6. ASSUME NEW path \in Paths, CreateNothing(path) PROVE ReloadInv'
  BY <1>5, <1>6 DEF CreateNothing
<1>7. ASSUME NEW path \in Paths, WriteToNothing(path) PROVE ReloadInv'
  <2>1. disk' = disk /\ wadPc' = "crashed"
    BY <1>7 DEF WriteToNothing
  <2> QED
    BY <2>1, ReloadDown
<1>8. ASSUME NEW path \in Paths, RefuseWrite(path) PROVE ReloadInv'
  BY <1>5, <1>8 DEF RefuseWrite
<1>9. ASSUME NEW path \in Paths, NEW buffer \in Buffers, NEW offset \in WriteOffsets,
             WriteToFile(path, buffer, offset)
      PROVE  ReloadInv'
  BY <1>9, WriteToFileReload
<1>10. CASE NumReaches
  BY <1>10, NumReachesReload
<1>11. CASE OffReaches
  BY <1>11, OffReachesReload
<1>12. CASE DescriptorReaches
  BY <1>12, DescriptorReachesReload
<1>13. CASE CallReturn
  BY <1>13, CallReturnReload
<1> QED
  BY <1>1, <1>2, <1>3, <1>4, <1>5, <1>6, <1>7, <1>8, <1>9, <1>10, <1>11, <1>12, <1>13, Zenon
     DEF Sound

\* What is on disk changes with the last descriptor only.
LEMMA NextDisk == ASSUME LumpsInv, [Sound]_vars PROVE DiskStep
<1>1. CASE disk' = disk
  BY <1>1 DEF DiskStep
<1>2. ASSUME NEW path \in Paths, NEW buffer \in Buffers, NEW offset \in WriteOffsets,
             WriteToFile(path, buffer, offset)
      PROVE  DiskStep
  <2>1. PICK n \in DOMAIN tree, count \in Nat : Extends(n, count, buffer, off + offset)
    BY <1>2, WrittenIs, Zenon
  <2> DEFINE first == off + offset
  <2>2. disk' = [disk EXCEPT !.cells = WrittenCells(count, buffer, first)]
    BY <2>1, Zenon DEF Extends
  <2>3. first \in Nat
    BY SizesAssumption DEF LumpsInv, MemoryInv
  <2> HIDE DEF first
  <2>4. /\ disk'.num = disk.num
        /\ IsWhole(disk') => IsWhole(disk) /\ ListOf(disk) = ListOf(disk')
    BY <2>2, <2>3, DiskWritten
  <2> QED
    BY <2>4 DEF DiskStep
<1>3. ASSUME NEW path \in Paths, CreateDirectory(path) \/ CreateFile(path)
      PROVE  disk' = disk
  BY <1>3 DEF CreateDirectory, CreateFile, Create
<1>4. ASSUME NEW path \in Paths, CreateNothing(path) \/ WriteToNothing(path) \/ RefuseWrite(path)
      PROVE  disk' = disk
  BY <1>4 DEF CreateNothing, WriteToNothing, RefuseWrite, vars
<1>5. CASE LoadWhole \/ GoDown \/ CallReturn \/ UNCHANGED vars
  <2>1. disk' = disk
    BY <1>5 DEF LoadWhole, Load, GoDown, CallReturn, vars
  <2> QED
    BY <1>1, <2>1
<1> QED
  BY <1>1, <1>2, <1>3, <1>4, <1>5, NumReachesDisk, OffReachesDisk, DescriptorReachesDisk, Zenon DEF Sound

\* Between calls the tree in memory is the one a fresh load would build.
LEMMA InvAgrees == ASSUME LumpsInv, ReloadInv PROVE ReloadAgrees
<1> SUFFICES ASSUME wadPc = "idle"
             PROVE  /\ ListIsWhole
                    /\ off = disk.off /\ num = disk.num /\ tree[Root].end = num
                    /\ ~ Parse(ListOnDisk, disk.num).failed
                    /\ View(tree) = View(Parse(ListOnDisk, disk.num).nodes)
                    /\ ChildrenInOrder(tree)
  BY DEF ReloadAgrees
<1> DEFINE list == ListOf(disk)
<1>1. /\ num = disk.num /\ off = disk.off /\ IsDisk(disk)
      /\ descriptors \in Seq(Descriptors) /\ num = Len(descriptors)
  BY DEF LumpsInv, MemoryInv, DiskInv
<1>2. IsWhole(disk) /\ Equivalent(list, descriptors)
  BY DEF ReloadInv, IdleInv
<1>3. list \in Seq(Descriptors) /\ Len(list) = disk.num
  BY <1>1, <1>2, ListIsTyped
<1>4. Balances(Parse(list, Len(list)))
  BY <1>2, <1>3 DEF ReloadInv, FileInv
<1>5. TreeAgrees(tree, descriptors)
  BY IdleTree
<1>6. View(Parse(descriptors, Len(descriptors)).nodes) = View(Parse(list, Len(list)).nodes)
  <2> HIDE DEF list
  <2> QED
    BY <1>1, <1>2, <1>3, <1>4, EquivalentLists
<1>7. View(tree) = View(Parse(list, disk.num).nodes) /\ tree[Root].end = num
      /\ ChildrenInOrder(tree)
  BY <1>1, <1>3, <1>5, <1>6 DEF TreeAgrees
<1>8. ~ Parse(list, disk.num).failed
  BY <1>3, <1>4 DEF Balances
<1> QED
  BY <1>1, <1>2, <1>7, <1>8 DEF ListIsWhole, ListOnDisk

-----------------------------------------------------------------------------
(* The theorem                                                             *)

\* For a WAD file with balanced markers and clients that name their directories:
\* whatever calls were made, whichever data writes fell short and wherever the
\* process died before, as long as the header and the list were written and read
\* whole, between two calls loadWad would find a list it can parse and build the
\* tree the library has in memory, every index of it included.  It is createX's
\* own shifting of indices, its insertion into the list, writeToFile's extents
\* and the order of the write(2)s that this is about.
THEOREM ReloadAgreesAlways ==
  ASSUME BalancedDisks, DirectoriesNamed
  PROVE  Spec => []ReloadAgrees
<1> DEFINE Inv == LumpsInv /\ ReloadInv
           SoundInvs == astray = 0 => Inv
<1>1. Init => SoundInvs
  BY InitInv, InitReload
<1>2. ShapeInv /\ SoundInvs /\ [Next]_vars => SoundInvs'
  <2> SUFFICES ASSUME ShapeInv, SoundInvs, [Next]_vars, astray' = 0 PROVE Inv'
    OBVIOUS
  <2>1. astray = 0 /\ [Sound]_vars
    BY StepIsSound DEF ShapeInv
  <2> QED
    BY <2>1, SoundInv, NextReload
<1>3. SoundInvs => ReloadAgrees
  BY InvAgrees DEF ReloadAgrees
<1> QED
  BY <1>1, <1>2, <1>3, ShapeInvAlways, PTL DEF Spec
=============================================================================
