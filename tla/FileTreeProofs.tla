--------------------------- MODULE FileTreeProofs ---------------------------
(***************************************************************************)
(* What a client of libWad reaches by path, for any WAD file whose markers *)
(* are balanced: paths and the nodes they lead to, in a tree that grows,   *)
(* in one that shows the same as another, and in what a crash leaves; and  *)
(* that the library implements FileTree.                                   *)
(***************************************************************************)
EXTENDS ReloadProofs

-----------------------------------------------------------------------------
(* Looking up a path in a tree that grows                                  *)

\* more has the nodes of nodes, where they were and with their names.
Grown(nodes, more) ==
    /\ nodes \in Seq(Nodes) /\ more \in Seq(Nodes) /\ Len(nodes) > 0
    /\ Len(nodes) <= Len(more)
    /\ \A n \in DOMAIN nodes : /\ more[n].name = nodes[n].name
                               /\ more[n].parent = nodes[n].parent

\* The first child of a name stays the first.
LEMMA ChildStays ==
  ASSUME NEW nodes, NEW more, Grown(nodes, more), NEW n, NEW name, Child(nodes, n, name) # 0
  PROVE  Child(more, n, name) = Child(nodes, n, name) /\ Child(nodes, n, name) \in DOMAIN nodes
<1> DEFINE named == {c \in DOMAIN nodes : nodes[c].parent = n /\ nodes[c].name = name}
           then == {c \in DOMAIN more : more[c].parent = n /\ more[c].name = name}
           child == Child(nodes, n, name)
           new == Child(more, n, name)
<1>1. /\ DOMAIN nodes = 1 .. Len(nodes) /\ DOMAIN more = 1 .. Len(more)
      /\ Len(nodes) \in Nat /\ Len(more) \in Nat /\ Len(nodes) <= Len(more)
      /\ \A c \in DOMAIN nodes : more[c].name = nodes[c].name /\ more[c].parent = nodes[c].parent
  BY DEF Grown
<1>2. /\ named = {} => child = 0
      /\ named # {} => child \in named /\ \A c \in named : child <= c
  BY <1>1, ChildIsNode
<1>3. /\ then = {} => new = 0
      /\ then # {} => new \in then /\ \A c \in then : new <= c
  BY <1>1, ChildIsNode
<1>4. child \in named /\ \A c \in named : child <= c
  BY <1>2
<1> HIDE DEF child, new
<1>5. named \subseteq then /\ \A c \in then : c <= Len(nodes) => c \in named
  BY <1>1
<1>6. new \in then /\ \A c \in then : new <= c
  BY <1>3, <1>4, <1>5
<1>7. child \in 1 .. Len(nodes) /\ new \in 1 .. Len(more)
  BY <1>1, <1>4, <1>6
<1>8. new <= child
  BY <1>4, <1>5, <1>6
<1>9. new \in named
  BY <1>1, <1>5, <1>6, <1>7, <1>8
<1>10. child <= new
  BY <1>4, <1>9
<1>11. new = child /\ child \in DOMAIN nodes
  BY <1>1, <1>7, <1>8, <1>10
<1> QED
  BY <1>11 DEF child, new

\* A path that leads to a node leads there for ever.
LEMMA NodeStays ==
  ASSUME NEW nodes, NEW more, Grown(nodes, more), NEW path \in Seq(Names),
         NodeAt(nodes, path) # 0
  PROVE  NodeAt(more, path) = NodeAt(nodes, path)
<1>1. /\ nodes \in Seq(Nodes) /\ Len(nodes) > 0 /\ more \in Seq(Nodes) /\ Len(more) > 0
      /\ Len(path) \in Nat
  BY DEF Grown
<1>2. PICK r : IsWalk(r, nodes, path)
  BY <1>1, WalkExists
<1>3. PICK s : IsWalk(s, more, path)
  BY <1>1, WalkExists
<1>4. /\ r[0] = Root /\ s[0] = Root
      /\ NodeAt(nodes, path) = r[Len(path)] /\ NodeAt(more, path) = s[Len(path)]
      /\ \A k \in 1 .. Len(path) :
            /\ r[k] = IF r[k - 1] = 0 THEN 0 ELSE Child(nodes, r[k - 1], path[k])
            /\ s[k] = IF s[k - 1] = 0 THEN 0 ELSE Child(more, s[k - 1], path[k])
  BY <1>2, <1>3 DEF IsWalk
<1> DEFINE S == {k \in 0 .. Len(path) : r[k] # 0 => s[k] = r[k]}
<1>5. 0 \in S
  BY <1>1, <1>4
<1>6. ASSUME NEW k \in 0 .. Len(path) - 1, k \in S PROVE k + 1 \in S
  <2>1. k + 1 \in 1 .. Len(path) /\ (k + 1) - 1 = k /\ k + 1 \in 0 .. Len(path)
    BY <1>1
  <2>2. /\ r[k + 1] = IF r[k] = 0 THEN 0 ELSE Child(nodes, r[k], path[k + 1])
        /\ s[k + 1] = IF s[k] = 0 THEN 0 ELSE Child(more, s[k], path[k + 1])
    BY <1>4, <2>1
  <2>3. ASSUME r[k + 1] # 0 PROVE s[k + 1] = r[k + 1]
    <3>1. r[k] # 0 /\ s[k] = r[k]
      BY <1>6, <2>2, <2>3
    <3>2. Child(nodes, r[k], path[k + 1]) # 0
      BY <2>2, <2>3, <3>1
    <3>3. Child(more, r[k], path[k + 1]) = Child(nodes, r[k], path[k + 1])
      BY <3>2, ChildStays
    <3> QED
      BY <2>2, <3>1, <3>3
  <2> QED
    BY <2>1, <2>3
<1> HIDE DEF S
<1>7. 0 .. Len(path) \subseteq S
  BY <1>1, <1>5, <1>6, IntervalInduction
<1>8. Len(path) \in S
  BY <1>1, <1>7
<1> QED
  BY <1>4, <1>8 DEF S

\* The tree of the library only grows, until it is closed.
LEMMA CompletedGrows ==
  ASSUME LumpsInv, Len(tree) > 0
  PROVE  Grown(tree, Completed)
<1>1. /\ tree \in Seq(Nodes)
      /\ creation # NoCreation => creation.at \in Nat /\ creation.node \in Nodes
  BY DEF LumpsInv, MemoryInv
<1>2. Completed \in Seq(Nodes) /\ Len(Completed) >= Len(tree)
  BY <1>1, CompletedIs
<1>3. ASSUME NEW n \in DOMAIN tree
      PROVE  Completed[n].name = tree[n].name /\ Completed[n].parent = tree[n].parent
  <2>1. CASE creation = NoCreation
    BY <2>1 DEF Completed
  <2>2. CASE creation # NoCreation
    <3> DEFINE by == IF creation.node.isDir THEN 2 ELSE 1
               shifted == Shifted(creation.at, by, creation.node)
    <3>1. by \in Nat
      OBVIOUS
    <3> HIDE DEF by
    <3>2. /\ shifted \in Seq(Nodes) /\ Len(shifted) = Len(tree)
          /\ \A m \in DOMAIN tree :
                shifted[m].name = tree[m].name /\ shifted[m].parent = tree[m].parent
      BY <1>1, <2>2, <3>1, ShiftedIs
    <3>3. Completed = Append(shifted, creation.node)
      BY <2>2 DEF Completed, by
    <3> HIDE DEF shifted
    <3>4. Completed[n] = shifted[n]
      BY <1>1, <3>2, <3>3
    <3> QED
      BY <3>2, <3>4
  <2> QED
    BY <2>1, <2>2
<1>4. Len(tree) <= Len(Completed)
  BY <1>1, <1>2
<1> QED
  BY <1>1, <1>2, <1>3, <1>4 DEF Grown

LEMMA NextGrows ==
  ASSUME LumpsInv, [Sound]_vars, wadPc # "down", wadPc' # "down", Len(tree) > 0
  PROVE  Grown(tree, tree')
<1>1. tree \in Seq(Nodes)
  BY DEF LumpsInv, MemoryInv
<1>2. CASE tree' = tree
  <2>1. Len(tree) <= Len(tree)
    BY <1>1
  <2> QED
    BY <1>1, <1>2, <2>1 DEF Grown
<1>3. CASE CallReturn
  <2>1. tree' = Completed
    BY <1>3 DEF CallReturn
  <2>2. Grown(tree, Completed)
    BY CompletedGrows
  <2> DEFINE new == Completed
  <2> HIDE DEF new
  <2>3. tree' = new /\ Grown(tree, new)
    BY <2>1, <2>2 DEF new
  <2> QED
    BY <2>3
<1>4. ASSUME NEW path \in Paths, NEW buffer \in Buffers, NEW offset \in WriteOffsets,
             WriteToFile(path, buffer, offset)
      PROVE  Grown(tree, tree')
  <2>1. PICK n \in DOMAIN tree, count \in Nat : Extends(n, count, buffer, off + offset)
    BY <1>4, WrittenIs, Zenon
  <2> DEFINE new == ExtendedTree(n, off, count)
  <2>2. tree' = new /\ tree[n].length = 0
    BY <2>1, Zenon DEF Extends
  <2>3. off \in Nat
    BY DEF LumpsInv, MemoryInv
  <2>4. TreeExtended(new, n, off, count)
    BY <1>1, <2>2, <2>3, ExtendedNode, Zenon
  <2> HIDE DEF new
  <2>5. /\ new \in Seq(Nodes) /\ Len(new) = Len(tree)
        /\ \A k \in DOMAIN tree : new[k].name = tree[k].name /\ new[k].parent = tree[k].parent
    BY <2>4, Zenon DEF TreeExtended
  <2>6. Grown(tree, new)
    BY <1>1, <2>5 DEF Grown
  <2> QED
    BY <2>2, <2>6
<1>5. ASSUME NEW path \in Paths, CreateDirectory(path) \/ CreateFile(path)
      PROVE  tree' = tree
  BY <1>5 DEF CreateDirectory, CreateFile, Create
<1>6. ASSUME NEW path \in Paths, CreateNothing(path) \/ WriteToNothing(path) \/ RefuseWrite(path)
      PROVE  tree' = tree
  BY <1>6 DEF CreateNothing, WriteToNothing, RefuseWrite, vars, memory
<1>7. CASE NumReaches \/ OffReaches \/ DescriptorReaches \/ UNCHANGED vars
  <2>1. tree' = tree
    BY <1>7 DEF NumReaches, OffReaches, DescriptorReaches, WithParts, DescriptorCell, ListStart,
                vars, memory
  <2> QED
    BY <1>2, <2>1
<1>8. ~ LoadWhole /\ ~ GoDown
  BY DEF LoadWhole, Load, GoDown
<1> QED
  BY <1>2, <1>3, <1>4, <1>5, <1>6, <1>7, <1>8, Zenon DEF Sound

-----------------------------------------------------------------------------
(* Paths and the nodes they lead to                                        *)

\* A path without its last name.
ParentOf(path) == SubSeq(path, 1, Len(path) - 1)

\* The parent of a path has all its names but the last.
LEMMA ParentIs ==
  ASSUME NEW T, NEW path \in Seq(T), path # <<>>
  PROVE  /\ Len(path) > 0 /\ ParentOf(path) \in Seq(T) /\ Len(ParentOf(path)) = Len(path) - 1
         /\ \A k \in 1 .. Len(path) - 1 : ParentOf(path)[k] = path[k]
<1>1. Len(path) \in Nat /\ Len(path) > 0
  OBVIOUS
<1> DEFINE m == Len(path) - 1
           up == SubSeq(path, 1, m)
<1>2. m \in 0 .. Len(path) /\ m \in Nat /\ m <= Len(path)
  BY <1>1
<1> HIDE DEF m
<1>3. up \in Seq(T) /\ Len(up) = m /\ \A k \in 1 .. m : up[k] = path[k]
  BY <1>1, <1>2
<1> QED
  BY <1>1, <1>3 DEF ParentOf, m

\* The way to a path goes by way of its parent.
LEMMA WalkToParent ==
  ASSUME NEW nodes \in Seq(Nodes), Len(nodes) > 0, NEW path \in Seq(Names), path # <<>>,
         NEW r, IsWalk(r, nodes, path)
  PROVE  r[Len(path) - 1] = NodeAt(nodes, ParentOf(path))
<1> DEFINE up == ParentOf(path)
<1>1. /\ Len(path) \in Nat /\ Len(path) > 0 /\ up \in Seq(Names) /\ Len(up) = Len(path) - 1
      /\ \A k \in 1 .. Len(path) - 1 : up[k] = path[k]
  BY ParentIs
<1> HIDE DEF up
<1>2. PICK s : IsWalk(s, nodes, up)
  BY <1>1, WalkExists
<1>3. /\ r[0] = Root /\ s[0] = Root /\ NodeAt(nodes, up) = s[Len(path) - 1]
      /\ \A k \in 1 .. Len(path) - 1 :
            /\ r[k] = IF r[k - 1] = 0 THEN 0 ELSE Child(nodes, r[k - 1], path[k])
            /\ s[k] = IF s[k - 1] = 0 THEN 0 ELSE Child(nodes, s[k - 1], path[k])
  BY <1>1, <1>2 DEF IsWalk
<1> DEFINE S == {k \in 0 .. Len(path) - 1 : r[k] = s[k]}
<1>4. 0 \in S
  BY <1>1, <1>3
<1>5. ASSUME NEW k \in 0 .. (Len(path) - 1) - 1, k \in S PROVE k + 1 \in S
  <2>1. k + 1 \in 1 .. Len(path) - 1 /\ (k + 1) - 1 = k
    BY <1>1
  <2>2. r[k + 1] = s[k + 1]
    BY <1>3, <1>5, <2>1
  <2> QED
    BY <1>1, <2>1, <2>2
<1> HIDE DEF S
<1>6. Len(path) - 1 \in Nat
  BY <1>1
<1>7. 0 .. Len(path) - 1 \subseteq S
  BY <1>4, <1>5, <1>6, IntervalInduction
<1>8. Len(path) - 1 \in S
  BY <1>6, <1>7
<1> QED
  BY <1>3, <1>8 DEF S, up

\* A path leads to the first child of its parent that has its last name.
LEMMA LastStep ==
  ASSUME NEW nodes \in Seq(Nodes), Len(nodes) > 0, NEW path \in Seq(Names), path # <<>>
  PROVE  LET up == NodeAt(nodes, ParentOf(path))
         IN  NodeAt(nodes, path) = IF up = 0 THEN 0 ELSE Child(nodes, up, path[Len(path)])
<1>1. PICK r : IsWalk(r, nodes, path)
  BY WalkExists
<1>2. r[Len(path) - 1] = NodeAt(nodes, ParentOf(path))
  BY <1>1, WalkToParent
<1>3. Len(path) \in 1 .. Len(path)
  OBVIOUS
<1> QED
  BY <1>1, <1>2, <1>3 DEF IsWalk

\* The empty path leads to the root.
LEMMA RootFound ==
  ASSUME NEW nodes \in Seq(Nodes), Len(nodes) > 0
  PROVE  NodeAt(nodes, <<>>) = Root
<1>1. << >> \in Seq(Names) /\ Len(<< >>) = 0
  OBVIOUS
<1>2. PICK r : IsWalk(r, nodes, << >>)
  BY <1>1, WalkExists
<1> QED
  BY <1>1, <1>2 DEF IsWalk

\* There is a root, which has no parent.
IsRooted(nodes) ==
    /\ nodes \in Seq(Nodes) /\ Len(nodes) > 0 /\ nodes[Root].parent = 0

\* The child that is found is the child that was looked for.
LEMMA ChildFields ==
  ASSUME NEW nodes \in Seq(Nodes), NEW n, NEW name, Child(nodes, n, name) # 0
  PROVE  LET c == Child(nodes, n, name)
         IN  c \in DOMAIN nodes /\ nodes[c].parent = n /\ nodes[c].name = name
<1>1. Len(nodes) \in Nat /\ DOMAIN nodes = 1 .. Len(nodes)
  OBVIOUS
<1> DEFINE named == {c \in DOMAIN nodes : nodes[c].parent = n /\ nodes[c].name = name}
<1>2. /\ named = {} => Child(nodes, n, name) = 0
      /\ named # {} => Child(nodes, n, name) \in named
  BY <1>1, ChildIsNode
<1>3. Child(nodes, n, name) \in named
  BY <1>2
<1> QED
  BY <1>3

\* A child of a name is found if there is one.
LEMMA ChildFound ==
  ASSUME NEW nodes \in Seq(Nodes), NEW c \in DOMAIN nodes, Child(nodes, nodes[c].parent, nodes[c].name) = 0
  PROVE  FALSE
<1>1. Len(nodes) \in Nat /\ DOMAIN nodes = 1 .. Len(nodes)
  OBVIOUS
<1> DEFINE n == nodes[c].parent
           name == nodes[c].name
           named == {k \in DOMAIN nodes : nodes[k].parent = n /\ nodes[k].name = name}
<1>2. c \in named
  OBVIOUS
<1>3. named # {} => Child(nodes, n, name) \in named
  <2> HIDE DEF n, name
  <2> QED
    BY <1>1, ChildIsNode
<1>4. 0 \notin named
  BY <1>1
<1> QED
  BY <1>2, <1>3, <1>4

\* No two paths lead to one node.
LEMMA PathsApart ==
  ASSUME NEW nodes, IsRooted(nodes), NEW p \in Seq(Names), NEW q \in Seq(Names),
         NodeAt(nodes, p) # 0, NodeAt(nodes, p) = NodeAt(nodes, q)
  PROVE  p = q
<1>1. nodes \in Seq(Nodes) /\ Len(nodes) > 0 /\ nodes[Root].parent = 0
  BY DEF IsRooted
<1>2. Len(p) \in Nat /\ Len(q) \in Nat
  OBVIOUS
<1> DEFINE Bounded(n) == \A s, t \in Seq(Names) :
                 Len(s) = n /\ NodeAt(nodes, s) # 0 /\ NodeAt(nodes, s) = NodeAt(nodes, t) => s = t
           S == {n \in 0 .. Len(p) : Bounded(n)}
<1>3. ASSUME NEW s \in Seq(Names), s # <<>>, NodeAt(nodes, s) # 0
      PROVE  /\ NodeAt(nodes, ParentOf(s)) # 0 /\ NodeAt(nodes, s) \in DOMAIN nodes
             /\ nodes[NodeAt(nodes, s)].parent = NodeAt(nodes, ParentOf(s))
             /\ nodes[NodeAt(nodes, s)].name = s[Len(s)]
             /\ NodeAt(nodes, s) # Root
  <2> DEFINE up == NodeAt(nodes, ParentOf(s))
             name == s[Len(s)]
  <2>1. NodeAt(nodes, s) = IF up = 0 THEN 0 ELSE Child(nodes, up, name)
    BY <1>1, <1>3, LastStep
  <2> HIDE DEF up, name
  <2>2. up # 0 /\ NodeAt(nodes, s) = Child(nodes, up, name)
    BY <1>3, <2>1
  <2>3. LET c == Child(nodes, up, name)
        IN  c \in DOMAIN nodes /\ nodes[c].parent = up /\ nodes[c].name = name
    BY <1>1, <1>3, <2>2, ChildFields
  <2>4. NodeAt(nodes, s) # Root
    BY <1>1, <2>2, <2>3
  <2> QED
    BY <2>2, <2>3, <2>4 DEF up, name
<1>4. NodeAt(nodes, << >>) = Root
  BY <1>1, RootFound
<1>5. ASSUME NEW s \in Seq(Names), Len(s) = 0 PROVE s = << >>
  BY <1>5
<1>6. 0 \in S
  <2>1. Bounded(0)
    BY <1>3, <1>4, <1>5
  <2> QED
    BY <1>2, <2>1
<1>7. ASSUME NEW n \in 0 .. Len(p) - 1, n \in S PROVE n + 1 \in S
  <2>1. ASSUME NEW s \in Seq(Names), NEW t \in Seq(Names), Len(s) = n + 1,
               NodeAt(nodes, s) # 0, NodeAt(nodes, s) = NodeAt(nodes, t)
        PROVE  s = t
    <3>1. s # << >>
      BY <2>1
    <3>2. t # << >>
      BY <1>3, <1>4, <2>1, <3>1
    <3>3. /\ NodeAt(nodes, ParentOf(s)) = NodeAt(nodes, ParentOf(t))
          /\ NodeAt(nodes, ParentOf(s)) # 0 /\ s[Len(s)] = t[Len(t)]
      BY <1>3, <2>1, <3>1, <3>2
    <3>4. /\ ParentOf(s) \in Seq(Names) /\ Len(ParentOf(s)) = Len(s) - 1 /\ Len(s) \in Nat
          /\ \A k \in 1 .. Len(s) - 1 : ParentOf(s)[k] = s[k]
      BY <3>1, ParentIs
    <3>5. /\ ParentOf(t) \in Seq(Names) /\ Len(ParentOf(t)) = Len(t) - 1 /\ Len(t) \in Nat
          /\ \A k \in 1 .. Len(t) - 1 : ParentOf(t)[k] = t[k]
      BY <3>2, ParentIs
    <3>6. Len(s) - 1 = n
      BY <2>1, <3>4
    <3>7. ParentOf(s) = ParentOf(t)
      BY <1>7, <3>3, <3>4, <3>5, <3>6
    <3>8. Len(s) = Len(t)
      BY <3>4, <3>5, <3>7
    <3>9. \A k \in 1 .. Len(s) : s[k] = t[k]
      BY <3>3, <3>4, <3>5, <3>7, <3>8
    <3> QED
      BY <3>8, <3>9
  <2>2. Bounded(n + 1)
    BY <2>1
  <2> HIDE DEF Bounded
  <2> QED
    BY <1>2, <2>2
<1> HIDE DEF S
<1>8. 0 .. Len(p) \subseteq S
  BY <1>2, <1>6, <1>7, IntervalInduction
<1>9. Len(p) \in S
  BY <1>2, <1>8
<1> QED
  BY <1>9 DEF S

-----------------------------------------------------------------------------
(* A node that is added to a tree                                          *)

\* more is nodes and one node without children.
AddsLeaf(nodes, more) ==
    /\ IsRooted(nodes) /\ Grown(nodes, more) /\ Len(more) = Len(nodes) + 1
    /\ \A n \in DOMAIN more : more[n].parent # Len(more)

\* Of a path that led nowhere, only the last name is the new node's.
LEMMA LeafFound ==
  ASSUME NEW nodes, NEW more, AddsLeaf(nodes, more), NEW path \in Seq(Names),
         NodeAt(nodes, path) = 0, NodeAt(more, path) # 0
  PROVE  /\ path # << >> /\ NodeAt(nodes, ParentOf(path)) # 0
         /\ NodeAt(more, path) = Len(more)
         /\ more[Len(more)].parent = NodeAt(nodes, ParentOf(path))
         /\ more[Len(more)].name = path[Len(path)]
<1> DEFINE leaf == Len(more)
<1>1. /\ nodes \in Seq(Nodes) /\ Len(nodes) > 0 /\ Len(nodes) \in Nat
      /\ more \in Seq(Nodes) /\ Len(more) > 0 /\ leaf = Len(nodes) + 1 /\ Grown(nodes, more)
      /\ DOMAIN more = 1 .. leaf /\ DOMAIN nodes = 1 .. Len(nodes)
      /\ \A n \in DOMAIN more : more[n].parent # leaf
      /\ \A n \in DOMAIN nodes : more[n].name = nodes[n].name /\ more[n].parent = nodes[n].parent
  BY DEF AddsLeaf, Grown
<1> HIDE DEF leaf
<1>2. ASSUME NEW s \in Seq(Names), NodeAt(nodes, s) = 0, NodeAt(more, s) # 0
      PROVE  /\ s # << >> /\ ParentOf(s) \in Seq(Names) /\ Len(ParentOf(s)) = Len(s) - 1
             /\ NodeAt(more, ParentOf(s)) # 0
             /\ NodeAt(nodes, ParentOf(s)) # 0 \/ NodeAt(more, ParentOf(s)) # leaf
             /\ NodeAt(nodes, ParentOf(s)) # 0 =>
                   /\ NodeAt(more, s) = leaf /\ more[leaf].parent = NodeAt(nodes, ParentOf(s))
                   /\ more[leaf].name = s[Len(s)]
  <2>1. s # << >>
    BY <1>1, <1>2, RootFound DEF Root
  <2>2. ParentOf(s) \in Seq(Names) /\ Len(ParentOf(s)) = Len(s) - 1
    BY <2>1, ParentIs
  <2> DEFINE up == NodeAt(nodes, ParentOf(s))
             new == NodeAt(more, ParentOf(s))
             name == s[Len(s)]
             c == Child(more, new, name)
  <2>3. NodeAt(nodes, s) = IF up = 0 THEN 0 ELSE Child(nodes, up, name)
    BY <1>1, <2>1, LastStep
  <2>4. NodeAt(more, s) = IF new = 0 THEN 0 ELSE Child(more, new, name)
    BY <1>1, <2>1, LastStep
  <2>5. up # 0 => new = up
    BY <1>1, <2>2, NodeStays
  <2> HIDE DEF up, new, name
  <2>6. new # 0 /\ NodeAt(more, s) = c /\ c # 0
    BY <1>2, <2>4
  <2>7. c \in DOMAIN more /\ more[c].parent = new /\ more[c].name = name
    BY <1>1, <2>6, ChildFields
  <2>8. new # leaf
    BY <1>1, <2>7
  <2>9. ASSUME up # 0 PROVE c = leaf
    <3>1. Child(nodes, up, name) = 0 /\ new = up
      BY <1>2, <2>3, <2>5, <2>9
    <3>2. c \notin DOMAIN nodes
      <4> HIDE DEF c
      <4>1. ASSUME c \in DOMAIN nodes PROVE FALSE
        <5>1. nodes[c].parent = up /\ nodes[c].name = name
          BY <1>1, <2>7, <3>1, <4>1
        <5> QED
          BY <1>1, <3>1, <4>1, <5>1, ChildFound
      <4> QED
        BY <4>1
    <3> HIDE DEF c
    <3> QED
      BY <1>1, <2>7, <3>2
  <2> HIDE DEF c
  <2>10. up # 0 => NodeAt(more, s) = leaf /\ more[leaf].parent = up /\ more[leaf].name = name
    BY <2>5, <2>6, <2>7, <2>9
  <2> QED
    BY <2>1, <2>2, <2>6, <2>8, <2>10 DEF up, new, name
<1> DEFINE Leads(n) == \A s \in Seq(Names) :
                Len(s) = n /\ NodeAt(nodes, s) = 0 => NodeAt(more, s) \in {0, leaf}
           S == {n \in 0 .. Len(path) : Leads(n)}
<1>3. Len(path) \in Nat
  OBVIOUS
<1>4. 0 \in S
  <2>1. Leads(0)
    <3>1. ASSUME NEW s \in Seq(Names), Len(s) = 0 PROVE s = << >>
      BY <3>1
    <3> QED
      BY <1>2, <3>1
  <2> QED
    BY <1>3, <2>1
<1>5. ASSUME NEW n \in 0 .. Len(path) - 1, n \in S PROVE n + 1 \in S
  <2>1. ASSUME NEW s \in Seq(Names), Len(s) = n + 1, NodeAt(nodes, s) = 0, NodeAt(more, s) # 0
        PROVE  NodeAt(more, s) = leaf
    <3>1. /\ ParentOf(s) \in Seq(Names) /\ Len(ParentOf(s)) = n
          /\ NodeAt(more, ParentOf(s)) # 0
          /\ NodeAt(nodes, ParentOf(s)) # 0 \/ NodeAt(more, ParentOf(s)) # leaf
          /\ NodeAt(nodes, ParentOf(s)) # 0 => NodeAt(more, s) = leaf
      BY <1>2, <2>1
    <3>2. NodeAt(nodes, ParentOf(s)) = 0 => NodeAt(more, ParentOf(s)) \in {0, leaf}
      BY <1>5, <3>1
    <3> QED
      BY <3>1, <3>2
  <2>2. Leads(n + 1)
    BY <2>1
  <2> HIDE DEF Leads
  <2> QED
    BY <1>3, <2>2
<1> HIDE DEF S
<1>6. 0 .. Len(path) \subseteq S
  BY <1>3, <1>4, <1>5, IntervalInduction
<1>7. /\ path # << >> /\ ParentOf(path) \in Seq(Names) /\ Len(ParentOf(path)) = Len(path) - 1
      /\ NodeAt(more, ParentOf(path)) # 0
      /\ NodeAt(nodes, ParentOf(path)) # 0 \/ NodeAt(more, ParentOf(path)) # leaf
      /\ NodeAt(nodes, ParentOf(path)) # 0 =>
            /\ NodeAt(more, path) = leaf
            /\ more[leaf].parent = NodeAt(nodes, ParentOf(path))
            /\ more[leaf].name = path[Len(path)]
  BY <1>2
<1>8. Len(path) - 1 \in 0 .. Len(path)
  BY <1>3, <1>7
<1>9. Len(path) - 1 \in S
  BY <1>6, <1>8
<1>10. NodeAt(nodes, ParentOf(path)) # 0
  BY <1>7, <1>9 DEF S
<1> QED
  BY <1>7, <1>10 DEF leaf

-----------------------------------------------------------------------------
(* What a createX does to the tree, once it is over                        *)

\* createX appends its node to the tree it has shifted.
LEMMA CreationAdds ==
  ASSUME tree \in Seq(Nodes), Len(tree) > 0,
         NEW new, NEW index \in Nat, NEW node \in Nodes, Create(new, index, node)
  PROVE  Grown(tree, Completed') /\ Len(Completed') = Len(tree) + 1
         /\ Completed'[Len(Completed')] = node
<1>1. creation' = [at |-> index, node |-> node] /\ tree' = tree
  BY DEF Create
<1>2. creation'.at = index /\ creation'.node = node /\ creation' # NoCreation
  BY <1>1, SomeNode DEF NoCreation
<1> DEFINE by == IF node.isDir THEN 2 ELSE 1
           shifted == Shifted(index, by, node)
<1>3. Completed' = Append(shifted, node)
  BY <1>1, <1>2, Zenon DEF Completed, Shifted
<1>4. by \in Nat
  OBVIOUS
<1> HIDE DEF by
<1>5. /\ shifted \in Seq(Nodes) /\ Len(shifted) = Len(tree)
      /\ \A m \in DOMAIN tree :
            shifted[m].name = tree[m].name /\ shifted[m].parent = tree[m].parent
  BY <1>4, ShiftedIs
<1> HIDE DEF shifted
<1> DEFINE more == Append(shifted, node)
<1>6. /\ more \in Seq(Nodes) /\ Len(more) = Len(tree) + 1 /\ more[Len(more)] = node
      /\ \A m \in DOMAIN tree : more[m] = shifted[m]
  BY <1>5
<1> HIDE DEF more
<1>7. Grown(tree, more)
  BY <1>5, <1>6 DEF Grown
<1>8. Completed' = more
  BY <1>3 DEF more
<1> QED
  BY <1>6, <1>7, <1>8

\* createDirectory and createFile add one node, of the name and in the place
\* the path says.
LEMMA CreatesLeaf ==
  ASSUME DirectoriesNamed, LumpsInv, ReloadInv, NEW path \in Paths,
         CreateDirectory(path) \/ CreateFile(path)
  PROVE  /\ Completed = tree /\ AddsLeaf(tree, Completed')
         /\ FindNode(ParentPath(path)) # 0
         /\ Completed'[Len(Completed')].parent = FindNode(ParentPath(path))
         /\ Completed'[Len(Completed')].name = NameOf(path)
<1> DEFINE parent == FindNode(ParentPath(path))
           name == NameOf(path)
           index == InsertIndex(parent)
<1>1. wadPc = "idle" /\ TakesChildren(parent)
  BY DEF CreateDirectory, CreateFile, DirectoryRefused, FileRefused
<1>2. TreeAgrees(tree, descriptors) /\ Completed = tree
  BY <1>1, IdleTree
<1>3. parent \in 0 .. Len(tree) /\ name \in Names
  BY <1>1, FoundIsNode, PathsAreNamed
<1>4. tree \in Seq(Nodes) /\ Len(tree) > 0 /\ IsTree(tree) /\ tree[Root].parent = 0
  BY <1>2 DEF TreeAgrees, IsTree
<1>5. parent \in Nat /\ parent # 0
  BY <1>1, <1>3 DEF TakesChildren
<1>6. index \in Nat
  <2> HIDE DEF parent
  <2>1. index \in 0 .. Len(descriptors)
    BY <1>1, <1>3, IndexInList
  <2>2. Len(descriptors) \in Nat
    BY DEF LumpsInv, MemoryInv
  <2> QED
    BY <2>1, <2>2
<1>7. PICK node \in Nodes :
         /\ \E new : Create(new, index, node)
         /\ node.parent = parent /\ node.name = name
  <2>1. CASE CreateDirectory(path)
    <3> DEFINE node == DirNode(name, parent, index, index + 1)
    <3>1. \E new : Create(new, index, node)
      BY <2>1, Zenon DEF CreateDirectory
    <3>2. node \in Nodes /\ node.parent = parent /\ node.name = name
      <4> HIDE DEF parent, name, index
      <4> QED
        BY <1>3, <1>5, <1>6 DEF DirNode, Nodes
    <3> HIDE DEF node
    <3> QED
      BY <3>1, <3>2
  <2>2. CASE CreateFile(path)
    <3> DEFINE d == Descriptor(name, 0, 0)
               node == FileNode(d, parent, index)
    <3>1. \E new : Create(new, index, node)
      BY <2>2, Zenon DEF CreateFile
    <3>2. node \in Nodes /\ node.parent = parent /\ node.name = name
      <4> HIDE DEF parent, name, index
      <4> QED
        BY <1>3, <1>5, <1>6 DEF FileNode, Nodes, Descriptor
    <3> HIDE DEF node
    <3> QED
      BY <3>1, <3>2
  <2> QED
    BY <2>1, <2>2
<1> HIDE DEF parent, name, index
<1>8. PICK new : Create(new, index, node)
  BY <1>7
<1>9. Grown(tree, Completed') /\ Len(Completed') = Len(tree) + 1
      /\ Completed'[Len(Completed')] = node
  BY <1>4, <1>6, <1>8, CreationAdds
<1>10. IsTree(Completed')
  BY <1>2, CreateFileAgrees, CreateDirectoryAgrees
     DEF TreeAgrees, CreateDirectory, DirectoryRefused, DirectoriesNamed
<1>11. \A n \in DOMAIN Completed' : Completed'[n].parent # Len(Completed')
  <2> DEFINE more == Completed'
  <2>1. IsTree(more)
    BY <1>10
  <2> HIDE DEF more
  <2>2. \A n \in DOMAIN more : more[n].parent # Len(more)
    <3>1. /\ Len(more) \in Nat /\ DOMAIN more = 1 .. Len(more) /\ more[Root].parent = 0
          /\ Len(more) > 0
      BY <2>1, TreeNodes DEF IsTree
    <3>2. \A n \in Below(more) : more[n].parent \in 1 .. n - 1
      BY <2>1 DEF IsTree
    <3>3. \A n \in DOMAIN more : n = Root \/ n \in Below(more)
      BY DEF Below
    <3> QED
      BY <3>1, <3>2, <3>3
  <2> QED
    BY <2>2 DEF more
<1>12. AddsLeaf(tree, Completed')
  BY <1>4, <1>9, <1>11 DEF AddsLeaf, IsRooted
<1> QED
  BY <1>2, <1>5, <1>7, <1>9, <1>12 DEF parent, name

-----------------------------------------------------------------------------
(* Two trees that show the same are the same tree of paths                 *)

\* Nodes of two trees that start at the same index, or none.
SameNode(nodes, more, m, n) ==
    m \in 0 .. Len(nodes) /\ n \in 0 .. Len(more) /\ Label(nodes, m) = Label(more, n)

\* The trees show the same, and list children in the same order.
Equal(nodes, more) ==
    /\ IsTree(nodes) /\ IsTree(more) /\ View(nodes) = View(more)
    /\ ChildrenInOrder(nodes) /\ ChildrenInOrder(more)

LEMMA EqualBoth == ASSUME NEW nodes, NEW more, Equal(nodes, more) PROVE Equal(more, nodes)
BY DEF Equal

\* Every node of the one has its like in the other.
LEMMA Counterpart ==
  ASSUME NEW nodes, NEW more, Equal(nodes, more), NEW i \in Below(nodes)
  PROVE  \E j \in Below(more) :
            /\ more[j].start = nodes[i].start /\ more[j].name = nodes[i].name
            /\ more[j].isDir = nodes[i].isDir /\ more[j].length = nodes[i].length
            /\ nodes[i].length > 0 => more[j].offset = nodes[i].offset
            /\ Label(more, more[j].parent) = Label(nodes, nodes[i].parent)
            /\ SameNode(nodes, more, i, j)
<1>1. IsTree(nodes) /\ IsTree(more) /\ View(nodes) = View(more)
  BY DEF Equal
<1> DEFINE v == ViewOf(nodes, i)
<1>2. v \in View(more)
  BY <1>1, ViewIs
<1>3. PICK j \in Below(more) : v = ViewOf(more, j)
  BY <1>1, <1>2, ViewIs
<1>4. /\ v.start = nodes[i].start /\ v.name = nodes[i].name /\ v.isDir = nodes[i].isDir
      /\ v.length = nodes[i].length /\ v.offset = Offset(nodes[i].offset, nodes[i].length)
      /\ v.parent = Label(nodes, nodes[i].parent)
  BY ViewFields
<1>5. LET w == ViewOf(more, j)
      IN  /\ w.start = more[j].start /\ w.name = more[j].name /\ w.isDir = more[j].isDir
          /\ w.length = more[j].length /\ w.offset = Offset(more[j].offset, more[j].length)
          /\ w.parent = Label(more, more[j].parent)
  BY ViewFields
<1> HIDE DEF v
<1>6. /\ more[j].start = nodes[i].start /\ more[j].name = nodes[i].name
      /\ more[j].isDir = nodes[i].isDir /\ more[j].length = nodes[i].length
      /\ Offset(more[j].offset, more[j].length) = Offset(nodes[i].offset, nodes[i].length)
      /\ Label(more, more[j].parent) = Label(nodes, nodes[i].parent)
  BY <1>3, <1>4, <1>5
<1>7. nodes[i].length > 0 => more[j].offset = nodes[i].offset
  BY <1>6 DEF Offset
<1>8. /\ i # 0 /\ i # Root /\ j # 0 /\ j # Root /\ i \in 0 .. Len(nodes) /\ j \in 0 .. Len(more)
  BY <1>1, TreeNodes DEF Root
<1>9. SameNode(nodes, more, i, j)
  BY <1>6, <1>8 DEF SameNode, Label
<1> QED
  BY <1>6, <1>7, <1>9

\* The first child of a name starts no later in the one than in the other.
LEMMA ChildNoLater ==
  ASSUME NEW nodes, NEW more, Equal(nodes, more), NEW m, NEW n, SameNode(nodes, more, m, n),
         m # 0, NEW name, Child(nodes, m, name) # 0
  PROVE  LET a == Child(nodes, m, name)
             b == Child(more, n, name)
         IN  a \in Below(nodes) /\ b \in Below(more) /\ more[b].start <= nodes[a].start
<1> DEFINE a == Child(nodes, m, name)
           b == Child(more, n, name)
<1>1. /\ IsTree(nodes) /\ IsTree(more) /\ ChildrenInOrder(more)
      /\ nodes \in Seq(Nodes) /\ more \in Seq(Nodes)
  BY DEF Equal, IsTree
<1>2. a \in DOMAIN nodes /\ nodes[a].parent = m /\ nodes[a].name = name
  BY <1>1, ChildFields
<1>3. a \in Below(nodes)
  BY <1>1, <1>2 DEF IsTree, Below
<1> HIDE DEF a
<1>4. PICK j \in Below(more) :
         /\ more[j].start = nodes[a].start /\ more[j].name = nodes[a].name
         /\ Label(more, more[j].parent) = Label(nodes, nodes[a].parent)
  BY <1>3, Counterpart
<1>5. more[j].parent = n /\ j \in DOMAIN more
  <2>1. more[j].parent \in 0 .. Len(more) /\ j \in DOMAIN more
    BY <1>1, TreeNodes DEF Below
  <2>2. Label(more, more[j].parent) = Label(more, n) /\ n \in 0 .. Len(more)
    BY <1>2, <1>4 DEF SameNode
  <2> QED
    BY <1>1, <2>1, <2>2, LabelsApart
<1>6. /\ Len(more) \in Nat /\ DOMAIN more = 1 .. Len(more) /\ more[Root].parent = 0
  BY <1>1, TreeNodes DEF IsTree
<1> DEFINE named == {c \in DOMAIN more : more[c].parent = n /\ more[c].name = name}
<1>7. named # {} => b \in named /\ \A c \in named : b <= c
  BY <1>6, ChildIsNode
<1>8. j \in named
  BY <1>2, <1>4, <1>5
<1> HIDE DEF b
<1>9. b \in DOMAIN more /\ more[b].parent = n /\ b <= j
  BY <1>7, <1>8
<1>10. n # 0
  BY <1>1, <1>5, TreeNodes
<1>11. b \in Below(more)
  BY <1>6, <1>9, <1>10 DEF Below
<1>12. more[b].start <= more[j].start
  <2>1. CASE b = j
    <3>1. more[j].start \in Nat
      BY <1>1, <1>5, TreeNodes
    <3> QED
      BY <2>1, <3>1
  <2>2. CASE b # j
    <3>1. b < j /\ more[b].start \in Nat /\ more[j].start \in Nat
      BY <1>1, <1>5, <1>6, <1>9, <2>2, TreeNodes
    <3>2. more[b].start < more[j].start
      BY <1>1, <1>5, <1>9, <3>1 DEF ChildrenInOrder
    <3> QED
      BY <3>1, <3>2
  <2> QED
    BY <2>1, <2>2
<1> QED
  BY <1>3, <1>4, <1>11, <1>12 DEF a, b

LEMMA SameChild ==
  ASSUME NEW nodes, NEW more, Equal(nodes, more), NEW m, NEW n, SameNode(nodes, more, m, n),
         m # 0, NEW name
  PROVE  SameNode(nodes, more, Child(nodes, m, name), Child(more, n, name))
<1> DEFINE a == Child(nodes, m, name)
           b == Child(more, n, name)
<1>1. Equal(more, nodes) /\ SameNode(more, nodes, n, m) /\ IsTree(nodes) /\ IsTree(more)
  BY EqualBoth DEF SameNode, Equal
<1>2. n # 0
  <2>1. Label(nodes, 0) = Label(more, 0) /\ m \in 0 .. Len(nodes) /\ 0 \in 0 .. Len(nodes)
    BY <1>1, TreeNodes DEF Label, SameNode
  <2>2. ASSUME n = 0 PROVE FALSE
    <3>1. Label(nodes, m) = Label(nodes, 0)
      BY <2>1, <2>2 DEF SameNode
    <3> QED
      BY <1>1, <2>1, <3>1, LabelsApart
  <2> QED
    BY <2>2
<1>3. a # 0 => a \in Below(nodes) /\ b \in Below(more) /\ more[b].start <= nodes[a].start
  BY ChildNoLater
<1>4. b # 0 => b \in Below(more) /\ a \in Below(nodes) /\ nodes[a].start <= more[b].start
  BY <1>1, <1>2, ChildNoLater
<1> HIDE DEF a, b
<1>5. /\ \A k \in Below(nodes) : k # 0 /\ k # Root /\ k \in 0 .. Len(nodes) /\ nodes[k].start \in Nat
      /\ \A k \in Below(more) : k # 0 /\ k # Root /\ k \in 0 .. Len(more) /\ more[k].start \in Nat
      /\ 0 \in 0 .. Len(nodes) /\ 0 \in 0 .. Len(more)
  BY <1>1, TreeNodes DEF Root, Below
<1>6. CASE a # 0
  <2>1. nodes[a].start = more[b].start
    BY <1>3, <1>4, <1>5, <1>6
  <2>2. SameNode(nodes, more, a, b)
    BY <1>3, <1>5, <1>6, <2>1 DEF SameNode, Label
  <2> QED
    BY <2>2 DEF a, b
<1>7. CASE a = 0
  <2>1. b = 0
    BY <1>4, <1>5, <1>7
  <2>2. SameNode(nodes, more, a, b)
    BY <1>5, <1>7, <2>1 DEF SameNode, Label
  <2> QED
    BY <2>2 DEF a, b
<1> QED
  BY <1>6, <1>7

\* A path leads to the same node in both.
LEMMA SameWalk ==
  ASSUME NEW nodes, NEW more, Equal(nodes, more), NEW path \in Seq(Names)
  PROVE  SameNode(nodes, more, NodeAt(nodes, path), NodeAt(more, path))
<1>1. /\ IsTree(nodes) /\ IsTree(more)
      /\ nodes \in Seq(Nodes) /\ Len(nodes) > 0 /\ more \in Seq(Nodes) /\ Len(more) > 0
  BY DEF Equal, IsTree
<1>2. Len(path) \in Nat
  OBVIOUS
<1>3. PICK r : IsWalk(r, nodes, path)
  BY <1>1, WalkExists
<1>4. PICK s : IsWalk(s, more, path)
  BY <1>1, WalkExists
<1>5. /\ r[0] = Root /\ s[0] = Root /\ NodeAt(nodes, path) = r[Len(path)]
      /\ NodeAt(more, path) = s[Len(path)]
      /\ \A k \in 1 .. Len(path) :
            /\ r[k] = IF r[k - 1] = 0 THEN 0 ELSE Child(nodes, r[k - 1], path[k])
            /\ s[k] = IF s[k - 1] = 0 THEN 0 ELSE Child(more, s[k - 1], path[k])
  BY <1>3, <1>4 DEF IsWalk
<1> DEFINE S == {k \in 0 .. Len(path) : SameNode(nodes, more, r[k], s[k])}
<1>6. 0 \in S
  <2>1. Root \in 0 .. Len(nodes) /\ Root \in 0 .. Len(more) /\ Root # 0
    BY <1>1, TreeNodes DEF Root
  <2>2. SameNode(nodes, more, Root, Root)
    BY <2>1 DEF SameNode, Label
  <2> QED
    BY <1>2, <1>5, <2>2
<1>7. ASSUME NEW k \in 0 .. Len(path) - 1, k \in S PROVE k + 1 \in S
  <2>1. k + 1 \in 1 .. Len(path) /\ (k + 1) - 1 = k /\ k + 1 \in 0 .. Len(path)
    BY <1>2
  <2>2. SameNode(nodes, more, r[k], s[k])
    BY <1>7
  <2>3. /\ r[k + 1] = IF r[k] = 0 THEN 0 ELSE Child(nodes, r[k], path[k + 1])
        /\ s[k + 1] = IF s[k] = 0 THEN 0 ELSE Child(more, s[k], path[k + 1])
    BY <1>5, <2>1
  <2>4. CASE r[k] # 0
    <3>1. SameNode(nodes, more, Child(nodes, r[k], path[k + 1]), Child(more, s[k], path[k + 1]))
      BY <2>2, <2>4, SameChild
    <3>2. s[k] # 0
      <4>1. ASSUME s[k] = 0 PROVE FALSE
        <5>1. Label(nodes, r[k]) = Label(nodes, 0) /\ r[k] \in 0 .. Len(nodes)
              /\ 0 \in 0 .. Len(nodes)
          BY <1>1, <2>2, <4>1, TreeNodes DEF SameNode, Label
        <5> QED
          BY <1>1, <2>4, <5>1, LabelsApart
      <4> QED
        BY <4>1
    <3> QED
      BY <2>1, <2>3, <2>4, <3>1, <3>2
  <2>5. CASE r[k] = 0
    <3>1. s[k] = 0
      <4>1. Label(more, s[k]) = Label(more, 0) /\ s[k] \in 0 .. Len(more)
            /\ 0 \in 0 .. Len(more)
        BY <1>1, <2>2, <2>5, TreeNodes DEF SameNode, Label
      <4> QED
        BY <1>1, <4>1, LabelsApart
    <3>2. SameNode(nodes, more, r[k + 1], s[k + 1])
      BY <2>2, <2>3, <2>5, <3>1
    <3> QED
      BY <2>1, <3>2
  <2> QED
    BY <2>4, <2>5
<1> HIDE DEF S
<1>8. 0 .. Len(path) \subseteq S
  BY <1>2, <1>6, <1>7, IntervalInduction
<1>9. Len(path) \in S
  BY <1>2, <1>8
<1> QED
  BY <1>5, <1>9 DEF S

\* The root is an empty directory for all that can be read of it.
HasRoot(nodes) == nodes[Root].isDir = TRUE /\ nodes[Root].length = 0

LEMMA EntryIs ==
  ASSUME NEW a, NEW b, a.isDir = b.isDir, a.length = b.length, a.length \in Nat,
         a.length > 0 => a.offset = b.offset
  PROVE  Entry(a) = Entry(b)
<1>1. CASE a.length = 0
  BY <1>1 DEF Entry, Contents
<1>2. CASE a.length > 0
  <2>1. a.offset = b.offset
    BY <1>2
  <2> QED
    BY <2>1 DEF Entry, Contents
<1> QED
  BY <1>1, <1>2

LEMMA SameEntry ==
  ASSUME NEW nodes, NEW more, Equal(nodes, more), HasRoot(nodes), HasRoot(more),
         NEW m, NEW n, SameNode(nodes, more, m, n), m # 0
  PROVE  n # 0 /\ Entry(nodes[m]) = Entry(more[n])
<1>1. IsTree(nodes) /\ IsTree(more)
  BY DEF Equal
<1>2. m \in 0 .. Len(nodes) /\ n \in 0 .. Len(more) /\ Label(nodes, m) = Label(more, n)
  BY DEF SameNode
<1>3. CASE m = Root
  <2>1. Label(more, n) = Label(more, Root) /\ Root \in 0 .. Len(more)
    BY <1>1, <1>2, <1>3, TreeNodes DEF Label, Root
  <2>2. n = Root
    BY <1>1, <1>2, <2>1, LabelsApart
  <2>3. Entry(nodes[Root]) = Entry(more[Root])
    <3> DEFINE a == nodes[Root]
               b == more[Root]
    <3>1. a.isDir = b.isDir /\ a.length = b.length /\ a.length = 0
      BY DEF HasRoot
    <3>2. a.length \in Nat /\ (a.length > 0 => a.offset = b.offset)
      BY <3>1
    <3> HIDE DEF a, b
    <3>3. Entry(a) = Entry(b)
      BY <3>1, <3>2, EntryIs
    <3> QED
      BY <3>3 DEF a, b
  <2> QED
    BY <1>3, <2>2, <2>3 DEF Root
<1>4. CASE m # Root
  <2>1. m \in Below(nodes)
    BY <1>1, <1>2, <1>4, TreeNodes DEF Root
  <2>2. PICK j \in Below(more) :
           /\ more[j].isDir = nodes[m].isDir /\ more[j].length = nodes[m].length
           /\ nodes[m].length > 0 => more[j].offset = nodes[m].offset
           /\ SameNode(nodes, more, m, j)
    BY <2>1, Counterpart
  <2>3. Label(more, j) = Label(more, n) /\ j \in 0 .. Len(more)
    BY <1>2, <2>2 DEF SameNode
  <2>4. j = n
    BY <1>1, <1>2, <2>3, LabelsApart
  <2>5. nodes[m].length \in Nat /\ j # 0
    BY <1>1, <2>1, <2>2, TreeNodes DEF Below
  <2>6. Entry(nodes[m]) = Entry(more[j])
    BY <2>2, <2>5, EntryIs
  <2> QED
    BY <2>4, <2>5, <2>6
<1> QED
  BY <1>3, <1>4

\* The paths of the nodes, by way of their parents, of the first n nodes.
ArePaths(f, nodes, n) ==
    f = [k \in 1 .. n |->
            IF k = Root THEN <<>> ELSE Append(f[nodes[k].parent], nodes[k].name)]

LEMMA PathsExist ==
  ASSUME NEW nodes, IsTree(nodes)
  PROVE  \E f : ArePaths(f, nodes, Len(nodes))
<1>1. Len(nodes) \in Nat /\ \A k \in 2 .. Len(nodes) : nodes[k].parent \in 1 .. k - 1
  BY TreeNodes DEF IsTree
<1> DEFINE S == {n \in 0 .. Len(nodes) : \E f : ArePaths(f, nodes, n)}
<1>2. 0 \in S
  <2> DEFINE f == [k \in 1 .. 0 |-> << >>]
  <2>1. \A k \in 1 .. 0 : FALSE
    OBVIOUS
  <2>2. ArePaths(f, nodes, 0)
    BY <2>1 DEF ArePaths
  <2> QED
    BY <1>1, <2>2
<1>3. ASSUME NEW n \in 0 .. Len(nodes) - 1, n \in S PROVE n + 1 \in S
  <2>1. PICK f : ArePaths(f, nodes, n)
    BY <1>3
  <2> DEFINE path(g, k) == IF k = Root THEN << >> ELSE Append(g[nodes[k].parent], nodes[k].name)
             g == [k \in 1 .. n + 1 |-> IF k = n + 1 THEN path(f, k) ELSE f[k]]
  <2>2. n \in Nat /\ n + 1 \in 0 .. Len(nodes)
    BY <1>1
  <2>3. \A k \in 1 .. n : f[k] = path(f, k)
    BY <2>1 DEF ArePaths
  <2>4. ASSUME NEW k \in 1 .. n + 1 PROVE g[k] = path(f, k)
    <3> HIDE DEF path
    <3>1. k \in 1 .. n \/ k = n + 1
      BY <2>2
    <3> QED
      BY <2>3, <2>4, <3>1
  <2>5. ASSUME NEW k \in 1 .. n + 1 PROVE path(f, k) = path(g, k)
    <3>1. CASE k = Root
      BY <3>1
    <3>2. CASE k # Root
      <4>1. k \in 2 .. Len(nodes)
        BY <1>1, <2>2, <2>5, <3>2 DEF Root
      <4>2. nodes[k].parent \in 1 .. n + 1 /\ nodes[k].parent # n + 1
        BY <1>1, <2>2, <2>5, <4>1
      <4>3. g[nodes[k].parent] = f[nodes[k].parent]
        BY <4>2
      <4> HIDE DEF g
      <4> QED
        BY <4>3
    <3> QED
      BY <3>1, <3>2
  <2>6. \A k \in 1 .. n + 1 : g[k] = path(g, k)
    <3> HIDE DEF path, g
    <3> QED
      BY <2>4, <2>5
  <2>7. g = [k \in 1 .. n + 1 |-> g[k]]
    OBVIOUS
  <2> HIDE DEF g
  <2>8. ArePaths(g, nodes, n + 1)
    BY <2>6, <2>7 DEF ArePaths
  <2> QED
    BY <2>2, <2>8
<1> HIDE DEF S
<1>4. 0 .. Len(nodes) \subseteq S
  BY <1>1, <1>2, <1>3, IntervalInduction
<1>5. Len(nodes) \in S
  BY <1>1, <1>4
<1> QED
  BY <1>5 DEF S

LEMMA PathsToIs ==
  ASSUME NEW nodes, IsTree(nodes)
  PROVE  \E path : /\ ArePaths(path, nodes, Len(nodes))
                   /\ PathsTo(nodes) = {path[n] : n \in DOMAIN nodes}
<1> DEFINE inline(f) == [k \in DOMAIN nodes |->
                            IF k = Root THEN <<>> ELSE Append(f[nodes[k].parent], nodes[k].name)]
           path == CHOOSE f : f = inline(f)
<1>1. DOMAIN nodes = 1 .. Len(nodes)
  BY TreeNodes
<1>2. PathsTo(nodes) = {path[n] : n \in DOMAIN nodes}
  BY DEF PathsTo
<1>3. PICK f : ArePaths(f, nodes, Len(nodes))
  BY PathsExist
<1>4. f = inline(f)
  BY <1>1, <1>3 DEF ArePaths
<1> HIDE DEF inline
<1>5. path = inline(path)
  BY <1>4
<1> HIDE DEF path
<1>6. ArePaths(path, nodes, Len(nodes))
  BY <1>1, <1>5 DEF ArePaths, inline
<1> QED
  BY <1>2, <1>6

\* A path that leads to a node is the path of that node.
LEMMA PathsLead ==
  ASSUME NEW nodes, IsTree(nodes)
  PROVE  {q \in PathsTo(nodes) : NodeAt(nodes, q) # 0} = {q \in Seq(Names) : NodeAt(nodes, q) # 0}
<1>1. /\ nodes \in Seq(Nodes) /\ Len(nodes) > 0 /\ nodes[Root].parent = 0
      /\ DOMAIN nodes = 1 .. Len(nodes) /\ Len(nodes) \in Nat /\ Root \in DOMAIN nodes
      /\ \A k \in 2 .. Len(nodes) : nodes[k].parent \in 1 .. k - 1
      /\ \A k \in DOMAIN nodes : nodes[k].name \in Names
  <2>1. \A k \in DOMAIN nodes : nodes[k].name \in Names
    BY TreeNodes, NodeFields
  <2> QED
    BY <2>1, TreeNodes DEF IsTree
<1>2. PICK path : /\ ArePaths(path, nodes, Len(nodes))
                  /\ PathsTo(nodes) = {path[n] : n \in DOMAIN nodes}
  BY PathsToIs
<1>3. \A k \in 1 .. Len(nodes) :
         path[k] = IF k = Root THEN <<>> ELSE Append(path[nodes[k].parent], nodes[k].name)
  BY <1>2 DEF ArePaths
<1> DEFINE T == {n \in 0 .. Len(nodes) : \A k \in 1 .. n : path[k] \in Seq(Names)}
<1>4. 0 \in T
  BY <1>1
<1>5. ASSUME NEW n \in 0 .. Len(nodes) - 1, n \in T PROVE n + 1 \in T
  <2>1. n \in Nat /\ n + 1 \in 1 .. Len(nodes) /\ n + 1 \in 0 .. Len(nodes)
    BY <1>1
  <2>2. path[n + 1] \in Seq(Names)
    <3>1. CASE n + 1 = Root
      <4>1. path[n + 1] = << >>
        BY <1>3, <2>1, <3>1
      <4>2. << >> \in Seq(Names)
        OBVIOUS
      <4> QED
        BY <4>1, <4>2, Zenon
    <3>2. CASE n + 1 # Root
      <4> DEFINE up == nodes[n + 1].parent
                 name == nodes[n + 1].name
      <4>1. n + 1 \in 2 .. Len(nodes) /\ name \in Names
        BY <1>1, <2>1, <3>2 DEF Root
      <4>2. up \in 1 .. n
        BY <1>1, <2>1, <4>1
      <4>3. path[n + 1] = Append(path[up], name)
        BY <1>3, <2>1, <3>2
      <4> HIDE DEF up, name
      <4>4. path[up] \in Seq(Names)
        BY <1>5, <4>2
      <4> QED
        BY <4>1, <4>3, <4>4
    <3> QED
      BY <3>1, <3>2
  <2>3. \A k \in 1 .. n + 1 : k \in 1 .. n \/ k = n + 1
    BY <2>1
  <2> QED
    BY <1>5, <2>1, <2>2, <2>3
<1> HIDE DEF T
<1>6. 0 .. Len(nodes) \subseteq T
  BY <1>1, <1>4, <1>5, IntervalInduction
<1>7. \A k \in DOMAIN nodes : path[k] \in Seq(Names)
  <2>1. Len(nodes) \in T
    BY <1>1, <1>6
  <2> QED
    BY <1>1, <2>1 DEF T
<1>8. ASSUME NEW q \in Seq(Names), NodeAt(nodes, q) # 0
      PROVE  q \in PathsTo(nodes)
  <2> DEFINE Leads(n) == \A s \in Seq(Names) :
                 Len(s) = n /\ NodeAt(nodes, s) # 0 =>
                    NodeAt(nodes, s) \in DOMAIN nodes /\ path[NodeAt(nodes, s)] = s
             S == {n \in 0 .. Len(q) : Leads(n)}
  <2>1. Len(q) \in Nat
    BY <1>8
  <2>2. 0 \in S
    <3>1. ASSUME NEW s \in Seq(Names), Len(s) = 0 PROVE s = << >>
      BY <3>1
    <3>2. NodeAt(nodes, << >>) = Root
      BY <1>1, RootFound
    <3>3. path[Root] = << >>
      BY <1>1, <1>3
    <3>4. Leads(0)
      BY <1>1, <3>1, <3>2, <3>3
    <3> QED
      BY <2>1, <3>4
  <2>3. ASSUME NEW n \in 0 .. Len(q) - 1, n \in S PROVE n + 1 \in S
    <3>1. ASSUME NEW s \in Seq(Names), Len(s) = n + 1, NodeAt(nodes, s) # 0
          PROVE  NodeAt(nodes, s) \in DOMAIN nodes /\ path[NodeAt(nodes, s)] = s
      <4> DEFINE name == s[Len(s)]
                 up == NodeAt(nodes, ParentOf(s))
                 c == Child(nodes, up, name)
      <4>1. s # << >>
        BY <2>1, <3>1
      <4>2. /\ Len(s) > 0 /\ ParentOf(s) \in Seq(Names) /\ Len(ParentOf(s)) = Len(s) - 1
            /\ \A k \in 1 .. Len(s) - 1 : ParentOf(s)[k] = s[k]
        BY <3>1, <4>1, ParentIs
      <4>3. NodeAt(nodes, s) = IF up = 0 THEN 0 ELSE c
        BY <1>1, <3>1, <4>1, LastStep
      <4>4. up # 0 /\ NodeAt(nodes, s) = c /\ c # 0
        <5> HIDE DEF up, c
        <5> QED
          BY <3>1, <4>3
      <4>5. c \in DOMAIN nodes /\ nodes[c].parent = up /\ nodes[c].name = name
        <5> HIDE DEF up, name
        <5> QED
          BY <1>1, <4>4, ChildFields
      <4>6. path[up] = ParentOf(s)
        <5>1. Len(ParentOf(s)) = n
          BY <2>1, <3>1, <4>2
        <5> QED
          BY <2>3, <4>2, <4>4, <5>1
      <4>7. c # Root
        <5> HIDE DEF c, up
        <5> QED
          BY <1>1, <4>4, <4>5
      <4>8. path[c] = Append(path[up], name)
        <5> HIDE DEF c, up, name
        <5> QED
          BY <1>1, <1>3, <4>5, <4>7
      <4>9. Append(ParentOf(s), name) = s
        <5> DEFINE p == ParentOf(s)
        <5>1. p \in Seq(Names) /\ Len(p) = Len(s) - 1 /\ \A k \in 1 .. Len(s) - 1 : p[k] = s[k]
          BY <4>2
        <5> HIDE DEF p
        <5>2. name \in Names /\ Len(s) \in Nat /\ Len(s) > 0
          BY <3>1, <4>2
        <5> DEFINE t == Append(p, s[Len(s)])
        <5>3. /\ t \in Seq(Names) /\ Len(t) = Len(s) /\ t[Len(s)] = s[Len(s)]
              /\ \A k \in 1 .. Len(s) - 1 : t[k] = s[k]
          BY <5>1, <5>2
        <5> HIDE DEF t
        <5>4. \A k \in 1 .. Len(s) : t[k] = s[k]
          BY <5>2, <5>3
        <5>5. t = s
          BY <3>1, <5>3, <5>4
        <5> QED
          BY <5>5 DEF t, p
      <4> QED
        BY <4>4, <4>5, <4>6, <4>8, <4>9
    <3>2. Leads(n + 1)
      BY <3>1
    <3> HIDE DEF Leads
    <3> QED
      BY <2>1, <3>2
  <2> HIDE DEF S
  <2>4. 0 .. Len(q) \subseteq S
    BY <2>1, <2>2, <2>3, IntervalInduction
  <2>5. Len(q) \in S
    BY <2>1, <2>4
  <2>6. NodeAt(nodes, q) \in DOMAIN nodes /\ path[NodeAt(nodes, q)] = q
    BY <1>8, <2>5 DEF S
  <2> QED
    BY <1>2, <2>6
<1>9. PathsTo(nodes) \subseteq Seq(Names)
  BY <1>2, <1>7
<1> QED
  BY <1>8, <1>9

\* Two trees that show the same have the same paths, and the same behind them.
LEMMA SameReach ==
  ASSUME NEW nodes, NEW more, Equal(nodes, more), HasRoot(nodes), HasRoot(more)
  PROVE  Reachable(nodes) = Reachable(more)
<1> DEFINE P(t) == {q \in Seq(Names) : NodeAt(t, q) # 0}
<1>1. IsTree(nodes) /\ IsTree(more) /\ Equal(more, nodes)
  BY EqualBoth DEF Equal
<1>2. /\ Reachable(nodes) = [p \in P(nodes) |-> Entry(nodes[NodeAt(nodes, p)])]
      /\ Reachable(more) = [p \in P(more) |-> Entry(more[NodeAt(more, p)])]
  BY <1>1, PathsLead DEF Reachable
<1>3. ASSUME NEW q \in Seq(Names), NodeAt(nodes, q) # 0
      PROVE  NodeAt(more, q) # 0 /\ Entry(nodes[NodeAt(nodes, q)]) = Entry(more[NodeAt(more, q)])
  BY <1>3, SameWalk, SameEntry
<1>4. ASSUME NEW q \in Seq(Names), NodeAt(more, q) # 0
      PROVE  NodeAt(nodes, q) # 0
  BY <1>1, <1>4, SameWalk, SameEntry
<1>5. P(nodes) = P(more)
  BY <1>3, <1>4
<1>6. \A p \in P(nodes) : Entry(nodes[NodeAt(nodes, p)]) = Entry(more[NodeAt(more, p)])
  BY <1>3
<1> QED
  BY <1>2, <1>5, <1>6

LEMMA RootOf ==
  ASSUME NEW nodes, NEW list, NEW n, IsTree(nodes), nodes[Root].isDir,
         FilesDescribed(nodes, list, n)
  PROVE  HasRoot(nodes)
<1>1. Root \in DOMAIN nodes /\ nodes[Root] \in Nodes
  BY TreeNodes
<1>2. nodes[Root].isDir \in BOOLEAN
  BY <1>1 DEF Nodes
<1> QED
  BY <1>1, <1>2 DEF FilesDescribed, HasRoot

-----------------------------------------------------------------------------
(* All of a call or nothing                                                *)

\* What is whole on disk in a call, and after one that crashed, is what the tree
\* was made of before the call, or what it is made of after it.
OneOf(list) == TreeAgrees(tree, list) \/ TreeAgrees(Completed, list)
CrashInv == wadPc \in Writing \union {"crashed"} /\ IsWhole(disk) => OneOf(ListOf(disk))

LEMMA InitCrash == ASSUME Init PROVE CrashInv
BY DEF Init, CrashInv, Writing

\* Between calls it is both.
LEMMA IdleOne ==
  ASSUME LumpsInv, ReloadInv, wadPc = "idle"
  PROVE  IsWhole(disk) /\ TreeAgrees(tree, ListOf(disk))
<1>1. IsWhole(disk) /\ Equivalent(ListOf(disk), descriptors) /\ TreeAgrees(tree, descriptors)
  BY IdleTree DEF ReloadInv, IdleInv
<1>2. IsDisk(disk) /\ descriptors \in Seq(Descriptors)
  BY DEF LumpsInv, MemoryInv, DiskInv
<1>3. ListOf(disk) \in Seq(Descriptors)
  BY <1>1, <1>2, ListIsTyped
<1>4. Equivalent(descriptors, ListOf(disk))
  BY <1>1 DEF Equivalent
<1> QED
  BY <1>1, <1>2, <1>3, <1>4, EquivalentAgrees

\* The steps that leave the file and the tree alone, from between two calls.
LEMMA CrashLeft ==
  ASSUME LumpsInv, ReloadInv, wadPc = "idle", UNCHANGED <<disk, tree>>
  PROVE  CrashInv'
<1>1. TreeAgrees(tree', ListOf(disk'))
  BY IdleOne
<1> QED
  BY <1>1 DEF CrashInv, OneOf

\* The steps of a call that write header and list.
LEMMA CrashWrites ==
  ASSUME CrashInv, ReloadInv', DiskStep, wadPc \in Writing, wadPc' \in Writing,
         UNCHANGED <<descriptors, tree, creation>>
  PROVE  CrashInv'
<1>1. Completed' = Completed /\ tree' = tree
  BY DEF Completed, Shifted
<1>2. CASE IsWhole(disk) /\ ListOf(disk') = ListOf(disk)
  BY <1>1, <1>2 DEF CrashInv, OneOf
<1>3. CASE wadPc' = "writeList" /\ ListOf(disk') = descriptors
  <2>1. TreeAgrees(Completed', descriptors')
    BY <1>3 DEF ReloadInv, TreeInv, Writing
  <2> QED
    BY <1>1, <1>3, <2>1 DEF CrashInv, OneOf
<1>4. CASE ~ IsWhole(disk')
  BY <1>4 DEF CrashInv
<1> QED
  BY <1>2, <1>3, <1>4 DEF DiskStep

\* A write from the start of a file breaks the list on disk.
LEMMA CrashWriteToFile ==
  ASSUME LumpsInv, NEW path \in Paths, NEW buffer \in Buffers, NEW offset \in WriteOffsets,
         offset = 0, WriteToFile(path, buffer, offset)
  PROVE  CrashInv'
<1>1. PICK n \in DOMAIN tree, count \in Nat : Extends(n, count, buffer, off + offset)
  BY WrittenIs, Zenon
<1>2. offset = 0 /\ off \in Nat
  BY DEF LumpsInv, MemoryInv
<1>3. /\ wadPc = "idle" /\ disk' = [disk EXCEPT !.cells = WrittenCells(count, buffer, off)]
      /\ count = 0 => wadPc' = "idle"
      /\ count # 0 => wadPc' = "writeNum"
      /\ num' = num
  BY <1>1, <1>2 DEF Extends
<1>4. CASE count = 0
  BY <1>3, <1>4 DEF CrashInv, Writing
<1>5. CASE count # 0
  <2> DEFINE cells == WrittenCells(count, buffer, off)
             new == off .. off + count - 1
             b == buffer[off - off + 1]
  <2>1. off \in new
    BY <1>2, <1>5
  <2>2. cells[off] = Byte(b)
    BY <2>1 DEF WrittenCells
  <2>3. disk.off = off /\ disk.num = num /\ num \in Nat
    BY <1>3 DEF LumpsInv, MemoryInv, DiskInv
  <2>4. num > 0
    <3>1. LumpsInv'
      BY WriteToFileInv
    <3> QED
      BY <1>3, <1>5, <3>1 DEF LumpsInv, MemoryInv, Writing
  <2> HIDE DEF cells, b
  <2>5. disk'.num = disk.num /\ disk'.off = disk.off /\ disk'.cells = cells
    <3>1. [disk EXCEPT !.cells = cells] = Disk(disk.num, disk.off, cells)
      BY DiskIsDisk, DiskReplaced, Zenon
    <3>2. disk' = Disk(disk.num, disk.off, cells)
      BY <1>3, <3>1, Zenon DEF cells
    <3> QED
      BY <3>2 DEF Disk
  <2>6. ASSUME IsWhole(disk') PROVE FALSE
    <3>1. IsDescriptor(disk', disk'.off + 0 * DescSize)
      BY <2>3, <2>4, <2>5, <2>6 DEF IsWhole
    <3>2. disk'.off + 0 * DescSize = off /\ 0 \in 0 .. DescSize - 1
      BY <1>2, <2>3, <2>5, SizesAssumption
    <3>3. "desc" \in DOMAIN disk'.cells[off]
      BY <3>1, <3>2 DEF IsDescriptor
    <3>4. "desc" \notin DOMAIN Byte(b)
      BY CellKinds
    <3> QED
      BY <2>2, <2>5, <3>3, <3>4
  <2> QED
    BY <2>6 DEF CrashInv
<1> QED
  BY <1>4, <1>5

\* The steps of the library but writeToFile, and a write from the start of a
\* file: what a step is where files are written from their start.
Quiet ==
    \/ LoadWhole \/ GoDown
    \/ \E path \in Paths :
          \/ CreateDirectory(path) \/ CreateFile(path) \/ CreateNothing(path)
          \/ WriteToNothing(path) \/ RefuseWrite(path)
    \/ NumReaches \/ OffReaches \/ DescriptorReaches \/ CallReturn
    \/ UNCHANGED vars
FromStart ==
    \E path \in Paths, buffer \in Buffers, offset \in WriteOffsets :
       offset = 0 /\ WriteToFile(path, buffer, offset)

LEMMA NextCrash ==
  ASSUME LumpsInv, ReloadInv, ReloadInv', CrashInv, [Sound]_vars, Quiet \/ FromStart
  PROVE  CrashInv'
<1>1. CASE LoadWhole
  <2>1. wadPc' = "idle"
    <3>1. IsDisk(disk) /\ IsWhole(disk)
      BY <1>1 DEF LumpsInv, DiskInv, LoadWhole, Load, ListIsWhole
    <3>2. Balances(Parse(ListOf(disk), disk.num))
      BY <3>1 DEF ReloadInv, FileInv
    <3> QED
      BY <1>1, <3>2, Zenon DEF LoadWhole, Load, ListOnDisk, Balances
  <2> QED
    BY <2>1 DEF CrashInv, Writing
<1>2. CASE GoDown
  BY <1>2 DEF GoDown, CrashInv, Writing
<1>3. ASSUME NEW path \in Paths, CreateDirectory(path) \/ CreateFile(path)
      PROVE  CrashInv'
  <2>1. wadPc = "idle" /\ UNCHANGED <<disk, tree>>
    BY <1>3 DEF CreateDirectory, CreateFile, Create
  <2> QED
    BY <2>1, CrashLeft
<1>4. ASSUME NEW path \in Paths,
             CreateNothing(path) \/ WriteToNothing(path) \/ RefuseWrite(path)
      PROVE  CrashInv'
  <2>1. wadPc = "idle" /\ UNCHANGED <<disk, tree>>
    BY <1>4 DEF CreateNothing, WriteToNothing, RefuseWrite, vars, memory
  <2> QED
    BY <2>1, CrashLeft
<1>5. CASE FromStart
  BY <1>5, CrashWriteToFile DEF FromStart
<1>6. CASE NumReaches \/ OffReaches \/ DescriptorReaches
  <2>1. /\ wadPc \in Writing /\ wadPc' \in Writing
        /\ UNCHANGED <<descriptors, tree, creation>>
    BY <1>6 DEF NumReaches, OffReaches, DescriptorReaches, WithParts, DescriptorCell, ListStart,
                memory, Writing
  <2>2. DiskStep
    BY NextDisk
  <2> QED
    BY <2>1, <2>2, CrashWrites
<1>7. CASE CallReturn
  BY <1>7 DEF CallReturn, CrashInv, Writing
<1>8. CASE UNCHANGED vars
  <2>1. UNCHANGED <<disk, tree, creation, wadPc>>
    BY <1>8 DEF vars, memory
  <2>2. Completed' = Completed
    BY <2>1 DEF Completed, Shifted
  <2> QED
    BY <2>1, <2>2 DEF CrashInv, OneOf
<1> QED
  BY <1>1, <1>2, <1>3, <1>4, <1>5, <1>6, <1>7, <1>8, Zenon DEF Quiet

\* What a load finds is what the agreeing tree shows.
LEMMA FoundReach ==
  ASSUME NEW nodes, NEW list \in Seq(Descriptors), TreeAgrees(nodes, list), HasRoot(nodes)
  PROVE  Reachable(Parse(list, Len(list)).nodes) = Reachable(nodes)
<1> DEFINE p == Parse(list, Len(list))
<1>1. Balances(p)
  BY DEF TreeAgrees
<1>2. TreeAgrees(p.nodes, list)
  BY <1>1, ParseAgrees
<1>3. FilesDescribed(p.nodes, list, Len(list))
  BY ParseDescribes
<1> HIDE DEF p
<1>4. /\ IsTree(p.nodes) /\ ChildrenInOrder(p.nodes) /\ p.nodes[Root].isDir
      /\ IsTree(nodes) /\ ChildrenInOrder(nodes) /\ View(nodes) = View(p.nodes)
  BY <1>2 DEF TreeAgrees, p
<1>5. Equal(p.nodes, nodes)
  BY <1>4 DEF Equal
<1>6. HasRoot(p.nodes)
  BY <1>3, <1>4, RootOf
<1> QED
  BY <1>5, <1>6, SameReach DEF p

\* The root of either tree of a process is an empty directory.
LEMMA RootsOf ==
  ASSUME LumpsInv, NEW nodes \in {tree, Completed}, IsTree(nodes), nodes[Root].isDir
  PROVE  HasRoot(nodes)
<1>1. /\ tree \in Seq(Nodes) /\ FilesDescribed(Completed, descriptors, Len(descriptors))
      /\ creation # NoCreation => creation.at \in Nat /\ creation.node \in Nodes
  BY DEF LumpsInv, MemoryInv
<1>2. CASE nodes = Completed
  BY <1>1, <1>2, RootOf
<1>3. CASE nodes = tree
  <2>1. /\ Root \in DOMAIN tree /\ tree[Root] \in Nodes
    BY <1>1, <1>3, TreeNodes
  <2>2. /\ Completed \in Seq(Nodes) /\ Len(Completed) >= Len(tree)
        /\ Completed[Root].isDir = tree[Root].isDir
        /\ Completed[Root].length = tree[Root].length
    BY <1>1, <2>1, CompletedIs
  <2>3. Root \in DOMAIN Completed
    BY <1>1, <2>1, <2>2
  <2>4. tree[Root].length = 0 /\ tree[Root].isDir \in BOOLEAN
    BY <1>1, <1>3, <2>1, <2>2, <2>3 DEF FilesDescribed, Nodes
  <2> QED
    BY <1>3, <2>4 DEF HasRoot
<1> QED
  BY <1>2, <1>3

\* A process that dies leaves the one or the other.
LEMMA CrashLeaves ==
  ASSUME "down" \notin CrashPoints, LumpsInv, ReloadInv, CrashInv, GoDown, ListIsWhole
  PROVE  \E nodes \in {tree, Completed} :
            \A found \in {Parse(ListOnDisk, disk.num).nodes} :
               Reachable(found) = Reachable(nodes)
<1> DEFINE list == ListOf(disk)
<1>1. wadPc \in {"idle", "crashed"} \union Writing
  BY DEF GoDown, LumpsInv, MemoryInv
<1>2. IsWhole(disk) /\ IsDisk(disk)
  BY DEF ListIsWhole, LumpsInv, DiskInv
<1>3. list \in Seq(Descriptors) /\ Len(list) = disk.num
  BY <1>2, ListIsTyped
<1>4. PICK nodes \in {tree, Completed} : TreeAgrees(nodes, list)
  <2>1. CASE wadPc = "idle"
    BY <2>1, IdleOne
  <2>2. CASE wadPc # "idle"
    BY <1>1, <1>2, <2>2 DEF CrashInv, OneOf
  <2> QED
    BY <2>1, <2>2
<1>5. HasRoot(nodes)
  BY <1>4, RootsOf DEF TreeAgrees
<1> HIDE DEF list
<1>6. Reachable(Parse(list, disk.num).nodes) = Reachable(nodes)
  BY <1>3, <1>4, <1>5, FoundReach
<1> QED
  BY <1>4, <1>6 DEF list, ListOnDisk

\* For a WAD file with balanced markers, and clients that name their directories
\* and write files from their start: wherever in a call the process dies, the
\* file it leaves has a torn list, of which nothing is said, or shows every
\* path and every byte the library served before the call, or after it, and
\* nothing else.  It is the order of the write(2)s that this is about, all of
\* which have reached the disk so far.
THEOREM CrashAllOrNothingAlways ==
  ASSUME BalancedDisks, DirectoriesNamed, WritesFromStart, "down" \notin CrashPoints
  PROVE  Spec => CrashAllOrNothing
<1> DEFINE Inv == LumpsInv /\ ReloadInv /\ CrashInv
           SoundInvs == astray = 0 => Inv
           Left == GoDown /\ ListIsWhole /\ astray = 0 =>
                      \E nodes \in {tree, Completed} :
                         \A found \in {Parse(ListOnDisk, disk.num).nodes} :
                            Reachable(found) = Reachable(nodes)
<1>1. Init => SoundInvs
  BY InitInv, InitReload, InitCrash
<1>2. ShapeInv /\ SoundInvs /\ [Next]_vars => SoundInvs'
  <2> SUFFICES ASSUME ShapeInv, SoundInvs, [Next]_vars, astray' = 0 PROVE Inv'
    OBVIOUS
  <2>1. astray = 0 /\ [Sound]_vars
    BY StepIsSound DEF ShapeInv
  <2>2. Quiet \/ FromStart
    BY <2>1 DEF Sound, Quiet, FromStart, WritesFromStart
  <2> QED
    BY <2>1, <2>2, SoundInv, NextReload, NextCrash
<1>3. SoundInvs => [Left]_vars
  BY CrashLeaves
<1> QED
  BY <1>1, <1>2, <1>3, ShapeInvAlways, PTL DEF Spec, CrashAllOrNothing

-----------------------------------------------------------------------------
(* Directories above                                                       *)

\* What has something below it is a directory, and so is n.
DirsAbove(nodes, n) ==
    /\ n \in DOMAIN nodes => nodes[n].isDir
    /\ \A k \in Below(nodes) : nodes[nodes[k].parent].isDir

\* A node put below a directory.
LEMMA NodeBelow ==
  ASSUME NEW nodes, IsTree(nodes), NEW cur \in DOMAIN nodes, DirsAbove(nodes, cur),
         NEW node \in Nodes, node.parent = cur, NEW next,
         LET more == Append(nodes, node)
         IN  next \in DOMAIN more => \/ next = Len(nodes) + 1 /\ node.isDir
                                     \/ next = cur
                                     \/ next = nodes[cur].parent
  PROVE  DirsAbove(Append(nodes, node), next)
<1> DEFINE more == Append(nodes, node)
<1>1. /\ nodes \in Seq(Nodes) /\ Len(nodes) \in Nat /\ DOMAIN nodes = 1 .. Len(nodes)
      /\ nodes[Root].parent = 0 /\ Len(nodes) > 0
      /\ \A k \in Below(nodes) : nodes[k].parent \in DOMAIN nodes
  BY TreeNodes DEF IsTree
<1>2. /\ DOMAIN more = 1 .. Len(nodes) + 1 /\ \A k \in DOMAIN nodes : more[k] = nodes[k]
      /\ more[Len(nodes) + 1] = node
  BY <1>1
<1> HIDE DEF more
<1>3. nodes[cur].isDir /\ \A k \in Below(nodes) : nodes[nodes[k].parent].isDir
  BY DEF DirsAbove
<1>4. ASSUME NEW k \in Below(more) PROVE more[more[k].parent].isDir
  <2>1. CASE k \in DOMAIN nodes
    <3>1. k \in Below(nodes)
      BY <1>4, <2>1 DEF Below
    <3> QED
      BY <1>1, <1>2, <1>3, <2>1, <3>1
  <2>2. CASE k = Len(nodes) + 1
    BY <1>2, <1>3, <2>2
  <2> QED
    BY <1>1, <1>2, <1>4, <2>1, <2>2 DEF Below
<1>5. ASSUME next \in DOMAIN more PROVE more[next].isDir
  <2>1. CASE next = Len(nodes) + 1 /\ node.isDir
    BY <1>2, <2>1
  <2>2. CASE next = cur
    BY <1>2, <1>3, <2>2
  <2>3. CASE next = nodes[cur].parent
    <3>1. next # 0
      BY <1>1, <1>2, <1>5
    <3>2. cur \in Below(nodes)
      BY <1>1, <2>3, <3>1 DEF Below
    <3> QED
      BY <1>1, <1>2, <1>3, <2>3, <3>2
  <2> QED
    BY <1>5, <2>1, <2>2, <2>3 DEF more
<1> QED
  BY <1>4, <1>5 DEF DirsAbove, more

\* A step of parse puts nodes below directories only.
LEMMA StepAbove ==
  ASSUME NEW i \in Nat, NEW p, RunState(p, i), NEW d \in Descriptors, p.cur # 0,
         DirsAbove(p.nodes, p.cur)
  PROVE  LET q == ParseStep(p, i, d) IN DirsAbove(q.nodes, q.cur)
<1> DEFINE q == ParseStep(p, i, d)
           nodes == p.nodes
           cur == p.cur
<1>1. IsState(p) /\ IsTree(nodes) /\ cur \in DOMAIN nodes
  BY RunFields DEF RunState
<1>2. /\ nodes \in Seq(Nodes) /\ Len(nodes) \in Nat /\ DOMAIN nodes = 1 .. Len(nodes)
      /\ nodes[cur] \in Nodes /\ nodes[cur].parent \in Nat /\ nodes[Root].parent = 0
  BY <1>1, TreeNodes DEF IsTree
<1>3. CASE Opens(p, d)
  <2> DEFINE node == DirNode(DirName(d), cur, i, 0)
  <2>1. q.nodes = Append(nodes, node) /\ q.cur = Len(nodes) + 1
    BY <1>1, <1>3, StepFields
  <2>2. node.parent = cur /\ node.isDir = TRUE
    BY DEF DirNode
  <2>3. node \in Nodes
    <3>1. DirName(d) \in Names
      BY PlainIsName DEF DirName, Descriptors
    <3>2. cur \in Nat
      BY <1>1, <1>2
    <3> QED
      BY <3>1, <3>2 DEF DirNode, Nodes
  <2> HIDE DEF node, cur, nodes, q
  <2>4. DirsAbove(Append(nodes, node), Len(nodes) + 1)
    BY <1>1, <2>2, <2>3, NodeBelow DEF nodes, cur
  <2> QED
    BY <2>1, <2>4 DEF q
<1>4. CASE Closes(p, d)
  <2>1. q.nodes = EndSet(nodes, cur, i) /\ q.cur = nodes[cur].parent
    BY <1>1, <1>4, StepFields
  <2> DEFINE more == EndSet(nodes, cur, i)
  <2>2. /\ DOMAIN more = DOMAIN nodes
        /\ \A k \in DOMAIN nodes : more[k].isDir = nodes[k].isDir /\ more[k].parent = nodes[k].parent
    <3> HIDE DEF nodes, cur
    <3>1. [nodes[cur] EXCEPT !.end = i].isDir = nodes[cur].isDir
          /\ [nodes[cur] EXCEPT !.end = i].parent = nodes[cur].parent
      BY <1>2, EndReplaced
    <3> QED
      BY <1>1, <1>2, <3>1 DEF EndSet
  <2> HIDE DEF more
  <2>3. nodes[cur].isDir /\ \A k \in Below(nodes) : nodes[nodes[k].parent].isDir
    BY <1>1 DEF DirsAbove
  <2>4. \A k \in Below(nodes) : nodes[k].parent \in DOMAIN nodes
    BY <1>1, TreeNodes
  <2>5. ASSUME NEW k \in Below(more) PROVE more[more[k].parent].isDir
    BY <2>2, <2>3, <2>4, <2>5 DEF Below
  <2>6. ASSUME nodes[cur].parent \in DOMAIN more PROVE more[nodes[cur].parent].isDir
    <3>1. cur # Root
      BY <1>2, <2>2, <2>6
    <3> QED
      BY <1>1, <2>2, <2>3, <2>6, <3>1 DEF Below
  <2>7. DirsAbove(more, nodes[cur].parent)
    BY <2>5, <2>6 DEF DirsAbove
  <2> QED
    BY <2>1, <2>7 DEF more
<1>5. CASE ~ Opens(p, d) /\ ~ Closes(p, d)
  <2> DEFINE node == FileNode(d, cur, i)
             next == IF p.left = 1 THEN nodes[cur].parent ELSE cur
  <2>1. q.nodes = Append(nodes, node) /\ q.cur = next
    BY <1>1, <1>5, StepFields
  <2>2. node.parent = cur
    BY DEF FileNode
  <2>3. node \in Nodes
    <3>1. cur \in Nat
      BY <1>1, <1>2
    <3> QED
      BY <3>1 DEF FileNode, Nodes, Descriptors
  <2>4. next = cur \/ next = nodes[cur].parent
    OBVIOUS
  <2> HIDE DEF node, next, cur, nodes, q
  <2>5. DirsAbove(Append(nodes, node), next)
    BY <1>1, <2>2, <2>3, <2>4, NodeBelow DEF nodes, cur
  <2> QED
    BY <2>1, <2>5 DEF q
<1> QED
  BY <1>3, <1>4, <1>5

\* In what parse makes of a balanced list, files have nothing below them.
LEMMA ParseAbove ==
  ASSUME NEW list \in Seq(Descriptors), Balances(Parse(list, Len(list)))
  PROVE  DirsAbove(Parse(list, Len(list)).nodes, Root)
<1>1. Len(list) \in Nat
  OBVIOUS
<1>2. PICK f : IsRun(f, list)
  BY BalancedRuns
<1>3. /\ Parse(list, Len(list)) = f[Len(list)] /\ f[0] = ParseStart(Len(list))
      /\ \A k \in 0 .. Len(list) : RunState(f[k], k) /\ f[k].cur # 0
      /\ \A k \in 0 .. Len(list) - 1 : f[k + 1] = ParseStep(f[k], k, list[k + 1])
  <2>1. \A k \in 0 .. Len(list) - 1 : k + 1 \in 1 .. Len(list) /\ (k + 1) - 1 = k
    BY <1>1
  <2> QED
    BY <1>2, <2>1 DEF IsRun, IsParse
<1> DEFINE S == {k \in 0 .. Len(list) : DirsAbove(f[k].nodes, f[k].cur)}
<1>4. 0 \in S
  <2>1. f[0].nodes = << RootNode(Len(list)) >> /\ RootNode(Len(list)).isDir = TRUE
    <3>1. RootNode(Len(list)).isDir = TRUE
      BY DEF RootNode, DirNode
    <3>2. f[0].nodes = << RootNode(Len(list)) >>
      BY <1>3 DEF ParseStart
    <3> QED
      BY <3>1, <3>2
  <2> DEFINE root == RootNode(Len(list))
             nodes == << root >>
  <2>2. root.isDir = TRUE
    BY <2>1
  <2> HIDE DEF root
  <2>3. DOMAIN nodes = {1} /\ nodes[1] = root
    OBVIOUS
  <2>4. Below(nodes) = {}
    BY <2>3 DEF Below, Root
  <2>5. DirsAbove(nodes, f[0].cur)
    BY <2>2, <2>3, <2>4 DEF DirsAbove
  <2> QED
    BY <1>1, <2>1, <2>5 DEF root
<1>5. ASSUME NEW k \in 0 .. Len(list) - 1, k \in S PROVE k + 1 \in S
  <2>1. k \in 0 .. Len(list) /\ k + 1 \in 0 .. Len(list) /\ k \in Nat /\ list[k + 1] \in Descriptors
    BY <1>1
  <2>2. DirsAbove(f[k + 1].nodes, f[k + 1].cur)
    BY <1>3, <1>5, <2>1, StepAbove
  <2> QED
    BY <2>1, <2>2
<1> HIDE DEF S
<1>6. 0 .. Len(list) \subseteq S
  BY <1>1, <1>4, <1>5, IntervalInduction
<1>7. Len(list) \in S
  BY <1>1, <1>6
<1>8. f[Len(list)].cur = Root
  BY <1>3 DEF Balances
<1> QED
  BY <1>3, <1>7, <1>8 DEF S

-----------------------------------------------------------------------------
(* What is shown of a tree and a disk                                      *)

ByteIn(d, cell) ==
    IF cell \in DOMAIN d.cells /\ "byte" \in DOMAIN d.cells[cell]
    THEN d.cells[cell].byte ELSE "junk"

BytesIn(d, offset, length) ==
    IF length = 0 THEN <<>> ELSE [k \in 1 .. length |-> ByteIn(d, offset + k - 1)]

EntryIn(d, node) == [isDir |-> node.isDir, bytes |-> BytesIn(d, node.offset, node.length)]

Leading(nodes) == {q \in Seq(Names) : NodeAt(nodes, q) # 0}

Shown(d, nodes) == [p \in Leading(nodes) |-> EntryIn(d, nodes[NodeAt(nodes, p)])]

\* It is what getContents reads.
LEMMA EntryShown ==
  ASSUME NEW node \in Nodes
  PROVE  Entry(node) = EntryIn(disk, node)
<1>0. node.length \in Nat /\ node.offset \in Nat
  BY NodeFields
<1>1. CASE node.length = 0
  BY <1>1 DEF Entry, EntryIn, Contents, BytesIn
<1>2. CASE node.length > 0
  <2>1. 0 + node.length = node.length /\ ~ 0 >= node.length /\ ~ 0 + node.length > node.length
    BY <1>0, <1>2
  <2>2. Contents(node, node.length, 0) = [k \in 1 .. node.length |-> ByteAt(node.offset + 0 + k - 1)]
    BY <2>1 DEF Contents
  <2>3. \A k \in 1 .. node.length : node.offset + 0 + k - 1 = node.offset + k - 1
    BY <1>0
  <2>4. \A c : ByteAt(c) = ByteIn(disk, c)
    BY DEF ByteAt, ByteIn
  <2>5. BytesIn(disk, node.offset, node.length)
           = [k \in 1 .. node.length |-> ByteIn(disk, node.offset + k - 1)]
    BY <1>2 DEF BytesIn
  <2>6. \A k \in 1 .. node.length :
            ByteAt(node.offset + 0 + k - 1) = ByteIn(disk, node.offset + k - 1)
    BY <2>3, <2>4
  <2>7. Contents(node, node.length, 0) = BytesIn(disk, node.offset, node.length)
    BY <2>2, <2>5, <2>6
  <2> QED
    BY <2>7 DEF EntryIn, Entry
<1> QED
  BY <1>0, <1>1, <1>2

\* A path that leads to a node leads to one of the tree.
LEMMA LeadsToNode ==
  ASSUME NEW nodes, IsTree(nodes), NEW p \in Leading(nodes)
  PROVE  /\ p \in Seq(Names) /\ NodeAt(nodes, p) \in DOMAIN nodes
         /\ nodes[NodeAt(nodes, p)] \in Nodes /\ nodes[NodeAt(nodes, p)].length \in Nat
<1>1. nodes \in Seq(Nodes) /\ Len(nodes) > 0 /\ DOMAIN nodes = 1 .. Len(nodes) /\ Len(nodes) \in Nat
  BY TreeNodes DEF IsTree
<1>2. p \in Seq(Names) /\ NodeAt(nodes, p) # 0
  BY DEF Leading
<1>3. NodeAt(nodes, p) \in 0 .. Len(nodes)
  BY <1>1, <1>2, NodeAtIsNode
<1>4. NodeAt(nodes, p) \in DOMAIN nodes
  BY <1>1, <1>2, <1>3
<1> QED
  BY <1>2, <1>4, TreeNodes

\* A client reaches what is shown.
LEMMA ReachShown ==
  ASSUME NEW nodes, IsTree(nodes)
  PROVE  Reachable(nodes) = Shown(disk, nodes)
<1>1. {q \in PathsTo(nodes) : NodeAt(nodes, q) # 0} = Leading(nodes)
  BY PathsLead DEF Leading
<1>2. \A p \in Leading(nodes) : nodes[NodeAt(nodes, p)] \in Nodes
  BY LeadsToNode
<1>3. \A p \in Leading(nodes) :
          Entry(nodes[NodeAt(nodes, p)]) = EntryIn(disk, nodes[NodeAt(nodes, p)])
  BY <1>2, EntryShown
<1>4. Reachable(nodes) = [p \in Leading(nodes) |-> Entry(nodes[NodeAt(nodes, p)])]
  BY <1>1 DEF Reachable
<1> QED
  BY <1>3, <1>4 DEF Shown

\* CHOOSE chooses the only one there is.
LEMMA FilesShown ==
  ASSUME IsTree(Served)
  PROVE  (CHOOSE f \in {Reachable(nodes) : nodes \in {Served}} : TRUE) = Shown(disk, Served)
<1> DEFINE R == {Reachable(nodes) : nodes \in {Served}}
<1>1. R = {Reachable(Served)}
  OBVIOUS
<1>2. (CHOOSE f \in R : TRUE) \in R
  BY <1>1
<1> HIDE DEF R
<1>3. (CHOOSE f \in R : TRUE) = Reachable(Served)
  BY <1>1, <1>2
<1> QED
  BY <1>3, ReachShown DEF R

\* The variable of FileTree, as Files maps it.
fs == CHOOSE f \in {Reachable(nodes) : nodes \in {Served}} : TRUE

\* It is what is shown of the tree that is served,
LEMMA FsShown == IsTree(Served) => fs = Shown(disk, Served)
BY FilesShown DEF fs

\* and after a step.
LEMMA FsShownNext == (IsTree(Served) => fs = Shown(disk, Served))'
BY FsShown, PTL

-----------------------------------------------------------------------------
(* What is shown after a step                                              *)

\* Trees of the same nodes, names and parents.
SameNodes(nodes, more) == Grown(nodes, more) /\ Len(more) = Len(nodes)

\* They have the same paths.
LEMMA SameLeading ==
  ASSUME NEW nodes, NEW more, SameNodes(nodes, more)
  PROVE  /\ Leading(more) = Leading(nodes)
         /\ \A p \in Leading(nodes) : NodeAt(more, p) = NodeAt(nodes, p)
<1>1. /\ nodes \in Seq(Nodes) /\ more \in Seq(Nodes) /\ Len(nodes) > 0 /\ Len(more) = Len(nodes)
      /\ \A n \in DOMAIN nodes : more[n].name = nodes[n].name /\ more[n].parent = nodes[n].parent
  BY DEF SameNodes, Grown
<1>2. DOMAIN more = DOMAIN nodes /\ Len(nodes) \in Nat
  BY <1>1
<1>3. Grown(more, nodes) /\ Grown(nodes, more)
  BY <1>1, <1>2 DEF Grown, SameNodes
<1>4. \A p \in Seq(Names) : NodeAt(nodes, p) # 0 => NodeAt(more, p) = NodeAt(nodes, p)
  BY <1>3, NodeStays
<1>5. \A p \in Seq(Names) : NodeAt(more, p) # 0 => NodeAt(nodes, p) = NodeAt(more, p)
  BY <1>3, NodeStays
<1> QED
  BY <1>4, <1>5 DEF Leading

\* They show the same if they have the same entries.
LEMMA ShownSame ==
  ASSUME NEW d, NEW e, NEW nodes, NEW more, IsTree(nodes), SameNodes(nodes, more),
         \A n \in DOMAIN nodes : EntryIn(e, more[n]) = EntryIn(d, nodes[n])
  PROVE  Shown(e, more) = Shown(d, nodes)
<1>1. /\ Leading(more) = Leading(nodes)
      /\ \A p \in Leading(nodes) : NodeAt(more, p) = NodeAt(nodes, p)
  BY SameLeading
<1>2. \A p \in Leading(nodes) : NodeAt(nodes, p) \in DOMAIN nodes
  BY LeadsToNode
<1>3. \A p \in Leading(nodes) :
          EntryIn(e, more[NodeAt(more, p)]) = EntryIn(d, nodes[NodeAt(nodes, p)])
  BY <1>1, <1>2
<1> QED
  BY <1>1, <1>3 DEF Shown

\* Nothing is written before the list.
LEMMA SoundBytes ==
  ASSUME ShapeInv, [Sound]_vars, NEW c \in Nat, c < off
  PROVE  CellStays(disk.cells, disk'.cells, c)
<1>1. CASE wadPc # "down"
  <2>1. Sound => Next
    BY DEF Sound, Next, LoadWad, WriteNum, WriteOff, WriteDescriptor
  <2>2. [Next]_vars
    BY <2>1
  <2> QED
    BY <1>1, <2>2, WritesFromList
<1>2. CASE wadPc = "down"
  <2>1. [Next]_vars
    <3>1. Sound => Next
      BY DEF Sound, Next, LoadWad, WriteNum, WriteOff, WriteDescriptor
    <3> QED
      BY <3>1
  <2>2. disk' = disk
    BY <1>2, <2>1, NextShape DEF StepKeeps
  <2> QED
    BY <2>2 DEF CellStays
<1> QED
  BY <1>1, <1>2

\* Bytes that lie before the list stay as they are.
LEMMA BytesStay ==
  ASSUME ShapeInv, LumpsInv, [Sound]_vars, NEW o \in Nat, NEW len \in Nat, o + len <= off
  PROVE  BytesIn(disk', o, len) = BytesIn(disk, o, len)
<1>1. off \in Nat
  BY DEF LumpsInv, MemoryInv
<1>2. ASSUME NEW k \in 1 .. len
      PROVE  ByteIn(disk', o + k - 1) = ByteIn(disk, o + k - 1)
  <2> DEFINE c == o + k - 1
  <2>1. c \in Nat /\ c < off
    BY <1>1
  <2> HIDE DEF c
  <2>2. CellStays(disk.cells, disk'.cells, c)
    BY <2>1, SoundBytes
  <2>3. ByteIn(disk', c) = ByteIn(disk, c)
    BY <2>2 DEF CellStays, ByteIn
  <2> QED
    BY <2>3 DEF c
<1> QED
  BY <1>2 DEF BytesIn

\* The bytes of a file stay where they are.
LEMMA EntryStays ==
  ASSUME ShapeInv, LumpsInv, [Sound]_vars, NEW n \in DOMAIN tree, NEW node,
         node.isDir = tree[n].isDir, node.length = tree[n].length,
         tree[n].length > 0 => node.offset = tree[n].offset
  PROVE  EntryIn(disk', node) = EntryIn(disk, tree[n])
<1> DEFINE o == tree[n].offset
           len == tree[n].length
<1>1. o \in Nat /\ len \in Nat /\ off \in Nat
  <2>1. tree[n] \in Nodes
    BY DEF LumpsInv, MemoryInv
  <2> QED
    BY <2>1, NodeFields DEF LumpsInv, MemoryInv
<1>2. CASE len = 0
  BY <1>2 DEF EntryIn, BytesIn
<1>3. CASE len > 0
  <2>1. o + len <= off
    BY <1>3, InvApart DEF FilesApart
  <2>2. node.offset = o /\ node.length = len
    BY <1>3
  <2> HIDE DEF o, len
  <2>3. BytesIn(disk', o, len) = BytesIn(disk, o, len)
    BY <1>1, <2>1, BytesStay
  <2> QED
    BY <2>2, <2>3 DEF EntryIn, o, len
<1> QED
  BY <1>1, <1>2, <1>3

\* What a step may do to what is shown: an empty entry below a directory that is
\* not a map, bytes for an empty file, or nothing.
EmptyEntry(isDir) == [isDir |-> isDir, bytes |-> <<>>]
Creates(f, g) ==
    \E p \in DOMAIN g \ DOMAIN f, isDir \in BOOLEAN :
       /\ p # <<>> /\ ParentOf(p) \in DOMAIN f /\ f[ParentOf(p)].isDir
       /\ ParentOf(p) # <<>> => ParentOf(p)[Len(ParentOf(p))].mark # "map"
       /\ g = [q \in DOMAIN f \union {p} |-> IF q = p THEN EmptyEntry(isDir) ELSE f[q]]
Fills(f, g) ==
    \E p \in DOMAIN f :
       /\ f[p] = EmptyEntry(FALSE)
       /\ g[p].isDir = FALSE /\ g[p].bytes # <<>>
       /\ g[p] = [isDir |-> FALSE, bytes |-> g[p].bytes]
       /\ g = [q \in DOMAIN f |-> IF q = p THEN g[p] ELSE f[q]]
StepShown(f, g) == g = f \/ Creates(f, g) \/ Fills(f, g)

\* The tree in memory is one.
UpInv == wadPc # "down" => IsTree(tree)
\* The node a running createX has yet to add goes below a directory that is
\* not a map, where a path leads.
PlaceInv ==
    creation # NoCreation =>
       /\ creation.node.length = 0
       /\ \E p \in Seq(Names) :
             /\ NodeAt(tree, p) # 0 /\ TakesChildren(NodeAt(tree, p))
             /\ creation.node.parent = NodeAt(tree, p)

\* The steps that leave the tree alone.
LEMMA TreeLeft ==
  ASSUME ShapeInv, LumpsInv, [Sound]_vars, IsTree(tree), tree' = tree
  PROVE  Shown(disk', tree') = Shown(disk, tree)
<1>1. \A n \in DOMAIN tree : EntryIn(disk', tree[n]) = EntryIn(disk, tree[n])
  BY EntryStays
<1>2. SameNodes(tree, tree)
  <2>1. tree \in Seq(Nodes) /\ Len(tree) > 0 /\ Len(tree) <= Len(tree)
    BY TreeNodes DEF IsTree
  <2> QED
    BY <2>1 DEF SameNodes, Grown
<1>3. Shown(disk', tree) = Shown(disk, tree)
  BY <1>1, <1>2, ShownSame
<1> QED
  BY <1>3

\* A node of the tree by way of its parent.
LEMMA LastName ==
  ASSUME NEW nodes, IsTree(nodes), NEW p \in Leading(nodes), p # << >>
  PROVE  /\ ParentOf(p) \in Leading(nodes)
         /\ nodes[NodeAt(nodes, p)].parent = NodeAt(nodes, ParentOf(p))
         /\ nodes[NodeAt(nodes, p)].name = p[Len(p)]
<1>1. /\ nodes \in Seq(Nodes) /\ Len(nodes) > 0 /\ p \in Seq(Names) /\ NodeAt(nodes, p) # 0
  BY DEF IsTree, Leading
<1> DEFINE up == NodeAt(nodes, ParentOf(p))
           name == p[Len(p)]
<1>2. NodeAt(nodes, p) = IF up = 0 THEN 0 ELSE Child(nodes, up, name)
  BY <1>1, LastStep
<1>3. ParentOf(p) \in Seq(Names)
  BY <1>1, ParentIs
<1> HIDE DEF up, name
<1>4. up # 0 /\ NodeAt(nodes, p) = Child(nodes, up, name)
  BY <1>1, <1>2
<1>5. LET c == Child(nodes, up, name)
      IN  c \in DOMAIN nodes /\ nodes[c].parent = up /\ nodes[c].name = name
  BY <1>1, <1>4, ChildFields
<1> QED
  BY <1>3, <1>4, <1>5 DEF up, name, Leading

-----------------------------------------------------------------------------
(* The end of a createX                                                    *)

\* A path that is not empty is its parent and its last name.
LEMMA Rejoined ==
  ASSUME NEW s \in Seq(Names), s # << >>
  PROVE  Append(ParentOf(s), s[Len(s)]) = s
<1> DEFINE p == ParentOf(s)
           t == Append(p, s[Len(s)])
<1>1. Len(s) \in Nat /\ Len(s) > 0 /\ p \in Seq(Names) /\ Len(p) = Len(s) - 1
      /\ \A k \in 1 .. Len(s) - 1 : p[k] = s[k]
  BY ParentIs
<1> HIDE DEF p
<1>2. s[Len(s)] \in Names
  BY <1>1
<1>3. /\ t \in Seq(Names) /\ Len(t) = Len(s) /\ t[Len(s)] = s[Len(s)]
      /\ \A k \in 1 .. Len(s) - 1 : t[k] = s[k]
  BY <1>1, <1>2
<1> HIDE DEF t
<1>4. \A k \in 1 .. Len(s) : t[k] = s[k]
  BY <1>1, <1>3
<1>5. t = s
  BY <1>3, <1>4
<1> QED
  BY <1>5 DEF t, p

\* And the other way round.
LEMMA Joined ==
  ASSUME NEW p \in Seq(Names), NEW name \in Names
  PROVE  LET s == Append(p, name)
         IN  s \in Seq(Names) /\ s # << >> /\ ParentOf(s) = p /\ s[Len(s)] = name
<1> DEFINE s == Append(p, name)
<1>1. /\ s \in Seq(Names) /\ Len(s) = Len(p) + 1 /\ s[Len(s)] = name /\ Len(p) \in Nat
      /\ \A k \in 1 .. Len(p) : s[k] = p[k]
  OBVIOUS
<1> HIDE DEF s
<1>2. s # << >>
  BY <1>1
<1>3. /\ ParentOf(s) \in Seq(Names) /\ Len(ParentOf(s)) = Len(p)
      /\ \A k \in 1 .. Len(p) : ParentOf(s)[k] = p[k]
  BY <1>1, <1>2, ParentIs
<1>4. ParentOf(s) = p
  BY <1>3
<1> QED
  BY <1>1, <1>2, <1>4 DEF s

\* A new node is one new entry, or is hidden by an older one of the same path.
LEMMA LeafShown ==
  ASSUME NEW nodes, NEW more, AddsLeaf(nodes, more), IsTree(nodes), IsTree(more),
         NEW d, \A n \in DOMAIN nodes : EntryIn(d, more[n]) = EntryIn(d, nodes[n]),
         NEW p \in Leading(nodes), more[Len(more)].parent = NodeAt(nodes, p),
         nodes[NodeAt(nodes, p)].isDir, nodes[NodeAt(nodes, p)].name.mark # "map",
         more[Len(more)].length = 0
  PROVE  StepShown(Shown(d, nodes), Shown(d, more))
<1> DEFINE leaf == Len(more)
           up == NodeAt(nodes, p)
           name == more[leaf].name
           new == Append(p, name)
<1>1. /\ nodes \in Seq(Nodes) /\ Len(nodes) > 0 /\ more \in Seq(Nodes) /\ Len(more) > 0
      /\ Grown(nodes, more) /\ IsRooted(nodes)
      /\ leaf \in DOMAIN more /\ more[leaf] \in Nodes /\ name \in Names /\ more[leaf].isDir \in BOOLEAN
  <2>1. leaf \in DOMAIN more /\ more[leaf] \in Nodes
    BY TreeNodes DEF AddsLeaf, IsTree
  <2> QED
    BY <2>1, NodeFields DEF AddsLeaf, IsTree
<1>2. p \in Seq(Names) /\ up # 0 /\ up \in DOMAIN nodes
  BY LeadsToNode DEF Leading
<1>3. more[leaf].parent = up /\ more[leaf].name = name
  OBVIOUS
<1> HIDE DEF name, leaf
<1>4. new \in Seq(Names) /\ new # << >> /\ ParentOf(new) = p /\ new[Len(new)] = name
  BY <1>1, <1>2, Joined
<1>5. ASSUME NEW q \in Seq(Names), NodeAt(nodes, q) = 0, NodeAt(more, q) # 0
      PROVE  q = new /\ NodeAt(more, q) = leaf
  <2>1. /\ q # << >> /\ NodeAt(nodes, ParentOf(q)) # 0 /\ NodeAt(more, q) = leaf
        /\ more[leaf].parent = NodeAt(nodes, ParentOf(q))
        /\ more[leaf].name = q[Len(q)]
    BY <1>5, LeafFound DEF leaf
  <2>2. ParentOf(q) \in Seq(Names)
    BY <2>1, ParentIs
  <2>3. ParentOf(q) = p
    BY <1>1, <1>2, <1>3, <2>1, <2>2, PathsApart
  <2>4. Append(ParentOf(q), q[Len(q)]) = q
    BY <2>1, Rejoined
  <2>5. q = new
    BY <1>3, <2>1, <2>3, <2>4
  <2> QED
    BY <2>1, <2>5
<1>6. \A q \in Seq(Names) : NodeAt(nodes, q) # 0 => NodeAt(more, q) = NodeAt(nodes, q)
  BY <1>1, NodeStays
<1> HIDE DEF new, up
<1>7. ASSUME NEW q \in Leading(nodes)
      PROVE  q \in Leading(more) /\ Shown(d, more)[q] = Shown(d, nodes)[q]
  <2>1. q \in Seq(Names) /\ NodeAt(nodes, q) \in DOMAIN nodes /\ NodeAt(nodes, q) # 0
    BY <1>7, LeadsToNode DEF Leading
  <2>2. NodeAt(more, q) = NodeAt(nodes, q)
    BY <1>6, <2>1
  <2>3. q \in Leading(more)
    BY <2>1, <2>2 DEF Leading
  <2> QED
    BY <1>7, <2>1, <2>2, <2>3 DEF Shown
<1>8. CASE NodeAt(nodes, new) # 0
  <2>1. Leading(more) = Leading(nodes)
    BY <1>5, <1>7, <1>8 DEF Leading
  <2>2. Shown(d, more) = Shown(d, nodes)
    BY <1>7, <2>1 DEF Shown
  <2> QED
    BY <2>2 DEF StepShown
<1>9. CASE NodeAt(nodes, new) = 0
  <2>1. NodeAt(more, p) = up
    BY <1>2, <1>6 DEF up
  <2>2. Child(more, up, name) # 0
    BY <1>1, <1>3, ChildFound
  <2>3. NodeAt(more, new) # 0
    <3>1. NodeAt(more, new) = IF NodeAt(more, ParentOf(new)) = 0 THEN 0
                              ELSE Child(more, NodeAt(more, ParentOf(new)), new[Len(new)])
      BY <1>1, <1>4, LastStep
    <3> QED
      BY <1>2, <1>4, <2>1, <2>2, <3>1
  <2>4. NodeAt(more, new) = leaf /\ new \in Leading(more) /\ new \notin Leading(nodes)
    BY <1>4, <1>5, <1>9, <2>3 DEF Leading
  <2>5. Leading(more) = Leading(nodes) \union {new}
    <3>1. Leading(more) \subseteq Leading(nodes) \union {new}
      BY <1>5 DEF Leading
    <3> QED
      BY <1>7, <2>4, <3>1
  <2> DEFINE f == Shown(d, nodes)
             g == Shown(d, more)
             isDir == more[leaf].isDir
  <2>6. DOMAIN f = Leading(nodes) /\ DOMAIN g = Leading(more)
        /\ g = [q \in Leading(more) |-> g[q]]
    BY DEF Shown
  <2>7. g[new] = EmptyEntry(isDir)
    <3>1. g[new] = EntryIn(d, more[leaf])
      BY <2>4 DEF Shown
    <3>2. more[leaf].length = 0
      BY DEF leaf
    <3> QED
      BY <3>1, <3>2 DEF EntryIn, BytesIn, EmptyEntry
  <2>8. f[p].isDir
    <3>1. f[p] = EntryIn(d, nodes[up])
      BY DEF Shown, up
    <3>2. nodes[up].isDir
      BY DEF up
    <3> QED
      BY <3>1, <3>2 DEF EntryIn
  <2>9. p # << >> => p[Len(p)].mark # "map"
    <3>1. p # << >> => nodes[up].name = p[Len(p)]
      BY LastName DEF up
    <3>2. nodes[up].name.mark # "map"
      BY DEF up
    <3> QED
      BY <3>1, <3>2
  <2>10. \A q \in Leading(nodes) : g[q] = f[q]
    BY <1>7
  <2> HIDE DEF f, g, isDir
  <2>11. g = [q \in DOMAIN f \union {new} |-> IF q = new THEN EmptyEntry(isDir) ELSE f[q]]
    BY <2>4, <2>5, <2>6, <2>7, <2>10
  <2>12. new \in DOMAIN g \ DOMAIN f /\ isDir \in BOOLEAN
    BY <1>1, <2>4, <2>6 DEF isDir
  <2>13. Creates(f, g)
    BY <1>4, <2>6, <2>8, <2>9, <2>11, <2>12 DEF Creates
  <2> QED
    BY <2>13 DEF StepShown, f, g
<1> QED
  BY <1>8, <1>9

\* The node a running createX has yet to add is an empty entry to come.
LEMMA CompletedShown ==
  ASSUME LumpsInv, ReloadInv, UpInv, PlaceInv, wadPc \in Writing, NEW d
  PROVE  StepShown(Shown(d, tree), Shown(d, Completed))
<1>2. IsTree(tree) /\ IsTree(Completed)
  BY DEF UpInv, ReloadInv, TreeInv, TreeAgrees, Writing
<1>3. CASE creation = NoCreation
  <2>1. Completed = tree
    BY <1>3 DEF Completed
  <2> QED
    BY <2>1 DEF StepShown
<1>4. CASE creation # NoCreation
  <2> DEFINE more == Completed
  <2>1. creation.at \in Nat /\ creation.node \in Nodes /\ tree \in Seq(Nodes) /\ Len(tree) > 0
    BY <1>2, <1>4 DEF LumpsInv, MemoryInv, IsTree
  <2>2. /\ more \in Seq(Nodes)
        /\ \A n \in DOMAIN tree :
              /\ more[n].isDir = tree[n].isDir
              /\ more[n].offset = tree[n].offset /\ more[n].length = tree[n].length
    BY <2>1, CompletedIs
  <2>3. Grown(tree, more)
    BY <2>1, CompletedGrows
  <2>4. Len(more) = Len(tree) + 1 /\ more[Len(more)] = creation.node
    <3> DEFINE by == IF creation.node.isDir THEN 2 ELSE 1
               shifted == Shifted(creation.at, by, creation.node)
    <3>1. by \in Nat
      OBVIOUS
    <3> HIDE DEF by
    <3>2. shifted \in Seq(Nodes) /\ Len(shifted) = Len(tree)
      BY <2>1, <3>1, ShiftedIs
    <3>3. more = Append(shifted, creation.node)
      BY <1>4 DEF Completed, by
    <3> HIDE DEF shifted, more
    <3> QED
      BY <3>2, <3>3
  <2> HIDE DEF more
  <2>5. IsTree(more) /\ Len(more) \in Nat /\ DOMAIN more = 1 .. Len(more) /\ more[Root].parent = 0
        /\ Len(more) > 0
    BY <1>2, TreeNodes DEF more, IsTree
  <2>6. \A n \in DOMAIN more : more[n].parent # Len(more)
    <3>1. \A n \in Below(more) : more[n].parent \in 1 .. n - 1
      BY <2>5 DEF IsTree
    <3>2. \A n \in DOMAIN more : n = Root \/ n \in Below(more)
      BY DEF Below
    <3> QED
      BY <2>5, <3>1, <3>2
  <2>7. AddsLeaf(tree, more)
    BY <1>2, <2>1, <2>3, <2>4, <2>6 DEF AddsLeaf, IsRooted, IsTree
  <2>8. \A n \in DOMAIN tree : EntryIn(d, more[n]) = EntryIn(d, tree[n])
    BY <2>2 DEF EntryIn
  <2>9. PICK p \in Seq(Names) : /\ NodeAt(tree, p) # 0 /\ TakesChildren(NodeAt(tree, p))
                                /\ creation.node.parent = NodeAt(tree, p)
    BY <1>4 DEF PlaceInv
  <2>10. creation.node.length = 0
    BY <1>4 DEF PlaceInv
  <2>11. p \in Leading(tree) /\ tree[NodeAt(tree, p)].isDir /\ tree[NodeAt(tree, p)].name.mark # "map"
    BY <2>9 DEF Leading, TakesChildren
  <2>12. StepShown(Shown(d, tree), Shown(d, more))
    BY <1>2, <2>4, <2>5, <2>7, <2>8, <2>9, <2>10, <2>11, LeafShown
  <2> QED
    BY <2>12 DEF more
<1> QED
  BY <1>3, <1>4

\* The end of a call.
LEMMA ReturnShown ==
  ASSUME LumpsInv, ReloadInv, UpInv, PlaceInv, CallReturn
  PROVE  StepShown(Shown(disk, tree), Shown(disk', tree'))
<1>1. wadPc \in Writing /\ tree' = Completed /\ disk' = disk
  BY DEF CallReturn, Writing
<1> QED
  BY <1>1, CompletedShown

-----------------------------------------------------------------------------
(* A write, and the steps of a running process                             *)

\* A write gives an empty file its bytes.
LEMMA WriteShown ==
  ASSUME ShapeInv, LumpsInv, UpInv, [Sound]_vars,
         NEW path \in Paths, NEW buffer \in Buffers, NEW offset \in WriteOffsets,
         WriteToFile(path, buffer, offset)
  PROVE  StepShown(Shown(disk, tree), Shown(disk', tree'))
<1>1. PICK n \in DOMAIN tree, count \in Nat : Extends(n, count, buffer, off + offset)
  BY WrittenIs, Zenon
<1> DEFINE more == ExtendedTree(n, off, count)
<1>2. /\ wadPc = "idle" /\ tree[n].isDir = FALSE /\ tree[n].length = 0 /\ tree' = more
  BY <1>1, Zenon DEF Extends
<1>3. IsTree(tree) /\ tree \in Seq(Nodes) /\ off \in Nat /\ Len(tree) > 0
  BY <1>2 DEF UpInv, IsTree, LumpsInv, MemoryInv
<1>4. TreeExtended(more, n, off, count)
  BY <1>2, <1>3, ExtendedNode
<1> HIDE DEF more
<1>5. /\ more \in Seq(Nodes) /\ Len(more) = Len(tree) /\ DOMAIN more = DOMAIN tree
      /\ more[n].length = count
      /\ \A k \in DOMAIN tree \ {n} : more[k] = tree[k]
      /\ \A k \in DOMAIN tree : /\ more[k].name = tree[k].name /\ more[k].isDir = tree[k].isDir
                                /\ more[k].parent = tree[k].parent
  BY <1>4, Zenon DEF TreeExtended
<1>6. SameNodes(tree, more)
  BY <1>3, <1>5 DEF SameNodes, Grown
<1>7. \A k \in DOMAIN tree \ {n} : EntryIn(disk', more[k]) = EntryIn(disk, tree[k])
  BY <1>5, EntryStays
<1>8. /\ Leading(more) = Leading(tree)
      /\ \A p \in Leading(tree) : NodeAt(more, p) = NodeAt(tree, p)
  BY <1>6, SameLeading
<1>9. \A p \in Leading(tree) : NodeAt(tree, p) \in DOMAIN tree
  BY <1>3, LeadsToNode
<1> DEFINE f == Shown(disk, tree)
           g == Shown(disk', more)
<1>10. /\ f = [p \in Leading(tree) |-> EntryIn(disk, tree[NodeAt(tree, p)])]
       /\ g = [p \in Leading(tree) |-> EntryIn(disk', more[NodeAt(tree, p)])]
  BY <1>8 DEF Shown
<1>11. CASE count = 0
  <2>1. EntryIn(disk', more[n]) = EntryIn(disk, tree[n])
    BY <1>2, <1>5, <1>11, EntryStays
  <2>2. \A k \in DOMAIN tree : EntryIn(disk', more[k]) = EntryIn(disk, tree[k])
    BY <1>7, <2>1
  <2>3. f = g
    BY <1>3, <1>6, <2>2, ShownSame
  <2> QED
    BY <1>2, <2>3 DEF StepShown
<1>12. CASE count # 0 /\ \A p \in Leading(tree) : NodeAt(tree, p) # n
  <2>1. \A p \in Leading(tree) :
            EntryIn(disk', more[NodeAt(tree, p)]) = EntryIn(disk, tree[NodeAt(tree, p)])
    BY <1>7, <1>9, <1>12
  <2> HIDE DEF f, g
  <2>2. f = g
    BY <1>10, <2>1
  <2> QED
    BY <1>2, <2>2 DEF StepShown, f, g
<1>13. ASSUME count # 0, NEW p \in Leading(tree), NodeAt(tree, p) = n
       PROVE  Fills(f, g)
  <2>1. IsRooted(tree)
    BY <1>3 DEF IsRooted, IsTree
  <2>2. ASSUME NEW q \in Leading(tree), q # p PROVE NodeAt(tree, q) \in DOMAIN tree \ {n}
    <3>1. p \in Seq(Names) /\ q \in Seq(Names) /\ NodeAt(tree, p) # 0
      BY DEF Leading
    <3>2. NodeAt(tree, q) # n
      BY <1>13, <2>1, <2>2, <3>1, PathsApart
    <3> QED
      BY <1>9, <3>2
  <2>3. \A q \in Leading(tree) : q # p => g[q] = f[q]
    <3> HIDE DEF f, g
    <3> QED
      BY <1>7, <1>10, <2>2
  <2>4. f[p] = EmptyEntry(FALSE)
    <3>1. f[p] = EntryIn(disk, tree[n])
      BY <1>13 DEF Shown
    <3> QED
      BY <1>2, <3>1 DEF EntryIn, BytesIn, EmptyEntry
  <2> DEFINE bytes == BytesIn(disk', more[n].offset, count)
  <2>5. g[p] = [isDir |-> FALSE, bytes |-> bytes]
    <3>1. g[p] = EntryIn(disk', more[n])
      BY <1>8, <1>13 DEF Shown
    <3>2. more[n].isDir = FALSE /\ more[n].length = count
      BY <1>2, <1>5
    <3> QED
      BY <3>1, <3>2 DEF EntryIn
  <2>6. bytes # << >>
    <3>1. DOMAIN bytes = 1 .. count
      BY <1>13 DEF BytesIn
    <3>2. 1 \in 1 .. count /\ DOMAIN << >> = {}
      BY <1>13
    <3> HIDE DEF bytes
    <3> QED
      BY <3>1, <3>2
  <2> HIDE DEF bytes
  <2>7. /\ DOMAIN f = Leading(tree) /\ DOMAIN g = Leading(tree)
        /\ g = [q \in Leading(tree) |-> g[q]]
    BY <1>8 DEF Shown
  <2> HIDE DEF f, g
  <2>8. g = [q \in DOMAIN f |-> IF q = p THEN g[p] ELSE f[q]]
    BY <2>3, <2>7
  <2>9. g[p].isDir = FALSE /\ g[p].bytes = bytes
    BY <2>5
  <2> QED
    BY <1>13, <2>4, <2>5, <2>6, <2>7, <2>8, <2>9 DEF Fills
<1> HIDE DEF f, g
<1>14. CASE count # 0 /\ \E p \in Leading(tree) : NodeAt(tree, p) = n
  <2>1. Fills(f, g)
    BY <1>13, <1>14
  <2> QED
    BY <1>2, <2>1 DEF StepShown, f, g
<1> QED
  BY <1>11, <1>12, <1>14

\* A step of the running process is a step of the tree of paths.
LEMMA UpShown ==
  ASSUME ShapeInv, LumpsInv, ReloadInv, UpInv, PlaceInv, [Sound]_vars, wadPc # "down", wadPc' # "down"
  PROVE  StepShown(Shown(disk, tree), Shown(disk', tree'))
<1>1. IsTree(tree)
  BY DEF UpInv
<1>2. CASE tree' = tree
  <2>1. Shown(disk', tree') = Shown(disk, tree)
    BY <1>1, <1>2, TreeLeft
  <2> QED
    BY <2>1 DEF StepShown
<1>3. CASE CallReturn
  BY <1>3, ReturnShown
<1>4. ASSUME NEW path \in Paths, NEW buffer \in Buffers, NEW offset \in WriteOffsets,
             WriteToFile(path, buffer, offset)
      PROVE  StepShown(Shown(disk, tree), Shown(disk', tree'))
  BY <1>4, WriteShown
<1>5. ASSUME NEW path \in Paths, CreateDirectory(path) \/ CreateFile(path)
      PROVE  tree' = tree
  BY <1>5 DEF CreateDirectory, CreateFile, Create
<1>6. ASSUME NEW path \in Paths, CreateNothing(path) \/ WriteToNothing(path) \/ RefuseWrite(path)
      PROVE  tree' = tree
  BY <1>6 DEF CreateNothing, WriteToNothing, RefuseWrite, vars, memory
<1>7. CASE NumReaches \/ OffReaches \/ DescriptorReaches \/ UNCHANGED vars
  <2>1. tree' = tree
    BY <1>7 DEF NumReaches, OffReaches, DescriptorReaches, WithParts, DescriptorCell, ListStart,
                vars, memory
  <2> QED
    BY <1>2, <2>1
<1>8. ~ LoadWhole /\ ~ GoDown
  BY DEF LoadWhole, Load, GoDown
<1> QED
  BY <1>2, <1>3, <1>4, <1>5, <1>6, <1>7, <1>8, Zenon DEF Sound

-----------------------------------------------------------------------------
(* The invariant of what is shown                                          *)

\* The file of a process that has gone, or is about to, is whole.
DownInv ==
    /\ wadPc \in {"down", "crashed"} => IsWhole(disk)
    /\ wadPc = "crashed" => TreeAgrees(tree, ListOf(disk))

\* The list of a whole file has a tree.
LEMMA WholeTree ==
  ASSUME LumpsInv, ReloadInv, IsWhole(disk)
  PROVE  LET p == Parse(ListOf(disk), disk.num)
         IN  /\ ListOf(disk) \in Seq(Descriptors) /\ Len(ListOf(disk)) = disk.num
             /\ Balances(p) /\ TreeAgrees(p.nodes, ListOf(disk)) /\ IsTree(p.nodes)
             /\ p.failed = FALSE
<1> DEFINE list == ListOf(disk)
<1>1. list \in Seq(Descriptors) /\ Len(list) = disk.num
  BY ListIsTyped DEF LumpsInv, DiskInv
<1>2. Balances(Parse(list, disk.num))
  BY DEF ReloadInv, FileInv
<1> HIDE DEF list
<1>3. TreeAgrees(Parse(list, disk.num).nodes, list)
  BY <1>1, <1>2, ParseAgrees
<1>4. IsTree(Parse(list, disk.num).nodes) /\ Parse(list, disk.num).failed = FALSE
  BY <1>2, <1>3, Zenon DEF TreeAgrees, Balances
<1> QED
  BY <1>1, <1>2, <1>3, <1>4 DEF list

\* loadWad finds that tree.
LEMMA LoadTree ==
  ASSUME LumpsInv, ReloadInv, LoadWhole
  PROVE  /\ IsTree(tree') /\ wadPc' = "idle" /\ disk' = disk /\ creation' = NoCreation
         /\ tree' = Parse(ListOf(disk), disk.num).nodes
<1>1. IsWhole(disk) /\ wadPc = "down"
  BY DEF LoadWhole, Load, ListIsWhole
<1> DEFINE p == Parse(ListOf(disk), disk.num)
<1>2. IsTree(p.nodes) /\ p.failed = FALSE
  BY <1>1, WholeTree
<1>3. tree' = p.nodes /\ wadPc' = (IF p.failed THEN "crashed" ELSE "idle")
      /\ disk' = disk /\ creation' = creation
  BY Zenon DEF LoadWhole, Load, ListOnDisk
<1> HIDE DEF p
<1>4. creation = NoCreation
  BY <1>1 DEF LumpsInv, MemoryInv, Writing
<1> QED
  BY <1>2, <1>3, <1>4 DEF p

\* The parent of the node that a createX is to add.
LEMMA CreationPlaced ==
  ASSUME LumpsInv, NEW path \in Paths, CreateDirectory(path) \/ CreateFile(path)
  PROVE  PlaceInv'
<1> DEFINE p == Cleaned(ParentPath(path))
           n == FindNode(ParentPath(path))
<1>1. p \in Seq(Names) /\ n = NodeAt(tree, p)
  BY PathsAreNamed DEF FindNode
<1>2. TakesChildren(n) /\ tree' = tree
  BY DEF CreateDirectory, CreateFile, DirectoryRefused, FileRefused, Create
<1>3. creation'.node.length = 0 /\ creation'.node.parent = n
  <2> DEFINE name == NameOf(path)
             index == InsertIndex(n)
             dir == DirNode(name, n, index, index + 1)
             file == FileNode(Descriptor(name, 0, 0), n, index)
  <2>1. CASE CreateDirectory(path)
    <3>1. creation' = [at |-> index, node |-> dir]
      BY <2>1, Zenon DEF CreateDirectory, Create
    <3>2. dir.length = 0 /\ dir.parent = n
      BY DEF DirNode
    <3> HIDE DEF dir, n
    <3> QED
      BY <3>1, <3>2
  <2>2. CASE CreateFile(path)
    <3>1. creation' = [at |-> index, node |-> file]
      BY <2>2, Zenon DEF CreateFile, Create
    <3>2. file.length = 0 /\ file.parent = n
      BY DEF FileNode, Descriptor
    <3> HIDE DEF file, n
    <3> QED
      BY <3>1, <3>2
  <2> QED
    BY <2>1, <2>2
<1> HIDE DEF p, n
<1>4. n # 0
  BY <1>2 DEF TakesChildren
<1>5. (TakesChildren(NodeAt(tree, p)))'
  BY <1>1, <1>2 DEF TakesChildren
<1> QED
  BY <1>1, <1>2, <1>3, <1>4, <1>5 DEF PlaceInv

\* What the mapping needs to hold in every state.
ServedInv == UpInv /\ PlaceInv /\ DownInv

\* It holds at first.
LEMMA InitServed == ASSUME WholeDisks, Init PROVE ServedInv
BY DEF Init, WholeDisks, ServedInv, UpInv, PlaceInv, DownInv

\* The steps that leave the tree alone.
LEMMA PlaceKept ==
  ASSUME PlaceInv, UNCHANGED <<tree, creation>>
  PROVE  PlaceInv'
<1>1. \A n : TakesChildren(n)' <=> TakesChildren(n)
  BY DEF TakesChildren
<1> QED
  BY <1>1 DEF PlaceInv, TakesChildren

\* The tree stays one, whenever the process dies, and what is added to it goes
\* below a directory.
LEMMA NextUp ==
  ASSUME LumpsInv, ReloadInv, ReloadInv', UpInv, PlaceInv, [Sound]_vars
  PROVE  UpInv' /\ PlaceInv'
<1>1. CASE LoadWhole
  <2>1. IsTree(tree') /\ wadPc' = "idle" /\ creation' = NoCreation
    BY <1>1, LoadTree
  <2> QED
    BY <2>1 DEF UpInv, PlaceInv
<1>2. CASE GoDown
  <2>1. wadPc' = "down" /\ creation' = NoCreation
    BY <1>2 DEF GoDown, Forget
  <2> QED
    BY <2>1 DEF UpInv, PlaceInv
<1>3. ASSUME NEW path \in Paths, CreateDirectory(path) \/ CreateFile(path)
      PROVE  UpInv' /\ PlaceInv'
  <2>1. wadPc = "idle" /\ wadPc' = "writeNum" /\ tree' = tree
    BY <1>3 DEF CreateDirectory, CreateFile, Create
  <2>2. PlaceInv'
    BY <1>3, CreationPlaced
  <2> QED
    BY <2>1, <2>2 DEF UpInv
<1>4. ASSUME UNCHANGED <<tree, creation>>, wadPc # "down" \/ wadPc' = "down"
      PROVE  UpInv' /\ PlaceInv'
  BY <1>4, PlaceKept DEF UpInv
<1>5. ASSUME NEW path \in Paths, NEW buffer \in Buffers, NEW offset \in WriteOffsets,
             WriteToFile(path, buffer, offset)
      PROVE  UpInv' /\ PlaceInv'
  <2>1. PICK n \in DOMAIN tree, count \in Nat : Extends(n, count, buffer, off + offset)
    BY <1>5, WrittenIs, Zenon
  <2>2. wadPc = "idle" /\ wadPc' \in {"idle", "writeNum"} /\ creation' = creation
    BY <2>1 DEF Extends
  <2>3. creation' = NoCreation
    BY <2>2 DEF LumpsInv, MemoryInv, Writing
  <2>4. Completed' = tree'
    BY <2>3 DEF Completed
  <2>5. IsTree(tree')
    BY <2>2, <2>4 DEF ReloadInv, TreeInv, TreeAgrees, Writing
  <2> QED
    BY <2>3, <2>5 DEF UpInv, PlaceInv
<1>6. CASE CallReturn
  <2>1. wadPc' = "idle" /\ creation' = NoCreation
    BY <1>6 DEF CallReturn
  <2>2. Completed' = tree'
    BY <2>1 DEF Completed
  <2>3. IsTree(tree')
    BY <2>1, <2>2 DEF ReloadInv, TreeInv, TreeAgrees
  <2> QED
    BY <2>1, <2>3 DEF UpInv, PlaceInv
<1>7. CASE NumReaches \/ OffReaches \/ DescriptorReaches
  BY <1>4, <1>7 DEF NumReaches, OffReaches, DescriptorReaches, WithParts, DescriptorCell,
                    ListStart, memory
<1>8. ASSUME NEW path \in Paths, WriteToNothing(path) PROVE UpInv' /\ PlaceInv'
  BY <1>4, <1>8 DEF WriteToNothing, memory
<1>9. CASE UNCHANGED vars
  BY <1>4, <1>9 DEF vars, memory
<1>10. ASSUME NEW path \in Paths, CreateNothing(path) \/ RefuseWrite(path)
       PROVE  UNCHANGED vars
  BY <1>10 DEF CreateNothing, RefuseWrite
<1> QED
  BY <1>1, <1>2, <1>3, <1>5, <1>6, <1>7, <1>8, <1>9, <1>10, Zenon DEF Sound

\* A process that ends between calls leaves a file that is whole.
LEMMA NextServed ==
  ASSUME ClosedBetweenCalls, LumpsInv, ReloadInv, ReloadInv', ServedInv, [Sound]_vars
  PROVE  ServedInv'
<1>1. UpInv' /\ PlaceInv'
  BY NextUp DEF ServedInv
<1>2. ASSUME GoDown PROVE DownInv'
  <2>1. wadPc \in {"idle", "crashed"} /\ wadPc' = "down" /\ disk' = disk
    BY <1>2 DEF GoDown, ClosedBetweenCalls
  <2>2. IsWhole(disk)
    BY <2>1, IdleOne DEF ServedInv, DownInv
  <2> QED
    BY <2>1, <2>2 DEF DownInv
<1>3. ASSUME NEW path \in Paths, WriteToNothing(path)
      PROVE  DownInv'
  <2>1. wadPc = "idle" /\ UNCHANGED <<disk, tree>>
    BY <1>3 DEF WriteToNothing, memory
  <2>2. IsWhole(disk) /\ TreeAgrees(tree, ListOf(disk))
    BY <2>1, IdleOne
  <2> QED
    BY <2>1, <2>2 DEF DownInv
<1>4. ASSUME UNCHANGED vars PROVE DownInv'
  <2>1. UNCHANGED <<disk, tree, wadPc>> /\ DownInv
    BY <1>4 DEF vars, memory, ServedInv
  <2> QED
    BY <2>1 DEF DownInv
<1>5. ASSUME wadPc' \notin {"down", "crashed"} PROVE DownInv'
  BY <1>5 DEF DownInv
<1>6. ASSUME NEW path \in Paths, CreateDirectory(path) \/ CreateFile(path)
      PROVE  DownInv'
  BY <1>5, <1>6 DEF CreateDirectory, CreateFile, Create
<1>7. ASSUME NEW path \in Paths, NEW buffer \in Buffers, NEW offset \in WriteOffsets,
             WriteToFile(path, buffer, offset)
      PROVE  DownInv'
  <2>1. wadPc' \in {"idle", "writeNum"}
    BY <1>7, Zenon DEF WriteToFile
  <2> QED
    BY <1>5, <2>1
<1>8. ASSUME NumReaches \/ OffReaches \/ DescriptorReaches \/ CallReturn PROVE DownInv'
  BY <1>5, <1>8 DEF NumReaches, OffReaches, DescriptorReaches, WithParts, DescriptorCell,
                    ListStart, CallReturn
<1>9. ASSUME LoadWhole PROVE DownInv'
  BY <1>5, <1>9, LoadTree
<1>10. ASSUME NEW path \in Paths, CreateNothing(path) \/ RefuseWrite(path)
       PROVE  UNCHANGED vars
  BY <1>10 DEF CreateNothing, RefuseWrite
<1>11. DownInv'
  BY <1>2, <1>3, <1>4, <1>6, <1>7, <1>8, <1>9, <1>10, Zenon DEF Sound
<1> QED
  BY <1>1, <1>11 DEF ServedInv

\* What is served is a tree, with a process and without.
LEMMA ServedTree ==
  ASSUME LumpsInv, ReloadInv, ServedInv
  PROVE  IsTree(Served)
<1>1. CASE wadPc = "down"
  BY <1>1, WholeTree, Zenon DEF Served, ServedInv, DownInv, ListOnDisk
<1>2. CASE wadPc # "down"
  BY <1>2 DEF Served, ServedInv, UpInv
<1> QED
  BY <1>1, <1>2

\* A step of the library is a step of the tree of paths, or shows nothing.
LEMMA NextShown ==
  ASSUME ClosedBetweenCalls, ShapeInv, LumpsInv, ReloadInv, ServedInv, [Sound]_vars
  PROVE  StepShown(Shown(disk, Served), Shown(disk', Served'))
<1> DEFINE found == Parse(ListOf(disk), disk.num).nodes
<1>1. CASE LoadWhole
  <2>1. wadPc = "down" /\ wadPc' = "idle" /\ tree' = found /\ disk' = disk
    BY <1>1, LoadTree DEF LoadWhole, Load
  <2>2. Served = found /\ Served' = tree'
    BY <2>1, Zenon DEF Served, ListOnDisk
  <2> HIDE DEF found
  <2> QED
    BY <2>1, <2>2 DEF StepShown
<1>2. CASE GoDown
  <2>1. wadPc \in {"idle", "crashed"} /\ wadPc' = "down" /\ disk' = disk
    BY <1>2 DEF GoDown, ClosedBetweenCalls
  <2>2. Served = tree /\ Served' = found
    BY <2>1, Zenon DEF Served, ListOnDisk
  <2>3. IsWhole(disk) /\ TreeAgrees(tree, ListOf(disk))
    BY <2>1, IdleOne DEF ServedInv, DownInv
  <2>4. ListOf(disk) \in Seq(Descriptors) /\ Len(ListOf(disk)) = disk.num /\ IsTree(found)
    BY <2>3, WholeTree
  <2>5. IsTree(tree) /\ HasRoot(tree)
    BY <2>3, RootsOf DEF TreeAgrees
  <2>6. Reachable(found) = Reachable(tree)
    BY <2>3, <2>4, <2>5, FoundReach
  <2> HIDE DEF found
  <2>7. Shown(disk, found) = Shown(disk, tree)
    BY <2>4, <2>5, <2>6, ReachShown
  <2> QED
    BY <2>1, <2>2, <2>7 DEF StepShown
<1>3. CASE wadPc # "down" /\ wadPc' # "down"
  <2>1. Served = tree /\ Served' = tree'
    BY <1>3 DEF Served
  <2> QED
    BY <1>3, <2>1, UpShown DEF ServedInv
<1>4. CASE UNCHANGED vars
  <2>1. disk' = disk /\ Served' = Served
    BY <1>4 DEF vars, memory, Served, ListOnDisk
  <2> QED
    BY <2>1 DEF StepShown
<1>5. CASE Sound /\ ~ LoadWhole /\ ~ GoDown
  <2>1. ASSUME NEW path \in Paths, NEW buffer \in Buffers, NEW offset \in WriteOffsets,
               WriteToFile(path, buffer, offset)
        PROVE  wadPc # "down" /\ wadPc' # "down"
    <3>1. PICK n \in DOMAIN tree, count \in Nat : Extends(n, count, buffer, off + offset)
      BY <2>1, WrittenIs, Zenon
    <3> QED
      BY <3>1 DEF Extends
  <2>2. ASSUME NEW path \in Paths,
               \/ CreateDirectory(path) \/ CreateFile(path) \/ CreateNothing(path)
               \/ WriteToNothing(path) \/ RefuseWrite(path)
        PROVE  wadPc # "down" /\ wadPc' # "down"
    BY <2>2 DEF CreateDirectory, CreateFile, Create, CreateNothing, WriteToNothing, RefuseWrite,
                vars
  <2>3. NumReaches \/ OffReaches \/ DescriptorReaches \/ CallReturn => wadPc # "down" /\ wadPc' # "down"
    BY DEF NumReaches, OffReaches, DescriptorReaches, WithParts, DescriptorCell, ListStart,
           CallReturn
  <2>4. wadPc # "down" /\ wadPc' # "down"
    BY <1>5, <2>1, <2>2, <2>3, Zenon DEF Sound
  <2> QED
    BY <1>3, <2>4
<1> QED
  BY <1>1, <1>2, <1>4, <1>5

-----------------------------------------------------------------------------
(* The library implements the tree of paths                                *)

\* What is on disk to begin with is a tree of paths.
LEMMA FirstShown ==
  ASSUME LumpsInv, ReloadInv, IsWhole(disk)
  PROVE  Files!IsTree(Shown(disk, Parse(ListOf(disk), disk.num).nodes))
<1> DEFINE list == ListOf(disk)
           nodes == Parse(list, disk.num).nodes
           f == Shown(disk, nodes)
<1>1. /\ list \in Seq(Descriptors) /\ Len(list) = disk.num
      /\ Balances(Parse(list, disk.num)) /\ IsTree(nodes) /\ TreeAgrees(nodes, list)
  BY WholeTree
<1> HIDE DEF list
<1>2. DirsAbove(nodes, Root) /\ FilesDescribed(nodes, list, Len(list))
  BY <1>1, ParseAbove, ParseDescribes
<1>3. nodes[Root].isDir
  BY <1>1 DEF TreeAgrees
<1> HIDE DEF nodes
<1>4. nodes \in Seq(Nodes) /\ Len(nodes) > 0 /\ nodes[Root].parent = 0
  BY <1>1 DEF IsTree
<1>5. DOMAIN f = Leading(nodes)
  BY DEF Shown
<1>6. \A p \in Leading(nodes) : f[p] = EntryIn(disk, nodes[NodeAt(nodes, p)])
  BY DEF Shown
<1> HIDE DEF f
<1>7. << >> \in Leading(nodes)
  <2>1. << >> \in Seq(Names) /\ Root # 0
    BY DEF Root
  <2> QED
    BY <1>4, <2>1, RootFound DEF Leading
<1>8. ASSUME NEW p \in Leading(nodes), p # << >>
      PROVE  ParentOf(p) \in Leading(nodes) /\ f[ParentOf(p)].isDir
  <2> DEFINE n == NodeAt(nodes, p)
             up == NodeAt(nodes, ParentOf(p))
  <2>1. ParentOf(p) \in Leading(nodes) /\ nodes[n].parent = up
    BY <1>1, <1>8, LastName
  <2>2. n \in DOMAIN nodes /\ up \in DOMAIN nodes /\ up # 0
    BY <1>1, <2>1, LeadsToNode DEF Leading
  <2>3. f[ParentOf(p)] = EntryIn(disk, nodes[up])
    BY <1>6, <2>1
  <2> HIDE DEF n, up
  <2>4. n \in Below(nodes)
    BY <1>4, <2>1, <2>2 DEF Below
  <2>5. nodes[up].isDir
    BY <1>2, <2>1, <2>4 DEF DirsAbove
  <2> QED
    BY <2>1, <2>3, <2>5 DEF EntryIn
<1>9. ASSUME NEW p \in Leading(nodes), f[p].isDir
      PROVE  f[p].bytes = << >>
  <2> DEFINE n == NodeAt(nodes, p)
  <2>1. n \in DOMAIN nodes /\ f[p] = EntryIn(disk, nodes[n])
    BY <1>1, <1>6, LeadsToNode
  <2> HIDE DEF n
  <2>2. nodes[n].isDir
    BY <1>9, <2>1 DEF EntryIn
  <2>3. nodes[n].length = 0
    BY <1>2, <2>1, <2>2 DEF FilesDescribed
  <2> QED
    BY <2>1, <2>3 DEF EntryIn, BytesIn
<1>10. Files!IsTree(f)
  BY <1>5, <1>7, <1>8, <1>9 DEF Files!IsTree, Files!Parent, ParentOf
<1> QED
  BY <1>10 DEF f, nodes, list

\* A file is given its bytes.
Filled(f, p, bytes) == [f EXCEPT ![p].bytes = bytes]
Refilled(f, p, bytes) ==
    [q \in DOMAIN f |-> IF q = p THEN [isDir |-> FALSE, bytes |-> bytes] ELSE f[q]]

LEMMA EntryFilled ==
  ASSUME NEW f, NEW p \in DOMAIN f, f[p] = EmptyEntry(FALSE), NEW bytes
  PROVE  Filled(f, p, bytes) = Refilled(f, p, bytes)
<1> DEFINE e == EmptyEntry(FALSE)
           filled == [e EXCEPT !.bytes = bytes]
           new == [isDir |-> FALSE, bytes |-> bytes]
<1>1. filled = new
  <2>1. e = [isDir |-> FALSE, bytes |-> << >>] /\ DOMAIN e = {"isDir", "bytes"} /\ e.isDir = FALSE
    BY DEF EmptyEntry
  <2> HIDE DEF e
  <2>2. /\ filled = [k \in {"isDir", "bytes"} |-> IF k = "bytes" THEN bytes ELSE e[k]]
    BY <2>1
  <2>3. DOMAIN new = {"isDir", "bytes"} /\ new.isDir = FALSE /\ new.bytes = bytes
        /\ new = [k \in {"isDir", "bytes"} |-> new[k]]
    OBVIOUS
  <2> HIDE DEF new, filled
  <2> QED
    BY <2>1, <2>2, <2>3
<1>2. f[p] = e
  OBVIOUS
<1> HIDE DEF e
<1>3. [f EXCEPT ![p].bytes = bytes] = [f EXCEPT ![p] = filled]
  BY <1>2
<1> HIDE DEF filled
<1>4. [f EXCEPT ![p] = filled] = [q \in DOMAIN f |-> IF q = p THEN filled ELSE f[q]]
  OBVIOUS
<1> QED
  BY <1>1, <1>3, <1>4 DEF Filled, Refilled

\* A file that is filled is written once.
WritesOnce(f, g) ==
    \E p \in DOMAIN f :
       /\ ~ f[p].isDir /\ f[p].bytes = << >>
       /\ g[p].bytes # << >>
       /\ g = [f EXCEPT ![p].bytes = g[p].bytes]

LEMMA FillsOnce ==
  ASSUME NEW f, NEW g, Fills(f, g)
  PROVE  WritesOnce(f, g)
<1>1. PICK p \in DOMAIN f :
         /\ f[p] = EmptyEntry(FALSE)
         /\ g[p].bytes # << >>
         /\ g[p] = [isDir |-> FALSE, bytes |-> g[p].bytes]
         /\ g = [q \in DOMAIN f |-> IF q = p THEN g[p] ELSE f[q]]
  BY DEF Fills
<1> DEFINE bytes == g[p].bytes
           e == g[p]
<1>2. f[p].isDir = FALSE /\ f[p].bytes = << >>
  BY <1>1 DEF EmptyEntry
<1>3. Filled(f, p, bytes) = Refilled(f, p, bytes)
  <2> HIDE DEF bytes
  <2> QED
    BY <1>1, EntryFilled, Zenon
<1>4. g = Filled(f, p, bytes)
  <2>1. e = [isDir |-> FALSE, bytes |-> bytes] /\ g = [q \in DOMAIN f |-> IF q = p THEN e ELSE f[q]]
    BY <1>1
  <2> HIDE DEF bytes, e
  <2> QED
    BY <1>3, <2>1 DEF Refilled
<1>5. g = [f EXCEPT ![p].bytes = bytes]
  BY <1>4, Zenon DEF Filled
<1> QED
  BY <1>1, <1>2, <1>5, Zenon DEF WritesOnce

\* The steps that are shown are those of the tree of paths.
LEMMA StepsOf == StepShown(fs, fs') => [Files!Next]_fs
<1>1. ASSUME Creates(fs, fs') PROVE Files!Next
  <2>1. PICK p \in DOMAIN fs' \ DOMAIN fs, isDir \in BOOLEAN :
       /\ p # <<>> /\ ParentOf(p) \in DOMAIN fs /\ fs[ParentOf(p)].isDir
       /\ ParentOf(p) # <<>> => ParentOf(p)[Len(ParentOf(p))].mark # "map"
       /\ fs' = [q \in DOMAIN fs \union {p} |-> IF q = p THEN EmptyEntry(isDir) ELSE fs[q]]
    BY <1>1 DEF Creates
  <2>2. CASE isDir = TRUE
    BY <2>1, <2>2 DEF Files!Next, Files!Create, Files!Directory, Files!Parent, ParentOf,
                      EmptyEntry, fs
  <2>3. CASE isDir = FALSE
    BY <2>1, <2>3 DEF Files!Next, Files!Create, Files!EmptyFile, Files!Parent, ParentOf,
                      EmptyEntry, fs
  <2> QED
    BY <2>1, <2>2, <2>3
<1>2. ASSUME Fills(fs, fs') PROVE Files!Next
  <2>1. WritesOnce(fs, fs')
    BY <1>2, FillsOnce
  <2>2. Files!WriteOnce
    BY <2>1, Zenon DEF WritesOnce, Files!WriteOnce, fs
  <2> QED
    BY <2>2 DEF Files!Next
<1> QED
  BY <1>1, <1>2 DEF StepShown

\* For every whole WAD file with balanced markers, and clients that name their
\* directories: createDirectory, createFile and writeToFile, the close of the
\* WAD and loadWad show through their paths a tree of directories and files that
\* only grows, in which nothing appears below a file or a map, each call makes
\* at most one entry, an entry keeps its kind, and a file gets bytes once and
\* keeps them.  The process may be closed between calls, or die of a write to a
\* path that leads nowhere: one that dies in a call is CrashAllOrNothing's.  All
\* of this as long as every write of header and list reaches the disk.
THEOREM FileTreeRefined ==
  ASSUME BalancedDisks, DirectoriesNamed, WholeDisks, ClosedBetweenCalls
  PROVE  Spec /\ [](astray = 0) => FileTreeSpec
<1> DEFINE Reaches == astray = 0
           Inv == ShapeInv /\ LumpsInv /\ ReloadInv /\ ServedInv
<1>1. Init => Inv
  BY InitShape, InitInv, InitReload, InitServed
<1>2. Inv /\ Reaches' /\ [Next]_vars => Inv' /\ [Sound]_vars
  <2> SUFFICES ASSUME Inv, astray' = 0, [Next]_vars PROVE Inv' /\ [Sound]_vars
    OBVIOUS
  <2>1. [Sound]_vars
    BY StepIsSound DEF ShapeInv
  <2>2. ShapeInv'
    BY NextShape DEF StepKeeps
  <2>3. LumpsInv' /\ ReloadInv'
    BY <2>1, SoundInv, NextReload
  <2>4. ServedInv'
    BY <2>1, <2>3, NextServed
  <2> QED
    BY <2>1, <2>2, <2>3, <2>4
<1>3. Init => Files!Init
  <2>1. ASSUME Init PROVE Files!IsTree(fs)
    <3>1. Inv /\ wadPc = "down"
      BY <1>1, <2>1 DEF Init
    <3>2. IsWhole(disk) /\ IsTree(Served)
      BY <3>1, ServedTree DEF ServedInv, DownInv
    <3>3. Served = Parse(ListOf(disk), disk.num).nodes
      BY <3>1, Zenon DEF Served, ListOnDisk
    <3>4. fs = Shown(disk, Served)
      BY <3>2, FsShown
    <3> QED
      BY <3>1, <3>2, <3>3, <3>4, FirstShown
  <2> QED
    BY <2>1 DEF Files!Init, fs
<1>4. Inv /\ Inv' /\ [Sound]_vars => [Files!Next]_fs
  <2>1. ASSUME Inv, Inv', [Sound]_vars PROVE StepShown(fs, fs')
    <3>1. IsTree(Served)
      BY <2>1, ServedTree
    <3>2. IsTree(Served')
      <4>1. (LumpsInv /\ ReloadInv /\ ServedInv => IsTree(Served))'
        BY ServedTree, PTL
      <4> QED
        BY <2>1, <4>1
    <3>3. fs = Shown(disk, Served) /\ fs' = Shown(disk', Served')
      BY <3>1, <3>2, FsShown, FsShownNext
    <3> QED
      BY <2>1, <3>3, NextShown
  <2> QED
    BY <2>1, StepsOf
<1> QED
  BY <1>1, <1>2, <1>3, <1>4, PTL DEF Spec, FileTreeSpec, Files!Spec, fs
=============================================================================
