----------------------------- MODULE PipesProofs ------------------------------
(***************************************************************************)
(* Proofs about Pipes, for any five numbers on the command line.           *)
(*                                                                         *)
(* PipesInv ties what each process holds, and what is in each pipe, to how *)
(* far the processes have come.  Whoever is lost, a value is what it       *)
(* should be or junk (ValuesInv).  That nothing is junk depends on who is  *)
(* lost: the list needs the parent and child 1 (ListInv), the median       *)
(* everybody (MedianInv).                                                  *)
(***************************************************************************)
EXTENDS Pipes, FiniteSetTheorems, TLAPS

-----------------------------------------------------------------------------
(* What sorting gives                                                      *)

FiveNumbers == [1 .. 5 -> Int]

\* The numbers of a list that at least i of its numbers do not exceed: the
\* least of them is the i-th when the list is sorted.
Candidates(nums, i) == {v \in Range(nums) : Cardinality(AtMost(nums, v)) >= i}

LEMMA CountTo ==
    ASSUME NEW n \in Nat
    PROVE  IsFiniteSet(1 .. n) /\ Cardinality(1 .. n) = n
<1>1. 1 \in Int /\ n \in Int
  OBVIOUS
<1>2. /\ IsFiniteSet(1 .. n)
      /\ Cardinality(1 .. n) = IF 1 > n THEN 0 ELSE n - 1 + 1
  BY <1>1, FS_Interval, Zenon
<1>3. QED
  BY <1>2

LEMMA CountUpTo ==
    ASSUME NEW nums \in FiveNumbers, NEW v
    PROVE  /\ Cardinality(AtMost(nums, v)) \in 0 .. 5
           /\ IsFiniteSet(AtMost(nums, v))
<1>1. IsFiniteSet(1 .. 5) /\ Cardinality(1 .. 5) = 5
  BY CountTo
<1>2. AtMost(nums, v) \subseteq 1 .. 5
  BY DEF AtMost, FiveNumbers
<1>3. QED
  BY <1>1, <1>2, FS_Subset, FS_CardinalityType

LEMMA CountGrows ==
    ASSUME NEW nums \in FiveNumbers, NEW v \in Int, NEW w \in Int, v <= w
    PROVE  Cardinality(AtMost(nums, v)) <= Cardinality(AtMost(nums, w))
<1>1. AtMost(nums, v) \subseteq AtMost(nums, w)
  BY DEF AtMost, FiveNumbers
<1>2. QED
  BY <1>1, CountUpTo, FS_Subset

LEMMA LeastOfFive ==
    ASSUME NEW nums \in FiveNumbers, NEW S \in SUBSET Range(nums), S # {}
    PROVE  \E least \in S : \A v \in S : least <= v
  BY DEF FiveNumbers, Range

LEMMA GreatestOfFive ==
    ASSUME NEW nums \in FiveNumbers, NEW S \in SUBSET Range(nums), S # {}
    PROVE  \E greatest \in S : \A v \in S : v <= greatest
  BY DEF FiveNumbers, Range

LEMMA SomeCandidate ==
    ASSUME NEW nums \in FiveNumbers, NEW i \in 1 .. 5
    PROVE  /\ Candidates(nums, i) # {}
           /\ Candidates(nums, i) \subseteq Range(nums)
           /\ Range(nums) \subseteq Int
<1>1. Range(nums) \subseteq Int /\ Range(nums) # {}
  BY DEF Range, FiveNumbers
<1>2. PICK greatest \in Range(nums) : \A v \in Range(nums) : v <= greatest
  BY <1>1, GreatestOfFive
<1>3. AtMost(nums, greatest) = 1 .. 5
  BY <1>2 DEF AtMost, Range, FiveNumbers
<1>4. Cardinality(1 .. 5) = 5
  BY CountTo
<1>5. Cardinality(AtMost(nums, greatest)) >= i
  BY <1>3, <1>4
<1>6. QED
  BY <1>1, <1>2, <1>5 DEF Candidates

\* The i-th number of a sorted list is the least of its candidates.
LEMMA SortedAt ==
    ASSUME NEW nums \in FiveNumbers, NEW i \in 1 .. 5
    PROVE  /\ Sorted(nums)[i] \in Candidates(nums, i)
           /\ Sorted(nums)[i] \in Int
           /\ \A v \in Candidates(nums, i) : Sorted(nums)[i] <= v
<1>1. Sorted(nums)[i] = Min(Candidates(nums, i))
  BY DEF Sorted, Candidates, FiveNumbers
<1>2. PICK least \in Candidates(nums, i) : \A v \in Candidates(nums, i) : least <= v
  BY SomeCandidate, LeastOfFive
<1>3. /\ Min(Candidates(nums, i)) \in Candidates(nums, i)
      /\ \A v \in Candidates(nums, i) : Min(Candidates(nums, i)) <= v
  BY <1>2 DEF Min
<1>4. QED
  BY <1>1, <1>3, SomeCandidate

LEMMA SortedIsList ==
    ASSUME NEW nums \in FiveNumbers
    PROVE  Sorted(nums) \in FiveNumbers
<1>1. DOMAIN nums = 1 .. 5
  BY DEF FiveNumbers
<1>2. \A i \in 1 .. 5 : Sorted(nums)[i] \in Int
  BY SortedAt
<1>3. QED
  BY <1>1, <1>2 DEF Sorted, FiveNumbers

\* A number is at most v at the places up to the count of numbers at most v.
LEMMA SortedUpTo ==
    ASSUME NEW nums \in FiveNumbers, NEW i \in 1 .. 5, NEW v \in Int
    PROVE  Sorted(nums)[i] <= v <=> i <= Cardinality(AtMost(nums, v))
<1> DEFINE s == Sorted(nums)[i]
<1>1. /\ s \in Int
      /\ s \in Candidates(nums, i)
      /\ \A w \in Candidates(nums, i) : s <= w
  BY SortedAt
<1>2. Cardinality(AtMost(nums, s)) >= i
  BY <1>1 DEF Candidates
<1>3. Cardinality(AtMost(nums, s)) \in 0 .. 5 /\ Cardinality(AtMost(nums, v)) \in 0 .. 5
  BY CountUpTo
<1> HIDE DEF s
<1>4. ASSUME s <= v
      PROVE  i <= Cardinality(AtMost(nums, v))
  BY <1>1, <1>2, <1>3, <1>4, CountGrows
<1>5. ASSUME i <= Cardinality(AtMost(nums, v))
      PROVE  s <= v
  <2> DEFINE Below == {w \in Range(nums) : w <= v}
  <2>1. Range(nums) \subseteq Int
    BY SomeCandidate
  <2>2. AtMost(nums, v) # {}
    <3>1. Cardinality({}) = 0
      BY FS_EmptySet
    <3>2. QED
      BY <1>5, <3>1
  <2>3. Below # {}
    BY <2>2 DEF AtMost, Range
  <2>4. PICK greatest \in Below : \A w \in Below : w <= greatest
    BY <2>3, GreatestOfFive
  <2>5. AtMost(nums, greatest) = AtMost(nums, v)
    <3>1. greatest \in Int /\ greatest <= v
      BY <2>1, <2>4
    <3>2. ASSUME NEW j \in DOMAIN nums
          PROVE  nums[j] <= greatest <=> nums[j] <= v
      <4>1. nums[j] \in Range(nums) /\ nums[j] \in Int
        BY <2>1 DEF Range
      <4>2. QED
        BY <2>4, <3>1, <4>1
    <3>3. QED
      BY <3>2 DEF AtMost
  <2>6. greatest \in Candidates(nums, i)
    BY <1>5, <2>4, <2>5, <1>3 DEF Candidates
  <2>7. s <= greatest /\ greatest <= v /\ greatest \in Int
    BY <1>1, <2>1, <2>4, <2>6
  <2>8. QED
    BY <1>1, <2>7
<1>6. QED
  BY <1>4, <1>5 DEF s

\* std::sort puts the numbers in order and keeps each as often as it is there:
\* as many numbers of the result as of the list are at most v, for every v.
THEOREM SortedSorts ==
    ASSUME NEW nums \in FiveNumbers
    PROVE  /\ \A i, j \in 1 .. 5 : i <= j => Sorted(nums)[i] <= Sorted(nums)[j]
           /\ \A v \in Int :
                 Cardinality(AtMost(Sorted(nums), v)) = Cardinality(AtMost(nums, v))
<1>1. ASSUME NEW i \in 1 .. 5, NEW j \in 1 .. 5, i <= j
      PROVE  Sorted(nums)[i] <= Sorted(nums)[j]
  <2> DEFINE w == Sorted(nums)[j]
  <2>1. w \in Int /\ Cardinality(AtMost(nums, w)) >= j
    BY SortedAt DEF Candidates
  <2>2. Cardinality(AtMost(nums, w)) \in 0 .. 5
    BY CountUpTo
  <2> HIDE DEF w
  <2>3. i <= Cardinality(AtMost(nums, w))
    BY <1>1, <2>1, <2>2
  <2>4. Sorted(nums)[i] <= w
    BY <2>1, <2>3, SortedUpTo
  <2>5. QED
    BY <2>4 DEF w
<1>2. ASSUME NEW v \in Int
      PROVE  Cardinality(AtMost(Sorted(nums), v)) = Cardinality(AtMost(nums, v))
  <2> DEFINE count == Cardinality(AtMost(nums, v))
  <2>1. count \in 0 .. 5
    BY CountUpTo
  <2> HIDE DEF count
  <2>2. DOMAIN Sorted(nums) = 1 .. 5
    BY SortedIsList DEF FiveNumbers
  <2>3. \A i \in 1 .. 5 : Sorted(nums)[i] <= v <=> i <= count
    BY SortedUpTo DEF count
  <2>4. AtMost(Sorted(nums), v) = 1 .. count
    BY <2>1, <2>2, <2>3 DEF AtMost
  <2>5. Cardinality(1 .. count) = count
    BY <2>1, CountTo
  <2>6. QED
    BY <2>4, <2>5 DEF count
<1>3. QED
  BY <1>1, <1>2

\* The median child 2 takes is in the middle: three of the numbers are at most
\* it and no more than two are below.
THEOREM MedianInMiddle ==
    ASSUME NEW nums \in FiveNumbers, NEW m, Median(Sorted(nums)) = <<m>>
    PROVE  /\ m \in Int
           /\ Cardinality(AtMost(nums, m)) >= 3
           /\ Cardinality(AtMost(nums, m - 1)) <= 2
<1>1. m = Sorted(nums)[3]
  BY DEF Median
<1>2. m \in Int /\ Cardinality(AtMost(nums, m)) >= 3
  BY <1>1, SortedAt DEF Candidates
<1>3. ~ (Sorted(nums)[3] <= m - 1) /\ m - 1 \in Int
  BY <1>1, <1>2
<1>4. ~ (3 <= Cardinality(AtMost(nums, m - 1)))
  BY <1>3, SortedUpTo
<1>5. Cardinality(AtMost(nums, m - 1)) \in 0 .. 5
  BY CountUpTo
<1>6. QED
  BY <1>2, <1>4, <1>5

LEMMA SortedJunk == Sorted(Junk) = Junk
  BY DEF Sorted, Junk

LEMMA NoListIsJunk ==
    ASSUME NEW nums \in FiveNumbers
    PROVE  nums # Junk
  <1>1. 1 \in DOMAIN nums /\ DOMAIN Junk = {}
    BY DEF FiveNumbers, Junk
  <1>2. QED
    BY <1>1

-----------------------------------------------------------------------------
(* The code by its calls: who writes each pipe and who reads it, at which  *)
(* call and for which variable, and where each process closes each end.    *)

Writer == <<"parent", "child1", "child1", "child2">>
WriteAt == <<9, 9, 11, 10>>
WrittenFrom == <<"nums", "nums", "nums", "median">>

Reader == <<"child1", "parent", "child2", "parent">>
ReadAt == <<6, 11, 7, 13>>
ReadInto == <<"nums", "sorted", "nums", "median">>

ReadEndClosed ==
    [parent |-> <<3, 12, 5, 14>>, child1 |-> <<7, 2, 3, 4>>, child2 |-> <<1, 3, 8, 6>>]
WriteEndClosed ==
    [parent |-> <<10, 4, 6, 7>>, child1 |-> <<1, 10, 12, 5>>, child2 |-> <<2, 4, 5, 11>>]

Wrote(k) == pc[Writer[k]] > WriteAt[k]
Asked(k) == pc[Reader[k]] > ReadAt[k]

\* The number of calls of each process: one past it, the process ends.
LastCall == [parent |-> 17, child1 |-> 12, child2 |-> 11]

-----------------------------------------------------------------------------
(* The inductive invariant                                                 *)

ShapeInv ==
    /\ args \in Arguments
    /\ status \in [Processes -> {"unborn", "running", "zombie", "gone"}]
    /\ pc \in [Processes -> Int]
    /\ \A p \in Processes : 1 <= pc[p] /\ pc[p] <= LastCall[p] + 1
    /\ ends \in [Processes -> SUBSET Ends]
    /\ mem \in [Processes -> [Variables -> Lists \union Numbers]]
    /\ pipe \in [Pipe -> Seq(Lists \union Numbers)]
    /\ lost \subseteq Processes

\* A child that is not born has done nothing and cannot have been lost before
\* its fork; a process that runs is not lost.
Unforked(child) == status[child] = "unborn" /\ child \notin lost

BirthInv ==
    /\ status["parent"] \in {"running", "zombie"}
    /\ pc["parent"] <= 1 => Unforked("child1")
    /\ pc["parent"] <= 2 => Unforked("child2")
    /\ \A p \in Processes : status[p] = "unborn" => pc[p] = 1
    /\ \A p \in Processes : status[p] = "running" => p \notin lost

\* A process holds exactly the ends it has not come to close.
EndsInv ==
    \A p \in Processes :
       IF status[p] = "running"
       THEN \A k \in Pipe :
              /\ <<k, "read">> \in ends[p] <=> pc[p] <= ReadEndClosed[p][k]
              /\ <<k, "write">> \in ends[p] <=> pc[p] <= WriteEndClosed[p][k]
       ELSE ends[p] = {}

\* What each pipe is meant to carry.
Meant(k) == <<args, Sorted(args), Sorted(args), Median(Sorted(args))>>[k]

OrJunk(value) == {Junk, value}

\* A pipe is empty until it is written, and is written once.
CarriedInv ==
    \A k \in Pipe :
       \/ pipe[k] = <<>>
       \/ /\ Wrote(k)
          /\ \E value \in OrJunk(Meant(k)) : pipe[k] = <<value>>

\* What a variable holds is what it should, or junk.
HeldInv ==
    /\ mem["parent"].nums = IF pc["parent"] > 8 THEN args ELSE Junk
    /\ mem["child1"].nums \in
          OrJunk(IF pc["child1"] > 8 THEN Sorted(args) ELSE IF Asked(1) THEN args ELSE Junk)
    /\ mem["parent"].sorted \in OrJunk(IF Asked(2) THEN Meant(2) ELSE Junk)
    /\ mem["child2"].nums \in OrJunk(IF Asked(3) THEN Meant(3) ELSE Junk)
    /\ mem["child2"].median \in OrJunk(IF pc["child2"] > 9 THEN Meant(4) ELSE Junk)
    /\ mem["parent"].median \in OrJunk(IF Asked(4) THEN Meant(4) ELSE Junk)
    /\ mem["child1"].sorted = Junk /\ mem["child1"].median = Junk
    /\ mem["child2"].sorted = Junk

ValuesInv == CarriedInv /\ HeldInv

\* What was written and not yet read is in the pipe, and nothing is read that
\* was not written.
Delivered(k) ==
    /\ Asked(k) => Wrote(k)
    /\ (Wrote(k) /\ ~ Asked(k)) => (pipe[k] # <<>> /\ Head(pipe[k]) # Junk)
    /\ Asked(k) => mem[Reader[k]][ReadInto[k]] # Junk

\* A process is at work until it has come to its call at.
AtWorkUntil(p, at) ==
    /\ status[p] # "unborn"
    /\ status[p] # "running" => pc[p] >= at

\* With the parent and child 1 there, the list comes back; child 1 may yet be
\* killed by what it writes to child 2.
ListInv ==
    {"parent", "child1"} \cap lost = {} =>
       /\ AtWorkUntil("parent", LastCall["parent"] + 1)
       /\ pc["parent"] > 1 => AtWorkUntil("child1", WriteAt[3])
       /\ Delivered(1) /\ Delivered(2)

\* With everybody there, so does the median.
MedianInv ==
    lost = {} =>
       /\ pc["parent"] > 1 => AtWorkUntil("child1", LastCall["child1"] + 1)
       /\ pc["parent"] > 2 => AtWorkUntil("child2", LastCall["child2"] + 1)
       /\ pc["child2"] > 9 => mem["child2"].median # Junk
       /\ Delivered(3) /\ Delivered(4)

\* What is printed is what the parent has read.
PrintedInv ==
    /\ printed # NothingPrinted =>
          /\ pc["parent"] > 15
          /\ printed = [sorted |-> mem["parent"].sorted, median |-> mem["parent"].median]
    /\ WrongOnlyByLoss

Finished(c) == status[c] \in {"unborn", "gone"}

\* Each wait leaves one child less.
ReapedInv ==
    /\ pc["parent"] = 17 => \E c \in Children : Finished(c)
    /\ pc["parent"] = 18 => \A c \in Children : Finished(c)

PipesInv ==
    /\ ShapeInv
    /\ BirthInv
    /\ EndsInv
    /\ ValuesInv
    /\ ListInv
    /\ MedianInv
    /\ PrintedInv
    /\ ReapedInv
-----------------------------------------------------------------------------
(* The calls of the code                                                   *)

LEMMA CodeIs ==
    /\ Code["parent"] =
          << Fork("child1"), Fork("child2"),
             Close(1, "read"), Close(2, "write"), Close(3, "read"), Close(3, "write"),
             Close(4, "write"),
             Set("nums", "parse"), Write(1, "nums"), Close(1, "write"),
             Read(2, "sorted"), Close(2, "read"), Read(4, "median"), Close(4, "read"),
             Show, Wait, Wait >>
    /\ Code["child1"] =
          << Close(1, "write"), Close(2, "read"), Close(3, "read"), Close(4, "read"),
             Close(4, "write"),
             Read(1, "nums"), Close(1, "read"), Set("nums", "sort"),
             Write(2, "nums"), Close(2, "write"), Write(3, "nums"), Close(3, "write") >>
    /\ Code["child2"] =
          << Close(1, "read"), Close(1, "write"), Close(2, "read"), Close(2, "write"),
             Close(3, "write"), Close(4, "read"),
             Read(3, "nums"), Close(3, "read"), Set("median", "median"),
             Write(4, "median"), Close(4, "write") >>
<1>1. ParentCode = Code["parent"] /\ Child1Code = Code["child1"] /\ Child2Code = Code["child2"]
  BY DEF Code
<1>2. QED
  BY <1>1 DEF ParentCode, Forks, ParentCloses, Waits, Child1Code, Child1Closes, Child1Sends,
              Child2Code, Child2Closes

LEMMA CodeEnds ==
    ASSUME NEW p \in Processes
    PROVE  Len(Code[p]) = LastCall[p] /\ DOMAIN Code[p] = 1 .. LastCall[p]
<1>1. CASE p = "parent"
  BY <1>1, CodeIs DEF LastCall
<1>2. CASE p = "child1"
  BY <1>2, CodeIs DEF LastCall
<1>3. CASE p = "child2"
  BY <1>3, CodeIs DEF LastCall
<1>4. QED
  BY <1>1, <1>2, <1>3 DEF Processes

\* The calls of each kind: the processes that make them, and where.
LEMMA CallsOfParent ==
    ASSUME NEW i \in 1 .. 17
    PROVE  /\ Code["parent"][i].call = "fork" <=> i \in {1, 2}
           /\ Code["parent"][i].call = "close" <=> i \in {3, 4, 5, 6, 7, 10, 12, 14}
           /\ Code["parent"][i].call = "set" <=> i = 8
           /\ Code["parent"][i].call = "write" <=> i = 9
           /\ Code["parent"][i].call = "read" <=> i \in {11, 13}
           /\ Code["parent"][i].call = "show" <=> i = 15
           /\ Code["parent"][i].call = "wait" <=> i \in {16, 17}
  BY CodeIs DEF Fork, Close, Read, Write, Set, Show, Wait

LEMMA CallsOfChild1 ==
    ASSUME NEW i \in 1 .. 12
    PROVE  /\ Code["child1"][i].call = "close" <=> i \in {1, 2, 3, 4, 5, 7, 10, 12}
           /\ Code["child1"][i].call = "set" <=> i = 8
           /\ Code["child1"][i].call = "write" <=> i \in {9, 11}
           /\ Code["child1"][i].call = "read" <=> i = 6
           /\ Code["child1"][i].call \notin {"fork", "show", "wait"}
  BY CodeIs DEF Fork, Close, Read, Write, Set, Show, Wait

LEMMA CallsOfChild2 ==
    ASSUME NEW i \in 1 .. 11
    PROVE  /\ Code["child2"][i].call = "close" <=> i \in {1, 2, 3, 4, 5, 6, 8, 11}
           /\ Code["child2"][i].call = "set" <=> i = 9
           /\ Code["child2"][i].call = "write" <=> i = 10
           /\ Code["child2"][i].call = "read" <=> i = 7
           /\ Code["child2"][i].call \notin {"fork", "show", "wait"}
  BY CodeIs DEF Fork, Close, Read, Write, Set, Show, Wait

LEMMA CallIs ==
    ASSUME NEW p \in Processes, NEW call, Calls(p, call)
    PROVE  /\ status[p] = "running"
           /\ pc[p] \in 1 .. LastCall[p]
           /\ Code[p][pc[p]].call = call
           /\ Now(p) = Code[p][pc[p]]
  BY CodeEnds DEF Calls, Now

LEMMA ForkCalls ==
    ASSUME NEW p \in Processes, Calls(p, "fork")
    PROVE  /\ p = "parent"
           /\ \/ /\ pc[p] = 1
                 /\ Now(p).child = "child1"
              \/ /\ pc[p] = 2
                 /\ Now(p).child = "child2"
<1>1. p = "parent"
  BY CallIs, CallsOfChild1, CallsOfChild2 DEF Processes, LastCall
<1>2. pc[p] \in {1, 2}
  BY <1>1, CallIs, CallsOfParent DEF LastCall
<1>3. QED
  BY <1>1, <1>2, CallIs, CodeIs DEF Fork

LEMMA CloseCalls ==
    ASSUME NEW p \in Processes, Calls(p, "close")
    PROVE  \E k \in Pipe :
              \/ /\ pc[p] = ReadEndClosed[p][k]
                 /\ Now(p).end = <<k, "read">>
              \/ /\ pc[p] = WriteEndClosed[p][k]
                 /\ Now(p).end = <<k, "write">>
<1>1. CASE p = "parent"
  <2>1. pc[p] \in {3, 4, 5, 6, 7, 10, 12, 14}
    BY <1>1, CallIs, CallsOfParent DEF LastCall
  <2>2. QED
    BY <1>1, <2>1, CallIs, CodeIs DEF Close, ReadEndClosed, WriteEndClosed, Pipe
<1>2. CASE p = "child1"
  <2>1. pc[p] \in {1, 2, 3, 4, 5, 7, 10, 12}
    BY <1>2, CallIs, CallsOfChild1 DEF LastCall
  <2>2. QED
    BY <1>2, <2>1, CallIs, CodeIs DEF Close, ReadEndClosed, WriteEndClosed, Pipe
<1>3. CASE p = "child2"
  <2>1. pc[p] \in {1, 2, 3, 4, 5, 6, 8, 11}
    BY <1>3, CallIs, CallsOfChild2 DEF LastCall
  <2>2. QED
    BY <1>3, <2>1, CallIs, CodeIs DEF Close, ReadEndClosed, WriteEndClosed, Pipe
<1>4. QED
  BY <1>1, <1>2, <1>3 DEF Processes

LEMMA ReadCalls ==
    ASSUME NEW p \in Processes, Calls(p, "read")
    PROVE  \E k \in Pipe : /\ p = Reader[k]
                           /\ pc[p] = ReadAt[k]
                           /\ Now(p).end = <<k, "read">>
                           /\ Now(p).variable = ReadInto[k]
<1>1. CASE p = "parent"
  <2>1. pc[p] \in {11, 13}
    BY <1>1, CallIs, CallsOfParent DEF LastCall
  <2>2. QED
    BY <1>1, <2>1, CallIs, CodeIs DEF Read, Reader, ReadAt, ReadInto, Pipe
<1>2. CASE p = "child1"
  <2>1. pc[p] = 6
    BY <1>2, CallIs, CallsOfChild1 DEF LastCall
  <2>2. QED
    BY <1>2, <2>1, CallIs, CodeIs DEF Read, Reader, ReadAt, ReadInto, Pipe
<1>3. CASE p = "child2"
  <2>1. pc[p] = 7
    BY <1>3, CallIs, CallsOfChild2 DEF LastCall
  <2>2. QED
    BY <1>3, <2>1, CallIs, CodeIs DEF Read, Reader, ReadAt, ReadInto, Pipe
<1>4. QED
  BY <1>1, <1>2, <1>3 DEF Processes

LEMMA WriteCalls ==
    ASSUME NEW p \in Processes, Calls(p, "write")
    PROVE  \E k \in Pipe : /\ p = Writer[k]
                           /\ pc[p] = WriteAt[k]
                           /\ Now(p).end[1] = k
                           /\ Now(p).variable = WrittenFrom[k]
<1>1. CASE p = "parent"
  <2>1. pc[p] = 9
    BY <1>1, CallIs, CallsOfParent DEF LastCall
  <2>2. QED
    BY <1>1, <2>1, CallIs, CodeIs DEF Write, Writer, WriteAt, WrittenFrom, Pipe
<1>2. CASE p = "child1"
  <2>1. pc[p] \in {9, 11}
    BY <1>2, CallIs, CallsOfChild1 DEF LastCall
  <2>2. QED
    BY <1>2, <2>1, CallIs, CodeIs DEF Write, Writer, WriteAt, WrittenFrom, Pipe
<1>3. CASE p = "child2"
  <2>1. pc[p] = 10
    BY <1>3, CallIs, CallsOfChild2 DEF LastCall
  <2>2. QED
    BY <1>3, <2>1, CallIs, CodeIs DEF Write, Writer, WriteAt, WrittenFrom, Pipe
<1>4. QED
  BY <1>1, <1>2, <1>3 DEF Processes

LEMMA SetCalls ==
    ASSUME NEW p \in Processes, Calls(p, "set")
    PROVE  \/ /\ p = "parent" /\ pc[p] = 8
              /\ Now(p).variable = "nums" /\ Now(p).by = "parse"
           \/ /\ p = "child1" /\ pc[p] = 8
              /\ Now(p).variable = "nums" /\ Now(p).by = "sort"
           \/ /\ p = "child2" /\ pc[p] = 9
              /\ Now(p).variable = "median" /\ Now(p).by = "median"
<1>1. CASE p = "parent"
  <2>1. pc[p] = 8
    BY <1>1, CallIs, CallsOfParent DEF LastCall
  <2>2. QED
    BY <1>1, <2>1, CallIs, CodeIs DEF Set
<1>2. CASE p = "child1"
  <2>1. pc[p] = 8
    BY <1>2, CallIs, CallsOfChild1 DEF LastCall
  <2>2. QED
    BY <1>2, <2>1, CallIs, CodeIs DEF Set
<1>3. CASE p = "child2"
  <2>1. pc[p] = 9
    BY <1>3, CallIs, CallsOfChild2 DEF LastCall
  <2>2. QED
    BY <1>3, <2>1, CallIs, CodeIs DEF Set
<1>4. QED
  BY <1>1, <1>2, <1>3 DEF Processes

LEMMA ShowCalls ==
    ASSUME NEW p \in Processes, Calls(p, "show")
    PROVE  p = "parent" /\ pc[p] = 15
<1>1. p = "parent"
  BY CallIs, CallsOfChild1, CallsOfChild2 DEF Processes, LastCall
<1>2. QED
  BY <1>1, CallIs, CallsOfParent DEF LastCall

LEMMA WaitCalls ==
    ASSUME NEW p \in Processes, Calls(p, "wait")
    PROVE  p = "parent" /\ pc[p] \in {16, 17}
<1>1. p = "parent"
  BY CallIs, CallsOfChild1, CallsOfChild2 DEF Processes, LastCall
<1>2. QED
  BY <1>1, CallIs, CallsOfParent DEF LastCall

\* The calls at which the ends are closed are those and no others.
LEMMA ClosedThere ==
    ASSUME NEW p \in Processes, NEW k \in Pipe
    PROVE  /\ Code[p][ReadEndClosed[p][k]] = Close(k, "read")
           /\ Code[p][WriteEndClosed[p][k]] = Close(k, "write")
           /\ ReadEndClosed[p][k] \in Int
           /\ WriteEndClosed[p][k] \in Int
<1>1. CASE p = "parent"
  BY <1>1, CodeIs DEF ReadEndClosed, WriteEndClosed, Pipe
<1>2. CASE p = "child1"
  BY <1>2, CodeIs DEF ReadEndClosed, WriteEndClosed, Pipe
<1>3. CASE p = "child2"
  BY <1>3, CodeIs DEF ReadEndClosed, WriteEndClosed, Pipe
<1>4. QED
  BY <1>1, <1>2, <1>3 DEF Processes

LEMMA ShapeTyped ==
    ASSUME ShapeInv
    PROVE  /\ args \in FiveNumbers
           /\ pc["parent"] \in 1 .. 18 /\ pc["child1"] \in 1 .. 13 /\ pc["child2"] \in 1 .. 12
<1>1. args \in FiveNumbers
  BY ArgumentsAssumption DEF ShapeInv, FiveNumbers
<1>2. LastCall["parent"] = 17 /\ LastCall["child1"] = 12 /\ LastCall["child2"] = 11
  BY DEF LastCall
<1>3. \A p \in Processes : pc[p] \in Int /\ 1 <= pc[p] /\ pc[p] <= LastCall[p] + 1
  BY DEF ShapeInv
<1>4. QED
  BY <1>1, <1>2, <1>3 DEF Processes

\* A call moves its process on within its code.
LEMMA AdvanceKeeps ==
    ASSUME ShapeInv, NEW p \in Processes, NEW call, Calls(p, call), Advance(p)
    PROVE  /\ pc' \in [Processes -> Int]
           /\ \A q \in Processes : 1 <= pc'[q] /\ pc'[q] <= LastCall[q] + 1
<1>1. pc \in [Processes -> Int] /\ pc' = [pc EXCEPT ![p] = @ + 1]
  BY DEF ShapeInv, Advance
<1>2. pc[p] \in Int /\ 1 <= pc[p] /\ pc[p] <= LastCall[p] /\ LastCall[p] \in Int
  BY CallIs DEF LastCall, Processes
<1>3. \A q \in Processes \ {p} : pc'[q] = pc[q]
  BY <1>1
<1>4. pc'[p] = pc[p] + 1
  BY <1>1
<1>5. \A q \in Processes : 1 <= pc[q] /\ pc[q] <= LastCall[q] + 1
  BY DEF ShapeInv
<1>6. QED
  BY <1>1, <1>2, <1>3, <1>4, <1>5

\* A call other than close leaves the ends where they are, and each process
\* past no more of its closes than before.
LEMMA EndsKept ==
    ASSUME ShapeInv, EndsInv, NEW p \in Processes, NEW call, Calls(p, call), call # "close",
           Advance(p), UNCHANGED ends,
           \A q \in Processes : status'[q] = "running" <=> status[q] = "running"
    PROVE  EndsInv'
<1>1. pc[p] \in Int /\ status[p] = "running" /\ Code[p][pc[p]].call # "close"
  BY CallIs DEF ShapeInv
<1>2. ASSUME NEW k \in Pipe
      PROVE  /\ pc[p] # ReadEndClosed[p][k] /\ ReadEndClosed[p][k] \in Int
             /\ pc[p] # WriteEndClosed[p][k] /\ WriteEndClosed[p][k] \in Int
  <2>1. Close(k, "read").call = "close" /\ Close(k, "write").call = "close"
    BY DEF Close
  <2>2. QED
    BY <1>1, <2>1, ClosedThere
<1>3. /\ pc'[p] = pc[p] + 1
      /\ \A q \in Processes \ {p} : pc'[q] = pc[q]
  BY DEF Advance, ShapeInv
<1>4. ASSUME NEW q \in Processes, status[q] = "running", NEW k \in Pipe
      PROVE  /\ <<k, "read">> \in ends[q] <=> pc'[q] <= ReadEndClosed[q][k]
             /\ <<k, "write">> \in ends[q] <=> pc'[q] <= WriteEndClosed[q][k]
  <2>1. /\ <<k, "read">> \in ends[q] <=> pc[q] <= ReadEndClosed[q][k]
        /\ <<k, "write">> \in ends[q] <=> pc[q] <= WriteEndClosed[q][k]
    BY <1>4 DEF EndsInv
  <2>2. CASE q # p
    BY <2>1, <2>2, <1>3
  <2>3. CASE q = p
    BY <2>1, <2>3, <1>1, <1>2, <1>3
  <2>4. QED
    BY <2>2, <2>3
<1>5. QED
  BY <1>4 DEF EndsInv

LEMMA CloseStep ==
    ASSUME PipesInv, NEW p \in Processes, DoClose(p)
    PROVE  PipesInv'
<1>1. \/ p = "parent" /\ pc[p] \in {3, 4, 5, 6, 7, 10, 12, 14}
      \/ p = "child1" /\ pc[p] \in {1, 2, 3, 4, 5, 7, 10, 12}
      \/ p = "child2" /\ pc[p] \in {1, 2, 3, 4, 5, 6, 8, 11}
  BY CallIs, CallsOfParent, CallsOfChild1, CallsOfChild2 DEF DoClose, LastCall, Processes
<1>2. /\ pc' = [pc EXCEPT ![p] = @ + 1]
      /\ pc \in [Processes -> Int]
      /\ UNCHANGED <<args, status, mem, pipe, printed, lost>>
      /\ status[p] = "running"
  BY CallIs DEF DoClose, Advance, ShapeInv, PipesInv
<1>3. \A k \in Pipe : Wrote(k)' = Wrote(k) /\ Asked(k)' = Asked(k)
  BY <1>1, <1>2 DEF Wrote, Asked, Writer, WriteAt, Reader, ReadAt, Processes, Pipe
<1>4. ShapeInv'
  BY <1>1, <1>2 DEF PipesInv, ShapeInv, DoClose, LastCall, Processes
<1>5. BirthInv'
  BY <1>1, <1>2 DEF PipesInv, BirthInv, Unforked, Processes
<1>6. EndsInv'
  <2> DEFINE end == Now(p).end
  <2>1. /\ ends'[p] = ends[p] \ {end}
        /\ \A q \in Processes \ {p} : ends'[q] = ends[q] /\ pc'[q] = pc[q]
        /\ pc'[p] = pc[p] + 1
        /\ pc[p] \in Int
    BY <1>2 DEF DoClose, PipesInv, ShapeInv
  <2>2. Now(p) = Code[p][pc[p]]
    BY CallIs DEF DoClose
  <2>3. ASSUME NEW k \in Pipe
        PROVE  /\ pc[p] = ReadEndClosed[p][k] <=> end = <<k, "read">>
               /\ pc[p] = WriteEndClosed[p][k] <=> end = <<k, "write">>
               /\ ReadEndClosed[p][k] \in Int /\ WriteEndClosed[p][k] \in Int
    <3>1. PICK j \in Pipe : \/ /\ pc[p] = ReadEndClosed[p][j]
                               /\ end = <<j, "read">>
                            \/ /\ pc[p] = WriteEndClosed[p][j]
                               /\ end = <<j, "write">>
      BY CloseCalls DEF DoClose
    <3>2. Close(k, "read").end = <<k, "read">> /\ Close(k, "write").end = <<k, "write">>
      BY DEF Close
    <3>3. /\ pc[p] = ReadEndClosed[p][k] => end = <<k, "read">>
          /\ pc[p] = WriteEndClosed[p][k] => end = <<k, "write">>
      BY <2>2, <3>2, ClosedThere
    <3>4. QED
      BY <3>1, <3>3, ClosedThere
  <2> HIDE DEF end
  <2>4. ASSUME NEW q \in Processes, status[q] = "running", NEW k \in Pipe
        PROVE  /\ <<k, "read">> \in ends'[q] <=> pc'[q] <= ReadEndClosed[q][k]
               /\ <<k, "write">> \in ends'[q] <=> pc'[q] <= WriteEndClosed[q][k]
    <3>1. /\ <<k, "read">> \in ends[q] <=> pc[q] <= ReadEndClosed[q][k]
          /\ <<k, "write">> \in ends[q] <=> pc[q] <= WriteEndClosed[q][k]
      BY <2>4 DEF EndsInv, PipesInv
    <3>2. CASE q # p
      BY <3>1, <3>2, <2>1
    <3>3. CASE q = p
      BY <3>1, <3>3, <2>1, <2>3
    <3>4. QED
      BY <3>2, <3>3
  <2>5. ASSUME NEW q \in Processes, status[q] # "running"
        PROVE  ends'[q] = {}
    BY <2>1, <2>5, <1>2 DEF EndsInv, PipesInv
  <2>6. QED
    BY <2>4, <2>5, <1>2 DEF EndsInv
<1>7. ValuesInv'
  <2>1. HeldInv'
    BY <1>1, <1>2, <1>3 DEF PipesInv, ValuesInv, HeldInv, Meant, Processes, Pipe
  <2>2. CarriedInv'
    BY <1>1, <1>2, <1>3 DEF PipesInv, ValuesInv, CarriedInv, Meant, Processes, Pipe
  <2>3. QED
    BY <2>1, <2>2 DEF ValuesInv
<1>8. ListInv'
  BY <1>1, <1>2, <1>3 DEF PipesInv, ListInv, AtWorkUntil, Delivered, Processes, Pipe
<1>9. MedianInv'
  BY <1>1, <1>2, <1>3 DEF PipesInv, MedianInv, AtWorkUntil, Delivered, Processes, Pipe
<1>10. PrintedInv'
  BY <1>1, <1>2 DEF PipesInv, PrintedInv, WrongOnlyByLoss, Processes
<1>11. ReapedInv'
  BY <1>1, <1>2 DEF PipesInv, ReapedInv, Finished, Processes
<1>12. QED
  BY <1>4, <1>5, <1>6, <1>7, <1>8, <1>9, <1>10, <1>11 DEF PipesInv

-----------------------------------------------------------------------------
(* What fails, fails of a loss                                             *)

\* Those a pipe needs for what it carries to arrive.
Missed(k) == IF k \in {1, 2} THEN lost \cap {"parent", "child1"} ELSE lost

\* Before the writer of a pipe has written, it is there and can; before the
\* reader has read, it is there and will.
LEMMA BothAtWork ==
    ASSUME PipesInv, NEW k \in Pipe, Missed(k) = {}
    PROVE  /\ (status[Reader[k]] = "running" /\ pc[Reader[k]] = ReadAt[k] /\ ~ Wrote(k))
                 => status[Writer[k]] = "running"
           /\ (status[Writer[k]] = "running" /\ pc[Writer[k]] = WriteAt[k])
                 => status[Reader[k]] = "running" /\ ~ Asked(k)
           /\ Delivered(k)
<1>1. /\ pc["parent"] \in 1 .. 18 /\ pc["child1"] \in 1 .. 13 /\ pc["child2"] \in 1 .. 12
      /\ LastCall["parent"] = 17 /\ LastCall["child1"] = 12 /\ LastCall["child2"] = 11
      /\ WriteAt[3] = 11
  BY ShapeTyped DEF PipesInv, LastCall, WriteAt
<1>2. status["child1"] = "unborn" => pc["child1"] = 1
  BY DEF PipesInv, BirthInv, Processes
<1>3. status["child2"] = "running" => pc["parent"] > 2
  BY <1>1 DEF PipesInv, BirthInv, Unforked
<1>4. lost \cap {"parent", "child1"} = {}
  BY DEF Missed
<1>5. /\ AtWorkUntil("parent", 18)
      /\ pc["parent"] > 1 => AtWorkUntil("child1", 11)
      /\ Delivered(1) /\ Delivered(2)
  BY <1>1, <1>4 DEF PipesInv, ListInv
<1>6. CASE k = 1
  BY <1>1, <1>2, <1>5, <1>6 DEF AtWorkUntil, Delivered, Wrote, Asked, Writer, WriteAt, Reader, ReadAt
<1>7. CASE k = 2
  BY <1>1, <1>2, <1>5, <1>7 DEF AtWorkUntil, Delivered, Wrote, Asked, Writer, WriteAt, Reader, ReadAt
<1>8. CASE k \in {3, 4}
  <2>1. /\ pc["parent"] > 1 => AtWorkUntil("child1", 13)
        /\ pc["parent"] > 2 => AtWorkUntil("child2", 12)
        /\ Delivered(3) /\ Delivered(4)
    BY <1>1, <1>8 DEF PipesInv, MedianInv, Missed
  <2>2. CASE k = 3
    BY <1>1, <1>2, <1>3, <1>5, <2>1, <2>2
       DEF AtWorkUntil, Delivered, Wrote, Asked, Writer, WriteAt, Reader, ReadAt
  <2>3. CASE k = 4
    BY <1>1, <1>2, <1>3, <1>5, <2>1, <2>3
       DEF AtWorkUntil, Delivered, Wrote, Asked, Writer, WriteAt, Reader, ReadAt
  <2>4. QED
    BY <1>8, <2>2, <2>3
<1>9. QED
  BY <1>6, <1>7, <1>8 DEF Pipe

LEMMA OwnEndOpen ==
    ASSUME NEW k \in Pipe
    PROVE  /\ Reader[k] \in Processes /\ Writer[k] \in Processes
           /\ ReadAt[k] <= ReadEndClosed[Reader[k]][k]
           /\ WriteAt[k] <= WriteEndClosed[Writer[k]][k]
           /\ ReadAt[k] \in Int /\ WriteAt[k] \in Int
  BY DEF Pipe, Reader, Writer, ReadAt, WriteAt, ReadEndClosed, WriteEndClosed, Processes

\* A process that has come as far as its work goes stays there.
LEMMA WorkGoesOn ==
    ASSUME NEW p \in Processes, pc \in [Processes -> Int], pc' = [pc EXCEPT ![p] = @ + 1],
           status' = status, NEW q \in Processes, NEW at \in Int, AtWorkUntil(q, at)
    PROVE  AtWorkUntil(q, at)'
  BY DEF AtWorkUntil

LEMMA WorkEnds ==
    /\ \A q \in Processes : q \in {"parent", "child1", "child2"} /\ LastCall[q] + 1 \in Int
    /\ {"parent", "child1", "child2"} \subseteq Processes
    /\ WriteAt[3] \in Int
  BY DEF Processes, LastCall, WriteAt

\* The calls at which something is written or read are all different.
LEMMA CallsApart ==
    ASSUME NEW j \in Pipe, NEW k \in Pipe
    PROVE  /\ (Reader[j] = Reader[k] /\ ReadAt[j] = ReadAt[k]) => j = k
           /\ (Writer[j] = Writer[k] /\ WriteAt[j] = WriteAt[k]) => j = k
           /\ Writer[j] = Reader[k] => WriteAt[j] # ReadAt[k]
<1>1. \A i \in Pipe : i \in {1, 2, 3, 4}
  BY DEF Pipe
<1>2. /\ (Reader[j] = Reader[k] /\ ReadAt[j] = ReadAt[k]) => j = k
      /\ (Writer[j] = Writer[k] /\ WriteAt[j] = WriteAt[k]) => j = k
  BY <1>1 DEF Reader, ReadAt, Writer, WriteAt
<1>3. Writer[j] = Reader[k] => WriteAt[j] # ReadAt[k]
  BY <1>1 DEF Reader, ReadAt, Writer, WriteAt
<1>4. QED
  BY <1>2, <1>3

\* A process that makes one call makes no other.
LEMMA OnlyOneCall ==
    ASSUME NEW p \in Processes, pc \in [Processes -> Int], pc' = [pc EXCEPT ![p] = @ + 1],
           NEW j \in Pipe
    PROVE  /\ ~ (Reader[j] = p /\ ReadAt[j] = pc[p]) => Asked(j)' = Asked(j)
           /\ ~ (Writer[j] = p /\ WriteAt[j] = pc[p]) => Wrote(j)' = Wrote(j)
<1>1. \A q \in Processes, at \in Int :
         ~ (q = p /\ at = pc[p]) => ((pc'[q] > at) <=> (pc[q] > at))
  OBVIOUS
<1>2. ~ (Reader[j] = p /\ ReadAt[j] = pc[p]) => Asked(j)' = Asked(j)
  <2>1. Reader[j] \in Processes /\ ReadAt[j] \in Int
    BY OwnEndOpen
  <2>2. ~ (Reader[j] = p /\ ReadAt[j] = pc[p]) => (pc'[Reader[j]] > ReadAt[j] <=> pc[Reader[j]] > ReadAt[j])
    BY <1>1, <2>1
  <2>3. QED
    BY <2>2 DEF Asked
<1>3. ~ (Writer[j] = p /\ WriteAt[j] = pc[p]) => Wrote(j)' = Wrote(j)
  <2>1. Writer[j] \in Processes /\ WriteAt[j] \in Int
    BY OwnEndOpen
  <2>2. ~ (Writer[j] = p /\ WriteAt[j] = pc[p]) => (pc'[Writer[j]] > WriteAt[j] <=> pc[Writer[j]] > WriteAt[j])
    BY <1>1, <2>1
  <2>3. QED
    BY <2>2 DEF Wrote
<1>4. QED
  BY <1>2, <1>3

\* Reader and writer have their ends open until they have used them.
LEMMA HeldUntilUsed ==
    ASSUME PipesInv, NEW k \in Pipe
    PROVE  /\ (status[Reader[k]] = "running" /\ pc[Reader[k]] <= ReadAt[k])
                 => <<k, "read">> \in ends[Reader[k]]
           /\ (status[Writer[k]] = "running" /\ pc[Writer[k]] <= WriteAt[k])
                 => <<k, "write">> \in ends[Writer[k]]
<1> DEFINE r == Reader[k]
           w == Writer[k]
           readEnd == ReadEndClosed[r][k]
           writeEnd == WriteEndClosed[w][k]
<1>1. /\ r \in Processes /\ w \in Processes
      /\ ReadAt[k] <= readEnd /\ WriteAt[k] <= writeEnd
      /\ ReadAt[k] \in Int /\ WriteAt[k] \in Int
  BY OwnEndOpen
<1>2. readEnd \in Int /\ writeEnd \in Int
  BY <1>1, ClosedThere
<1>3. pc[r] \in Int /\ pc[w] \in Int
  BY <1>1 DEF PipesInv, ShapeInv
<1>4. /\ status[r] = "running" => (<<k, "read">> \in ends[r] <=> pc[r] <= readEnd)
      /\ status[w] = "running" => (<<k, "write">> \in ends[w] <=> pc[w] <= writeEnd)
  BY <1>1 DEF PipesInv, EndsInv
<1> HIDE DEF readEnd, writeEnd
<1>5. QED
  BY <1>1, <1>2, <1>3, <1>4

LEMMA ReadsInVain ==
    ASSUME PipesInv, NEW p \in Processes, ReadNothing(p)
    PROVE  \E k \in Pipe : p = Reader[k] /\ pc[p] = ReadAt[k] /\ Missed(k) # {}
<1>1. PICK k \in Pipe : p = Reader[k] /\ pc[p] = ReadAt[k] /\ Now(p).end = <<k, "read">>
  BY ReadCalls DEF ReadNothing
<1>2. SUFFICES ASSUME Missed(k) = {}
               PROVE  FALSE
  BY <1>1
<1>3. status[p] = "running"
  BY CallIs DEF ReadNothing
<1>4. <<k, "read">> \in ends[p]
  <2>1. pc[Reader[k]] <= ReadAt[k]
    BY <1>1, OwnEndOpen
  <2>2. QED
    BY <1>1, <1>3, <2>1, HeldUntilUsed
<1>5. pipe[k] = <<>> /\ ~ IsOpen(<<k, "write">>)
  BY <1>1, <1>4 DEF ReadNothing
<1>6. ~ Asked(k)
  BY <1>1, OwnEndOpen DEF Asked
<1>7. ~ Wrote(k)
  BY <1>2, <1>5, <1>6, BothAtWork DEF Delivered
<1>8. status[Writer[k]] = "running"
  BY <1>1, <1>2, <1>3, <1>7, BothAtWork
<1>9. pc[Writer[k]] <= WriteAt[k]
  BY <1>7, OwnEndOpen DEF Wrote, PipesInv, ShapeInv
<1>10. <<k, "write">> \in ends[Writer[k]]
  BY <1>8, <1>9, HeldUntilUsed
<1>11. QED
  BY <1>5, <1>10, OwnEndOpen DEF IsOpen

LEMMA WritesInVain ==
    ASSUME PipesInv, NEW p \in Processes, WriteKills(p)
    PROVE  \E k \in Pipe : p = Writer[k] /\ pc[p] = WriteAt[k] /\ Missed(k) # {}
<1>1. PICK k \in Pipe : p = Writer[k] /\ pc[p] = WriteAt[k] /\ Now(p).end[1] = k
  BY WriteCalls DEF WriteKills
<1>2. SUFFICES ASSUME Missed(k) = {}
               PROVE  FALSE
  BY <1>1
<1>3. status[p] = "running"
  BY CallIs DEF WriteKills
<1>4. status[Reader[k]] = "running" /\ ~ Asked(k)
  BY <1>1, <1>2, <1>3, BothAtWork
<1>5. pc[Reader[k]] <= ReadAt[k]
  BY <1>4, OwnEndOpen DEF Asked, PipesInv, ShapeInv
<1>6. <<k, "read">> \in ends[Reader[k]]
  BY <1>4, <1>5, HeldUntilUsed
<1>7. QED
  BY <1>1, <1>6, OwnEndOpen DEF WriteKills, IsOpen

-----------------------------------------------------------------------------
(* The other steps                                                         *)

LEMMA ForkFailsStep ==
    ASSUME PipesInv, NEW p \in Processes, ForkFails(p)
    PROVE  PipesInv'
<1>1. /\ p = "parent" /\ status[p] = "running"
      /\ \/ pc[p] = 1 /\ Now(p).child = "child1"
         \/ pc[p] = 2 /\ Now(p).child = "child2"
  BY ForkCalls, CallIs DEF ForkFails
<1>2. /\ pc' = [pc EXCEPT ![p] = @ + 1]
      /\ pc \in [Processes -> Int]
      /\ lost' = lost \union {Now(p).child}
      /\ UNCHANGED <<args, status, ends, mem, pipe, printed>>
  BY DEF ForkFails, Advance, ShapeInv, PipesInv
<1>3. \A k \in Pipe : Wrote(k)' = Wrote(k) /\ Asked(k)' = Asked(k)
  BY <1>1, <1>2 DEF Wrote, Asked, Writer, WriteAt, Reader, ReadAt, Processes, Pipe
<1>4. ShapeInv'
  <2>1. lost' \subseteq Processes
    BY <1>1, <1>2 DEF PipesInv, ShapeInv, Processes
  <2>2. QED
    BY <1>1, <1>2, <2>1 DEF PipesInv, ShapeInv, LastCall, Processes
<1>5. BirthInv'
  BY <1>1, <1>2 DEF PipesInv, BirthInv, Unforked, Processes
<1>6. EndsInv'
  <2>1. Calls(p, "fork") /\ Advance(p) /\ "fork" # "close"
    BY DEF ForkFails
  <2>2. QED
    BY <1>2, <2>1, EndsKept DEF PipesInv
<1>7. ValuesInv'
  <2>1. HeldInv'
    BY <1>1, <1>2, <1>3 DEF PipesInv, ValuesInv, HeldInv, Meant, Processes, Pipe
  <2>2. CarriedInv'
    BY <1>1, <1>2, <1>3 DEF PipesInv, ValuesInv, CarriedInv, Meant, Processes, Pipe
  <2>3. QED
    BY <2>1, <2>2 DEF ValuesInv
<1>8. ListInv'
  <2>1. CASE pc[p] = 1
    BY <1>1, <1>2, <2>1 DEF ListInv
  <2>2. CASE pc[p] = 2
    BY <1>1, <1>2, <1>3, <2>2 DEF PipesInv, ListInv, AtWorkUntil, Delivered, Processes, Pipe
  <2>3. QED
    BY <1>1, <2>1, <2>2
<1>9. MedianInv'
  BY <1>1, <1>2 DEF MedianInv
<1>10. PrintedInv'
  BY <1>1, <1>2 DEF PipesInv, PrintedInv, WrongOnlyByLoss, Processes
<1>11. ReapedInv'
  BY <1>1, <1>2 DEF PipesInv, ReapedInv, Finished, Processes
<1>12. QED
  BY <1>4, <1>5, <1>6, <1>7, <1>8, <1>9, <1>10, <1>11 DEF PipesInv

LEMMA ReadNothingStep ==
    ASSUME PipesInv, NEW p \in Processes, ReadNothing(p)
    PROVE  PipesInv'
<1>1. PICK k \in Pipe : p = Reader[k] /\ pc[p] = ReadAt[k] /\ Missed(k) # {}
  BY ReadsInVain
<1>2. /\ pc' = [pc EXCEPT ![p] = @ + 1]
      /\ pc \in [Processes -> Int]
      /\ UNCHANGED <<args, status, ends, mem, pipe, printed, lost>>
      /\ status[p] = "running"
  BY CallIs DEF ReadNothing, Advance, ShapeInv, PipesInv
<1>3. \A j \in Pipe : Wrote(j)' = Wrote(j) /\ (Asked(j) => Asked(j)')
  BY <1>1, <1>2 DEF Wrote, Asked, Writer, WriteAt, Reader, ReadAt, Processes, Pipe
<1>4. ShapeInv'
  BY <1>1, <1>2 DEF PipesInv, ShapeInv, LastCall, Processes, Reader, ReadAt, Pipe
<1>5. BirthInv'
  BY <1>1, <1>2 DEF PipesInv, BirthInv, Unforked, Processes, Reader, ReadAt, Pipe
<1>6. EndsInv'
  <2>1. Calls(p, "read") /\ Advance(p) /\ "read" # "close"
    BY DEF ReadNothing
  <2>2. QED
    BY <1>2, <2>1, EndsKept DEF PipesInv
<1>7. ValuesInv'
  <2>1. HeldInv'
    BY <1>1, <1>2, <1>3
       DEF PipesInv, ValuesInv, HeldInv, Meant, OrJunk, Processes, Pipe, Reader, ReadAt, Asked
  <2>2. CarriedInv'
    BY <1>1, <1>2, <1>3 DEF PipesInv, ValuesInv, CarriedInv, Meant, Processes, Pipe
  <2>3. QED
    BY <2>1, <2>2 DEF ValuesInv
<1>8. ListInv'
  <2>1. CASE k \in {1, 2}
    BY <1>1, <1>2, <2>1 DEF ListInv, Missed
  <2>2. CASE k \in {3, 4}
    <3>1. Asked(1)' = Asked(1) /\ Asked(2)' = Asked(2)
      BY <1>1, <1>2, <2>2 DEF Asked, Reader, ReadAt, Processes
    <3>2. Wrote(1)' = Wrote(1) /\ Wrote(2)' = Wrote(2)
      BY <1>3 DEF Pipe
    <3>3. QED
      BY <1>1, <1>2, <3>1, <3>2, <2>2
         DEF PipesInv, ListInv, AtWorkUntil, Delivered, Processes, Pipe, Reader, ReadAt
  <2>3. QED
    BY <2>1, <2>2 DEF Pipe
<1>9. MedianInv'
  BY <1>1, <1>2 DEF MedianInv, Missed
<1>10. PrintedInv'
  BY <1>1, <1>2 DEF PipesInv, PrintedInv, WrongOnlyByLoss, Processes
<1>11. ReapedInv'
  BY <1>1, <1>2 DEF PipesInv, ReapedInv, Finished, Processes, Reader, ReadAt, Pipe
<1>12. QED
  BY <1>4, <1>5, <1>6, <1>7, <1>8, <1>9, <1>10, <1>11 DEF PipesInv

\* A process that ends keeps no end open; only what depends on its being at
\* work is left to see.
LEMMA EndKeeps ==
    ASSUME PipesInv, NEW p \in Processes, status[p] = "running", End(p),
           UNCHANGED <<args, pc, mem, pipe, printed>>,
           lost \subseteq lost', lost' \subseteq lost \union {p}
    PROVE  ShapeInv' /\ BirthInv' /\ EndsInv' /\ ValuesInv' /\ PrintedInv' /\ ReapedInv'
<1>1. /\ status' = [status EXCEPT ![p] = "zombie"]
      /\ ends' = [ends EXCEPT ![p] = {}]
      /\ status \in [Processes -> {"unborn", "running", "zombie", "gone"}]
      /\ ends \in [Processes -> SUBSET Ends]
  BY DEF End, PipesInv, ShapeInv
<1>2. ShapeInv'
  BY <1>1 DEF PipesInv, ShapeInv
<1>3. BirthInv'
  BY <1>1 DEF PipesInv, BirthInv, Unforked, Processes
<1>4. EndsInv'
  BY <1>1 DEF PipesInv, EndsInv
<1>5. ValuesInv'
  <2>1. HeldInv'
    BY DEF PipesInv, ValuesInv, HeldInv, Meant, Asked
  <2>2. CarriedInv'
    BY DEF PipesInv, ValuesInv, CarriedInv, Meant, Wrote
  <2>3. QED
    BY <2>1, <2>2 DEF ValuesInv
<1>6. PrintedInv'
  BY DEF PipesInv, PrintedInv, WrongOnlyByLoss
<1>7. ReapedInv'
  BY <1>1 DEF PipesInv, ReapedInv, Finished, Children
<1>8. QED
  BY <1>2, <1>3, <1>4, <1>5, <1>6, <1>7

LEMMA DeliveredSame ==
    ASSUME NEW k \in Pipe, UNCHANGED <<pc, mem, pipe>>
    PROVE  Delivered(k)' = Delivered(k)
  BY DEF Delivered, Asked, Wrote

LEMMA WriteKillsStep ==
    ASSUME PipesInv, NEW p \in Processes, WriteKills(p)
    PROVE  PipesInv'
<1>1. PICK k \in Pipe : p = Writer[k] /\ pc[p] = WriteAt[k] /\ Missed(k) # {}
  BY WritesInVain
<1>2. /\ status' = [status EXCEPT ![p] = "zombie"]
      /\ status \in [Processes -> {"unborn", "running", "zombie", "gone"}]
      /\ status[p] = "running"
      /\ UNCHANGED <<args, pc, mem, pipe, printed, lost>>
  BY CallIs DEF WriteKills, End, PipesInv, ShapeInv
<1>3. ShapeInv' /\ BirthInv' /\ EndsInv' /\ ValuesInv' /\ PrintedInv' /\ ReapedInv'
  BY <1>2, EndKeeps DEF WriteKills
<1>4. ListInv'
  <2>1. CASE k \in {1, 2}
    BY <1>1, <1>2, <2>1 DEF ListInv, Missed
  <2>2. CASE k \in {3, 4}
    <3>1. p # "parent" /\ (p = "child1" => pc[p] >= WriteAt[3])
      BY <1>1, <2>2 DEF Writer, WriteAt
    <3>2. Delivered(1)' = Delivered(1) /\ Delivered(2)' = Delivered(2)
      BY <1>2, DeliveredSame DEF Pipe
    <3>3. QED
      BY <1>2, <3>1, <3>2 DEF PipesInv, ListInv, AtWorkUntil, Processes
  <2>3. QED
    BY <2>1, <2>2 DEF Pipe
<1>5. MedianInv'
  BY <1>1, <1>2 DEF MedianInv, Missed
<1>6. QED
  BY <1>3, <1>4, <1>5 DEF PipesInv

LEMMA ExitStep ==
    ASSUME PipesInv, NEW p \in Processes, Exit(p)
    PROVE  PipesInv'
<1>1. pc[p] = LastCall[p] + 1
  <2>1. pc[p] > LastCall[p]
    BY CodeEnds DEF Exit
  <2>2. pc[p] \in Int /\ pc[p] <= LastCall[p] + 1
    BY DEF PipesInv, ShapeInv
  <2>3. LastCall[p] \in Int
    BY DEF LastCall, Processes
  <2>4. QED
    BY <2>1, <2>2, <2>3
<1>2. /\ status' = [status EXCEPT ![p] = "zombie"]
      /\ status \in [Processes -> {"unborn", "running", "zombie", "gone"}]
      /\ status[p] = "running"
      /\ UNCHANGED <<args, pc, mem, pipe, printed, lost>>
  BY DEF Exit, End, PipesInv, ShapeInv
<1>3. ShapeInv' /\ BirthInv' /\ EndsInv' /\ ValuesInv' /\ PrintedInv' /\ ReapedInv'
  BY <1>2, EndKeeps DEF Exit
<1>4. \A k \in Pipe : Delivered(k)' = Delivered(k)
  BY <1>2, DeliveredSame
<1>5. ListInv'
  BY <1>1, <1>2, <1>4 DEF PipesInv, ListInv, AtWorkUntil, Processes, Pipe, LastCall, WriteAt
<1>6. MedianInv'
  BY <1>1, <1>2, <1>4 DEF PipesInv, MedianInv, AtWorkUntil, Processes, Pipe, LastCall
<1>7. QED
  BY <1>3, <1>5, <1>6 DEF PipesInv

LEMMA KillStep ==
    ASSUME PipesInv, NEW p \in Processes, Kill(p)
    PROVE  PipesInv'
<1>1. /\ status' = [status EXCEPT ![p] = "zombie"]
      /\ status \in [Processes -> {"unborn", "running", "zombie", "gone"}]
      /\ status[p] = "running"
      /\ lost' = lost \union {p}
      /\ UNCHANGED <<args, pc, mem, pipe, printed>>
  BY DEF Kill, End, PipesInv, ShapeInv
<1>2. ShapeInv' /\ BirthInv' /\ EndsInv' /\ ValuesInv' /\ PrintedInv' /\ ReapedInv'
  BY <1>1, EndKeeps DEF Kill
<1>3. ListInv'
  <2>1. CASE p \in {"parent", "child1"}
    BY <1>1, <2>1 DEF ListInv
  <2>2. CASE p = "child2"
    <3>1. Delivered(1)' = Delivered(1) /\ Delivered(2)' = Delivered(2)
      BY <1>1, DeliveredSame DEF Pipe
    <3>2. QED
      BY <1>1, <2>2, <3>1 DEF PipesInv, ListInv, AtWorkUntil, Processes
  <2>3. QED
    BY <2>1, <2>2 DEF Processes
<1>4. MedianInv'
  BY <1>1 DEF MedianInv
<1>5. QED
  BY <1>2, <1>3, <1>4 DEF PipesInv

LEMMA WaitStep ==
    ASSUME PipesInv, NEW p \in Processes, DoWait(p)
    PROVE  PipesInv'
<1>1. p = "parent" /\ pc[p] \in {16, 17}
  BY WaitCalls DEF DoWait
<1>2. /\ pc' = [pc EXCEPT ![p] = @ + 1]
      /\ pc \in [Processes -> Int]
      /\ status \in [Processes -> {"unborn", "running", "zombie", "gone"}]
      /\ UNCHANGED <<args, ends, mem, pipe, printed, lost>>
      /\ status[p] = "running"
  BY CallIs DEF DoWait, Advance, ShapeInv, PipesInv
<1>3. \/ \E child \in Children : /\ status[child] = "zombie"
                                 /\ status' = [status EXCEPT ![child] = "gone"]
      \/ /\ \A child \in Children : Finished(child)
         /\ UNCHANGED status
  BY DEF DoWait, Finished
<1>4. /\ \A q \in Processes : status'[q] = "running" <=> status[q] = "running"
      /\ \A q \in Processes : status'[q] = "unborn" <=> status[q] = "unborn"
      /\ status' \in [Processes -> {"unborn", "running", "zombie", "gone"}]
      /\ status'["parent"] = status["parent"]
  BY <1>2, <1>3 DEF Children, Processes
<1>5. \A k \in Pipe : Wrote(k)' = Wrote(k) /\ Asked(k)' = Asked(k)
  BY <1>1, <1>2 DEF Wrote, Asked, Writer, WriteAt, Reader, ReadAt, Processes, Pipe
<1>6. ShapeInv'
  BY <1>1, <1>2, <1>4 DEF PipesInv, ShapeInv, LastCall, Processes
<1>7. BirthInv'
  BY <1>1, <1>2, <1>4 DEF PipesInv, BirthInv, Unforked, Processes
<1>8. EndsInv'
  <2>1. Calls(p, "wait") /\ Advance(p) /\ "wait" # "close"
    BY DEF DoWait
  <2>2. QED
    BY <1>2, <1>4, <2>1, EndsKept DEF PipesInv
<1>9. ValuesInv'
  <2>1. HeldInv'
    BY <1>1, <1>2, <1>5 DEF PipesInv, ValuesInv, HeldInv, Meant, Processes, Pipe
  <2>2. CarriedInv'
    BY <1>1, <1>2, <1>5 DEF PipesInv, ValuesInv, CarriedInv, Meant, Processes, Pipe
  <2>3. QED
    BY <2>1, <2>2 DEF ValuesInv
<1>10. ListInv'
  BY <1>1, <1>2, <1>4, <1>5 DEF PipesInv, ListInv, AtWorkUntil, Delivered, Processes, Pipe
<1>11. MedianInv'
  BY <1>1, <1>2, <1>4, <1>5 DEF PipesInv, MedianInv, AtWorkUntil, Delivered, Processes, Pipe
<1>12. PrintedInv'
  BY <1>1, <1>2 DEF PipesInv, PrintedInv, WrongOnlyByLoss, Processes
<1>13. ReapedInv'
  BY <1>1, <1>2, <1>3 DEF PipesInv, ReapedInv, Finished, Children, Processes
<1>14. QED
  BY <1>6, <1>7, <1>8, <1>9, <1>10, <1>11, <1>12, <1>13 DEF PipesInv

-----------------------------------------------------------------------------
(* The steps that change what a process holds                              *)

Values == Lists \union Numbers

\* Process p's variable gets the value, and nothing else in memory changes.
Stores(p, variable, value) ==
    /\ mem'[p][variable] = value
    /\ \A q \in Processes : \A u \in Variables :
          (q # p \/ u # variable) => mem'[q][u] = mem[q][u]
    /\ mem' \in [Processes -> [Variables -> Values]]

LEMMA Stored ==
    ASSUME mem \in [Processes -> [Variables -> Values]],
           NEW p \in Processes, NEW variable \in Variables, NEW value \in Values,
           mem' = [mem EXCEPT ![p][variable] = value]
    PROVE  Stores(p, variable, value)
<1> DEFINE m == [mem[p] EXCEPT ![variable] = value]
<1>1. mem' = [mem EXCEPT ![p] = m]
  OBVIOUS
<1>2. mem[p] \in [Variables -> Values]
  OBVIOUS
<1>3. /\ m \in [Variables -> Values]
      /\ m[variable] = value
      /\ \A u \in Variables \ {variable} : m[u] = mem[p][u]
  BY <1>2
<1> HIDE DEF m
<1>4. /\ mem'[p] = m
      /\ \A q \in Processes \ {p} : mem'[q] = mem[q]
      /\ mem' \in [Processes -> [Variables -> Values]]
  BY <1>1, <1>3
<1>5. QED
  BY <1>3, <1>4 DEF Stores

LEMMA MeantIs ==
    ASSUME ShapeInv
    PROVE  /\ Meant(1) = args /\ Meant(2) = Sorted(args) /\ Meant(3) = Sorted(args)
           /\ Meant(4) = Median(Sorted(args))
           /\ args \in FiveNumbers /\ Sorted(args) \in FiveNumbers
           /\ Median(Sorted(args)) \in [1 .. 1 -> Int]
           /\ args # Junk /\ Sorted(args) # Junk /\ Median(Sorted(args)) # Junk
           /\ Junk \in Values
           /\ \A k \in Pipe : Meant(k) \in Values /\ Meant(k) # Junk
<1>1. args \in FiveNumbers
  BY ShapeTyped
<1>2. Sorted(args) \in FiveNumbers
  BY <1>1, SortedIsList
<1>3. Median(Sorted(args)) \in [1 .. 1 -> Int] /\ Median(Sorted(args)) # Junk
  <2> DEFINE n == Sorted(args)[3]
  <2>1. n \in Int
    BY <1>2 DEF FiveNumbers
  <2> HIDE DEF n
  <2>2. <<n>> \in [1 .. 1 -> Int] /\ <<n>> # <<>>
    BY <2>1
  <2>3. QED
    BY <2>2 DEF Median, Junk, n
<1>4. args # Junk /\ Sorted(args) # Junk
  BY <1>1, <1>2, NoListIsJunk
<1>5. /\ Meant(1) = args /\ Meant(2) = Sorted(args) /\ Meant(3) = Sorted(args)
      /\ Meant(4) = Median(Sorted(args))
  BY DEF Meant
<1>6. QED
  BY <1>1, <1>2, <1>3, <1>4, <1>5 DEF Values, Lists, Numbers, FiveNumbers, Pipe

LEMMA ForkStep ==
    ASSUME PipesInv, NEW p \in Processes, DoFork(p)
    PROVE  PipesInv'
<1> DEFINE child == Now(p).child
<1>1. /\ p = "parent" /\ status[p] = "running"
      /\ \/ pc[p] = 1 /\ child = "child1"
         \/ pc[p] = 2 /\ child = "child2"
  BY ForkCalls, CallIs DEF DoFork
<1>2. /\ pc' = [pc EXCEPT ![p] = @ + 1]
      /\ pc \in [Processes -> Int]
      /\ status' = [status EXCEPT ![child] = "running"]
      /\ status \in [Processes -> {"unborn", "running", "zombie", "gone"}]
      /\ ends' = [ends EXCEPT ![child] = ends[p]]
      /\ ends \in [Processes -> SUBSET Ends]
      /\ mem' = [mem EXCEPT ![child] = mem[p]]
      /\ mem \in [Processes -> [Variables -> Values]]
      /\ UNCHANGED <<args, pipe, printed, lost>>
  BY DEF DoFork, Advance, ShapeInv, PipesInv, Values
<1> HIDE DEF child
<1>3. \A k \in Pipe : Wrote(k)' = Wrote(k) /\ Asked(k)' = Asked(k)
  BY <1>1, <1>2 DEF Wrote, Asked, Writer, WriteAt, Reader, ReadAt, Processes, Pipe
<1>4. status[child] = "unborn" /\ pc[child] = 1 /\ child \notin lost /\ child \in Children
  BY <1>1 DEF PipesInv, BirthInv, Unforked, Children, Processes
<1>5. ShapeInv'
  BY <1>1, <1>2, <1>4 DEF PipesInv, ShapeInv, LastCall, Processes, Values
<1>6. BirthInv'
  BY <1>1, <1>2, <1>4 DEF PipesInv, BirthInv, Unforked, Processes
<1>7. EndsInv'
  <2>1. ASSUME NEW k \in Pipe
        PROVE  /\ <<k, "read">> \in ends[p] /\ <<k, "write">> \in ends[p]
               /\ 1 <= ReadEndClosed[child][k] /\ 1 <= WriteEndClosed[child][k]
               /\ pc[p] + 1 <= ReadEndClosed[p][k] /\ pc[p] + 1 <= WriteEndClosed[p][k]
    BY <1>1, <1>2 DEF PipesInv, EndsInv, ReadEndClosed, WriteEndClosed, Pipe
  <2>2. ASSUME NEW q \in Processes, q # p, q # child
        PROVE  status'[q] = status[q] /\ ends'[q] = ends[q] /\ pc'[q] = pc[q]
    BY <1>2, <2>2
  <2>3. status'[child] = "running" /\ ends'[child] = ends[p] /\ pc'[child] = 1
    BY <1>1, <1>2, <1>4 DEF Children, Processes
  <2>4. status'[p] = "running" /\ ends'[p] = ends[p] /\ pc'[p] = pc[p] + 1
    BY <1>1, <1>2, <1>4 DEF Children
  <2>5. QED
    BY <2>1, <2>2, <2>3, <2>4 DEF PipesInv, EndsInv
<1>8. ValuesInv'
  <2>1. HeldInv'
    BY <1>1, <1>2, <1>3, <1>4
       DEF PipesInv, ValuesInv, HeldInv, Meant, OrJunk, Asked, Reader, ReadAt, Processes, Pipe, Variables
  <2>2. CarriedInv'
    BY <1>1, <1>2, <1>3 DEF PipesInv, ValuesInv, CarriedInv, Meant, Processes, Pipe
  <2>3. QED
    BY <2>1, <2>2 DEF ValuesInv
<1>9. ASSUME NEW k \in Pipe, Delivered(k)
      PROVE  Delivered(k)'
  <2>1. Asked(k) => Reader[k] # child
    BY <1>4 DEF Asked, Reader, ReadAt, Pipe
  <2>2. Asked(k) => mem'[Reader[k]] = mem[Reader[k]]
    BY <1>2, <2>1, OwnEndOpen
  <2>3. QED
    BY <1>2, <1>3, <1>9, <2>2 DEF Delivered
<1>12. ListInv'
  BY <1>1, <1>2, <1>4, <1>9
     DEF PipesInv, ListInv, AtWorkUntil, Processes, Pipe
<1>13. MedianInv'
  BY <1>1, <1>2, <1>4, <1>9
     DEF PipesInv, MedianInv, BirthInv, Unforked, AtWorkUntil, Processes, Pipe
<1>14. PrintedInv'
  BY <1>1, <1>2, <1>4 DEF PipesInv, PrintedInv, WrongOnlyByLoss, Processes
<1>15. ReapedInv'
  BY <1>1, <1>2 DEF PipesInv, ReapedInv, Finished, Processes
<1>16. QED
  BY <1>5, <1>6, <1>7, <1>8, <1>12, <1>13, <1>14, <1>15 DEF PipesInv

\* No two pipes are read into the same variable.
LEMMA ReadIntoApart ==
    ASSUME NEW j \in Pipe, NEW k \in Pipe
    PROVE  /\ ReadInto[k] \in Variables
           /\ (Reader[j] = Reader[k] /\ ReadInto[j] = ReadInto[k]) => j = k
  BY DEF Pipe, Reader, ReadInto, Variables

LEMMA ReadStep ==
    ASSUME PipesInv, NEW p \in Processes, DoRead(p)
    PROVE  PipesInv'
<1>1. PICK k \in Pipe : /\ p = Reader[k] /\ pc[p] = ReadAt[k]
                        /\ Now(p).end = <<k, "read">> /\ Now(p).variable = ReadInto[k]
  BY ReadCalls DEF DoRead
<1>2. /\ pc' = [pc EXCEPT ![p] = @ + 1]
      /\ pc \in [Processes -> Int]
      /\ pipe[k] # <<>>
      /\ mem' = [mem EXCEPT ![p][ReadInto[k]] = Head(pipe[k])]
      /\ mem \in [Processes -> [Variables -> Values]]
      /\ pipe' = [pipe EXCEPT ![k] = Tail(pipe[k])]
      /\ pipe \in [Pipe -> Seq(Values)]
      /\ status[p] = "running"
      /\ UNCHANGED <<args, status, ends, printed, lost>>
  BY <1>1, CallIs DEF DoRead, Advance, ShapeInv, PipesInv, Values
<1>3. PICK value \in OrJunk(Meant(k)) : pipe[k] = <<value>> /\ Wrote(k)
  BY <1>2 DEF PipesInv, ValuesInv, CarriedInv
<1>4. value \in Values /\ ReadInto[k] \in Variables
  BY <1>3, MeantIs, ReadIntoApart DEF OrJunk, PipesInv
<1>5. /\ Stores(p, ReadInto[k], value)
      /\ pipe' = [pipe EXCEPT ![k] = <<>>]
  <2>1. Head(pipe[k]) = value /\ Tail(pipe[k]) = <<>>
    BY <1>3
  <2>2. mem' = [mem EXCEPT ![p][ReadInto[k]] = value]
    BY <1>2, <2>1
  <2>3. QED
    BY <1>2, <1>4, <2>1, <2>2, Stored
<1>6. ~ Asked(k) /\ Asked(k)'
  BY <1>1, <1>2, OwnEndOpen DEF Asked
<1>7. /\ \A j \in Pipe : Wrote(j)' = Wrote(j)
      /\ \A j \in Pipe \ {k} : Asked(j)' = Asked(j)
  BY <1>1, <1>2, CallsApart, OnlyOneCall
<1>8. ShapeInv'
  <2>1. pipe' \in [Pipe -> Seq(Values)]
    BY <1>2, <1>5
  <2>2. mem' \in [Processes -> [Variables -> Values]]
    BY <1>5 DEF Stores
  <2>3. Calls(p, "read") /\ Advance(p)
    BY DEF DoRead
  <2>4. QED
    BY <1>2, <2>1, <2>2, <2>3, AdvanceKeeps DEF PipesInv, ShapeInv, Values
<1>9. BirthInv'
  BY <1>1, <1>2 DEF PipesInv, BirthInv, Unforked, Processes, Reader, ReadAt, Pipe
<1>10. EndsInv'
  <2>1. Calls(p, "read") /\ Advance(p) /\ "read" # "close"
    BY DEF DoRead
  <2>2. QED
    BY <1>2, <2>1, EndsKept DEF PipesInv
<1>11. ValuesInv'
  <2>1. HeldInv'
    <3>1. Meant(k)' = Meant(k)
      BY <1>2 DEF Meant
    <3>2. k \in {1, 2, 3, 4} /\ Junk \in OrJunk(Meant(k))
      BY DEF Pipe, OrJunk
    <3>3. CASE k = 1
      BY <1>1, <1>2, <1>3, <1>5, <1>6, <1>7, <3>3, MeantIs
         DEF PipesInv, ValuesInv, HeldInv, Meant, OrJunk, Stores, Asked, Reader, ReadAt, ReadInto,
             Processes, Variables
    <3>4. CASE k = 2
      BY <1>1, <1>2, <1>3, <1>5, <1>6, <1>7, <3>4, MeantIs
         DEF PipesInv, ValuesInv, HeldInv, Meant, OrJunk, Stores, Asked, Reader, ReadAt, ReadInto,
             Processes, Variables
    <3>5. CASE k = 3
      BY <1>1, <1>2, <1>3, <1>5, <1>6, <1>7, <3>5, MeantIs
         DEF PipesInv, ValuesInv, HeldInv, Meant, OrJunk, Stores, Asked, Reader, ReadAt, ReadInto,
             Processes, Variables
    <3>6. CASE k = 4
      BY <1>1, <1>2, <1>3, <1>5, <1>6, <1>7, <3>6, MeantIs
         DEF PipesInv, ValuesInv, HeldInv, Meant, OrJunk, Stores, Asked, Reader, ReadAt, ReadInto,
             Processes, Variables
    <3>7. QED
      BY <3>2, <3>3, <3>4, <3>5, <3>6
  <2>2. CarriedInv'
    BY <1>2, <1>5, <1>7 DEF PipesInv, ValuesInv, CarriedInv, Meant
  <2>3. QED
    BY <2>1, <2>2 DEF ValuesInv
<1>12. ASSUME NEW j \in Pipe, Delivered(j)
       PROVE  Delivered(j)'
  <2>1. CASE j = k
    <3>1. value # Junk
      BY <1>3, <1>6, <1>12, <2>1 DEF Delivered
    <3>2. mem'[p][ReadInto[k]] = value
      BY <1>5 DEF Stores
    <3>3. QED
      BY <1>1, <1>3, <1>6, <1>7, <2>1, <3>1, <3>2 DEF Delivered
  <2>2. CASE j # k
    <3>1. mem'[Reader[j]][ReadInto[j]] = mem[Reader[j]][ReadInto[j]]
      BY <1>1, <1>5, <2>2, ReadIntoApart, OwnEndOpen DEF Stores
    <3>2. pipe'[j] = pipe[j]
      BY <1>2, <2>2
    <3>3. QED
      BY <1>7, <1>12, <2>2, <3>1, <3>2 DEF Delivered
  <2>3. QED
    BY <2>1, <2>2
<1>13. ListInv'
  <2>1. SUFFICES ASSUME {"parent", "child1"} \cap lost = {}
                 PROVE  ListInv'
    BY <1>2 DEF ListInv
  <2>2. (pc["parent"] > 1)' = (pc["parent"] > 1)
    BY <1>1, <1>2 DEF Reader, ReadAt, Pipe, Processes
  <2>3. /\ AtWorkUntil("parent", LastCall["parent"] + 1)'
        /\ (pc["parent"] > 1)' => AtWorkUntil("child1", WriteAt[3])'
    BY <1>2, <2>1, <2>2, WorkGoesOn, WorkEnds DEF PipesInv, ListInv
  <2>4. Delivered(1)' /\ Delivered(2)'
    BY <1>12, <2>1 DEF PipesInv, ListInv, Pipe
  <2>5. QED
    BY <2>3, <2>4 DEF ListInv
<1>14. MedianInv'
  <2>1. SUFFICES ASSUME lost = {}
                 PROVE  MedianInv'
    BY <1>2 DEF MedianInv
  <2>2. mem'["child2"].median = mem["child2"].median
    BY <1>1, <1>5 DEF Stores, Reader, ReadInto, Pipe, Processes, Variables
  <2>3. (pc["child2"] > 9)' = (pc["child2"] > 9)
    BY <1>1, <1>2 DEF Reader, ReadAt, Pipe, Processes
  <2>4. /\ (pc["parent"] > 1)' = (pc["parent"] > 1)
        /\ (pc["parent"] > 2)' = (pc["parent"] > 2)
    BY <1>1, <1>2 DEF Reader, ReadAt, Pipe, Processes
  <2>5. /\ (pc["parent"] > 1)' => AtWorkUntil("child1", LastCall["child1"] + 1)'
        /\ (pc["parent"] > 2)' => AtWorkUntil("child2", LastCall["child2"] + 1)'
    BY <1>2, <2>1, <2>4, WorkGoesOn, WorkEnds DEF PipesInv, MedianInv
  <2>6. /\ (pc["child2"] > 9)' => mem'["child2"].median # Junk
        /\ Delivered(3)' /\ Delivered(4)'
    BY <1>12, <2>1, <2>2, <2>3 DEF PipesInv, MedianInv, Pipe
  <2>7. QED
    BY <2>5, <2>6 DEF MedianInv
<1>15. PrintedInv'
  <2>1. CASE p = "parent"
    BY <1>1, <1>2, <2>1 DEF PipesInv, PrintedInv, WrongOnlyByLoss, Reader, ReadAt, Pipe
  <2>2. CASE p # "parent"
    <3>1. mem'["parent"].sorted = mem["parent"].sorted /\ mem'["parent"].median = mem["parent"].median
      BY <1>5, <2>2 DEF Stores, Processes, Variables
    <3>2. pc'["parent"] = pc["parent"]
      BY <1>2, <2>2 DEF Processes
    <3>3. QED
      BY <1>2, <3>1, <3>2 DEF PipesInv, PrintedInv, WrongOnlyByLoss
  <2>3. QED
    BY <2>1, <2>2
<1>16. ReapedInv'
  BY <1>1, <1>2 DEF PipesInv, ReapedInv, Finished, Processes, Reader, ReadAt, Pipe
<1>17. QED
  BY <1>8, <1>9, <1>10, <1>11, <1>13, <1>14, <1>15, <1>16 DEF PipesInv

LEMMA WriteStep ==
    ASSUME PipesInv, NEW p \in Processes, DoWrite(p)
    PROVE  PipesInv'
<1>1. PICK k \in Pipe : /\ p = Writer[k] /\ pc[p] = WriteAt[k]
                        /\ Now(p).end[1] = k /\ Now(p).variable = WrittenFrom[k]
  BY WriteCalls DEF DoWrite
<1> DEFINE value == mem[p][WrittenFrom[k]]
<1>2. /\ pc' = [pc EXCEPT ![p] = @ + 1]
      /\ pc \in [Processes -> Int]
      /\ pipe' = [pipe EXCEPT ![k] = Append(pipe[k], value)]
      /\ pipe \in [Pipe -> Seq(Values)]
      /\ status[p] = "running"
      /\ UNCHANGED <<args, status, ends, mem, printed, lost>>
  BY <1>1, CallIs DEF DoWrite, Advance, ShapeInv, PipesInv, Values
<1>3. ~ Wrote(k) /\ Wrote(k)'
  BY <1>1, <1>2, OwnEndOpen DEF Wrote
<1>4. /\ \A j \in Pipe : Asked(j)' = Asked(j)
      /\ \A j \in Pipe \ {k} : Wrote(j)' = Wrote(j)
  <2>1. \A j \in Pipe : Asked(j)' = Asked(j)
    <3>1. ASSUME NEW j \in Pipe
          PROVE  ~ (Reader[j] = p /\ ReadAt[j] = pc[p])
      BY <1>1, CallsApart
    <3>2. QED
      BY <1>2, <3>1, OnlyOneCall
  <2>2. \A j \in Pipe \ {k} : Wrote(j)' = Wrote(j)
    BY <1>1, <1>2, CallsApart, OnlyOneCall
  <2>3. QED
    BY <2>1, <2>2
<1>5. value \in OrJunk(Meant(k))
  BY <1>1 DEF PipesInv, ValuesInv, HeldInv, Meant, OrJunk, Writer, WriteAt, WrittenFrom, Pipe
<1>6. value \in Values
  BY <1>5, MeantIs DEF OrJunk, PipesInv
<1>7. pipe' = [pipe EXCEPT ![k] = <<value>>]
  <2>1. pipe[k] = <<>>
    BY <1>3 DEF PipesInv, ValuesInv, CarriedInv
  <2> HIDE DEF value
  <2>2. Append(pipe[k], value) = <<value>>
    BY <1>6, <2>1
  <2>3. QED
    BY <1>2, <2>2
<1> HIDE DEF value
<1>8. ShapeInv'
  <2>1. <<value>> \in Seq(Values)
    BY <1>6
  <2>2. pipe' \in [Pipe -> Seq(Values)]
    BY <1>2, <1>7, <2>1
  <2>3. Calls(p, "write") /\ Advance(p)
    BY DEF DoWrite
  <2>4. QED
    BY <1>2, <2>2, <2>3, AdvanceKeeps DEF PipesInv, ShapeInv, Values
<1>9. BirthInv'
  BY <1>1, <1>2 DEF PipesInv, BirthInv, Unforked, Processes, Writer, WriteAt, Pipe
<1>10. EndsInv'
  <2>1. Calls(p, "write") /\ Advance(p) /\ "write" # "close"
    BY DEF DoWrite
  <2>2. QED
    BY <1>2, <2>1, EndsKept DEF PipesInv
<1>11. ValuesInv'
  <2>1. HeldInv'
    BY <1>1, <1>2, <1>4
       DEF PipesInv, ValuesInv, HeldInv, Meant, Processes, Pipe, Writer, WriteAt
  <2>2. CarriedInv'
    <3>1. Meant(k)' = Meant(k) /\ \A j \in Pipe : Meant(j)' = Meant(j)
      BY <1>2 DEF Meant
    <3>2. ASSUME NEW j \in Pipe, j # k
          PROVE  pipe'[j] = pipe[j] /\ Wrote(j)' = Wrote(j)
      BY <1>2, <1>4, <3>2
    <3>3. pipe'[k] = <<value>>
      BY <1>2, <1>7
    <3>4. QED
      BY <1>3, <1>5, <3>1, <3>2, <3>3 DEF PipesInv, ValuesInv, CarriedInv, OrJunk
  <2>3. QED
    BY <2>1, <2>2 DEF ValuesInv
<1>12. ASSUME NEW j \in Pipe, Delivered(j), j = k => value # Junk
       PROVE  Delivered(j)'
  <2>1. CASE j = k
    <3>1. pipe'[k] = <<value>> /\ value # Junk
      BY <1>2, <1>7, <1>12, <2>1
    <3>2. ~ Asked(k)
      BY <1>3, <1>12, <2>1 DEF Delivered
    <3>3. QED
      BY <1>3, <1>4, <2>1, <3>1, <3>2 DEF Delivered
  <2>2. CASE j # k
    <3>1. pipe'[j] = pipe[j]
      BY <1>2, <1>7, <2>2
    <3>2. QED
      BY <1>2, <1>4, <1>12, <2>2, <3>1 DEF Delivered
  <2>3. QED
    BY <2>1, <2>2
<1>13. ListInv'
  <2>1. SUFFICES ASSUME lost \cap {"parent", "child1"} = {}
                 PROVE  ListInv'
    BY <1>2 DEF ListInv
  <2>2. Delivered(1) /\ Delivered(2)
    BY <2>1 DEF PipesInv, ListInv
  <2>3. k \in {1, 2, 3} => value # Junk
    <3>1. k = 1 => value = args
      BY <1>1 DEF PipesInv, ValuesInv, HeldInv, Writer, WriteAt, WrittenFrom, value
    <3>2. k \in {2, 3} => value # Junk
      BY <1>1, <2>2 DEF Delivered, Asked, Reader, ReadAt, ReadInto, Writer, WriteAt, WrittenFrom, value
    <3>3. QED
      BY <3>1, <3>2, MeantIs DEF PipesInv
  <2>4. Delivered(1)' /\ Delivered(2)'
    BY <1>12, <2>2, <2>3 DEF Pipe
  <2>5. (pc["parent"] > 1)' = (pc["parent"] > 1)
    BY <1>1, <1>2 DEF Writer, WriteAt, Pipe, Processes
  <2>6. /\ AtWorkUntil("parent", LastCall["parent"] + 1)'
        /\ (pc["parent"] > 1)' => AtWorkUntil("child1", WriteAt[3])'
    BY <1>2, <2>1, <2>5, WorkGoesOn, WorkEnds DEF PipesInv, ListInv
  <2>7. QED
    BY <2>4, <2>6 DEF ListInv
<1>14. MedianInv'
  <2>1. SUFFICES ASSUME lost = {}
                 PROVE  MedianInv'
    BY <1>2 DEF MedianInv
  <2>2. Delivered(1) /\ Delivered(3) /\ Delivered(4)
    BY <2>1 DEF PipesInv, ListInv, MedianInv
  <2>3. k \in {3, 4} => value # Junk
    <3>1. k = 3 => value # Junk
      BY <1>1, <2>2 DEF Delivered, Asked, Reader, ReadAt, ReadInto, Writer, WriteAt, WrittenFrom, value
    <3>2. k = 4 => value # Junk
      BY <1>1, <2>1 DEF PipesInv, MedianInv, Writer, WriteAt, WrittenFrom, value
    <3>3. QED
      BY <3>1, <3>2
  <2>4. Delivered(3)' /\ Delivered(4)'
    BY <1>12, <2>2, <2>3 DEF Pipe
  <2>5. (pc["child2"] > 9)' = (pc["child2"] > 9)
    BY <1>1, <1>2 DEF Writer, WriteAt, Pipe, Processes
  <2>6. /\ (pc["parent"] > 1)' = (pc["parent"] > 1)
        /\ (pc["parent"] > 2)' = (pc["parent"] > 2)
    BY <1>1, <1>2 DEF Writer, WriteAt, Pipe, Processes
  <2>7. /\ (pc["parent"] > 1)' => AtWorkUntil("child1", LastCall["child1"] + 1)'
        /\ (pc["parent"] > 2)' => AtWorkUntil("child2", LastCall["child2"] + 1)'
    BY <1>2, <2>1, <2>6, WorkGoesOn, WorkEnds DEF PipesInv, MedianInv
  <2>8. (pc["child2"] > 9)' => mem'["child2"].median # Junk
    BY <1>2, <2>1, <2>5 DEF PipesInv, MedianInv
  <2>9. QED
    BY <2>4, <2>7, <2>8 DEF MedianInv
<1>15. PrintedInv'
  BY <1>1, <1>2 DEF PipesInv, PrintedInv, WrongOnlyByLoss, Processes, Writer, WriteAt, Pipe
<1>16. ReapedInv'
  BY <1>1, <1>2 DEF PipesInv, ReapedInv, Finished, Processes, Writer, WriteAt, Pipe
<1>17. QED
  BY <1>8, <1>9, <1>10, <1>11, <1>13, <1>14, <1>15, <1>16 DEF PipesInv

LEMMA ComputeStep ==
    ASSUME PipesInv, NEW p \in Processes, Compute(p)
    PROVE  PipesInv'
<1> DEFINE value == Computed(p, Now(p).by)
           variable == Now(p).variable
<1>1. \/ p = "parent" /\ pc[p] = 8 /\ variable = "nums" /\ Now(p).by = "parse"
      \/ p = "child1" /\ pc[p] = 8 /\ variable = "nums" /\ Now(p).by = "sort"
      \/ p = "child2" /\ pc[p] = 9 /\ variable = "median" /\ Now(p).by = "median"
  BY SetCalls DEF Compute
<1>2. /\ pc' = [pc EXCEPT ![p] = @ + 1]
      /\ pc \in [Processes -> Int]
      /\ mem' = [mem EXCEPT ![p][variable] = value]
      /\ mem \in [Processes -> [Variables -> Values]]
      /\ status[p] = "running"
      /\ UNCHANGED <<args, status, ends, pipe, printed, lost>>
  BY CallIs DEF Compute, Advance, ShapeInv, PipesInv, Values
<1>3. ShapeInv
  BY DEF PipesInv
<1>4. /\ p = "parent" => value = args
      /\ p = "child1" => /\ value \in OrJunk(Sorted(args))
                         /\ mem[p].nums # Junk => value # Junk
      /\ p = "child2" => /\ value \in OrJunk(Meant(4))
                         /\ mem[p].nums # Junk => value # Junk
  <2>1. CASE p = "parent"
    BY <1>1, <2>1 DEF Computed
  <2>2. CASE p = "child1"
    <3>1. value = Sorted(mem[p].nums)
      BY <1>1, <2>2 DEF Computed
    <3>2. mem[p].nums \in {Junk, args}
      BY <1>1, <2>2 DEF PipesInv, ValuesInv, HeldInv, OrJunk
    <3>3. QED
      BY <1>3, <2>2, <3>1, <3>2, SortedJunk, MeantIs DEF OrJunk
  <2>3. CASE p = "child2"
    <3>1. value = IF mem[p].nums = Junk THEN Junk ELSE Median(mem[p].nums)
      BY <1>1, <2>3 DEF Computed
    <3>2. mem[p].nums \in {Junk, Sorted(args)}
      BY <1>3, <1>1, <2>3, MeantIs DEF PipesInv, ValuesInv, HeldInv, OrJunk
    <3>3. QED
      BY <1>3, <2>3, <3>1, <3>2, MeantIs DEF OrJunk
  <2>4. QED
    BY <2>1, <2>2, <2>3 DEF Processes
<1> HIDE DEF value, variable
<1>5. Stores(p, variable, value)
  <2>1. variable \in Variables
    BY <1>1 DEF Variables
  <2>2. value \in Values
    BY <1>3, <1>4, MeantIs DEF OrJunk, Processes, Values, Lists, FiveNumbers, Pipe
  <2>3. QED
    BY <1>2, <2>1, <2>2, Stored
<1>6. \A k \in Pipe : Wrote(k)' = Wrote(k)
  BY <1>1, <1>2 DEF Wrote, Writer, WriteAt, Processes, Pipe
<1>7. \A k \in Pipe : Asked(k)' = Asked(k)
  BY <1>1, <1>2 DEF Asked, Reader, ReadAt, Processes, Pipe
<1>8. Calls(p, "set") /\ Advance(p) /\ "set" # "close"
  BY DEF Compute
<1>9. ShapeInv'
  <2>1. mem' \in [Processes -> [Variables -> Values]]
    BY <1>5 DEF Stores
  <2>2. QED
    BY <1>2, <1>8, <2>1, AdvanceKeeps DEF PipesInv, ShapeInv, Values
<1>10. BirthInv'
  BY <1>1, <1>2 DEF PipesInv, BirthInv, Unforked, Processes
<1>11. EndsInv'
  BY <1>2, <1>8, EndsKept DEF PipesInv
<1>12. \A k \in Pipe : Meant(k)' = Meant(k)
  BY <1>2 DEF Meant
<1>13. ValuesInv'
  <2>1. HeldInv'
    <3>1. CASE p = "parent"
      BY <1>1, <1>2, <1>4, <1>5, <1>7, <1>12, <3>1
         DEF PipesInv, ValuesInv, HeldInv, Stores, Pipe, Processes, Variables
    <3>2. CASE p = "child1"
      BY <1>1, <1>2, <1>4, <1>5, <1>7, <1>12, <3>2
         DEF PipesInv, ValuesInv, HeldInv, Stores, Pipe, Processes, Variables
    <3>3. CASE p = "child2"
      BY <1>1, <1>2, <1>4, <1>5, <1>7, <1>12, <3>3
         DEF PipesInv, ValuesInv, HeldInv, Stores, Pipe, Processes, Variables
    <3>4. QED
      BY <3>1, <3>2, <3>3 DEF Processes
  <2>2. CarriedInv'
    BY <1>2, <1>6, <1>12 DEF PipesInv, ValuesInv, CarriedInv
  <2>3. QED
    BY <2>1, <2>2 DEF ValuesInv
<1>14. ASSUME NEW k \in Pipe, Delivered(k)
       PROVE  Delivered(k)'
  <2>1. Asked(k) => mem'[Reader[k]][ReadInto[k]] # Junk
    <3>1. CASE Reader[k] = p /\ ReadInto[k] = variable
      <4>1. k = 1 /\ p = "child1"
        BY <1>1, <3>1 DEF Reader, ReadInto, Pipe
      <4>2. mem'[p][variable] = value
        BY <1>5 DEF Stores
      <4>3. Asked(k) => mem[p].nums # Junk
        BY <1>1, <1>14, <3>1, <4>1 DEF Delivered
      <4>4. QED
        BY <1>4, <3>1, <4>1, <4>2, <4>3
    <3>2. CASE ~ (Reader[k] = p /\ ReadInto[k] = variable)
      <4>1. mem'[Reader[k]][ReadInto[k]] = mem[Reader[k]][ReadInto[k]]
        BY <1>5, <3>2, OwnEndOpen, ReadIntoApart DEF Stores
      <4>2. QED
        BY <1>14, <4>1 DEF Delivered
    <3>3. QED
      BY <3>1, <3>2
  <2>2. QED
    BY <1>2, <1>6, <1>7, <1>14, <2>1 DEF Delivered
<1>15. ListInv'
  BY <1>1, <1>2, <1>14 DEF PipesInv, ListInv, AtWorkUntil, Processes, Pipe
<1>16. MedianInv'
  <2>1. SUFFICES ASSUME lost = {}
                 PROVE  MedianInv'
    BY <1>2 DEF MedianInv
  <2>2. mem'["child2"].median # Junk \/ ~ (pc["child2"] > 9)'
    <3>1. CASE p = "child2"
      <4>1. Asked(3) /\ Delivered(3)
        BY <1>1, <2>1, <3>1 DEF PipesInv, MedianInv, Asked, Reader, ReadAt
      <4>2. mem[p].nums # Junk
        BY <3>1, <4>1 DEF Delivered, Reader, ReadInto
      <4>3. mem'["child2"].median = value
        BY <1>1, <1>5, <3>1 DEF Stores
      <4>4. QED
        BY <1>4, <3>1, <4>2, <4>3
    <3>2. CASE p # "child2"
      BY <1>2, <1>5, <2>1, <3>2 DEF PipesInv, MedianInv, Stores, Processes, Variables
    <3>3. QED
      BY <3>1, <3>2
  <2>3. QED
    BY <1>1, <1>2, <1>14, <2>1, <2>2 DEF PipesInv, MedianInv, AtWorkUntil, Processes, Pipe
<1>17. PrintedInv'
  <2>1. mem'["parent"].sorted = mem["parent"].sorted /\ mem'["parent"].median = mem["parent"].median
    BY <1>1, <1>5 DEF Stores, Processes, Variables
  <2>2. QED
    BY <1>1, <1>2, <2>1 DEF PipesInv, PrintedInv, WrongOnlyByLoss, Processes
<1>18. ReapedInv'
  BY <1>1, <1>2 DEF PipesInv, ReapedInv, Finished, Processes
<1>19. QED
  BY <1>9, <1>10, <1>11, <1>13, <1>15, <1>16, <1>17, <1>18 DEF PipesInv

LEMMA ShowStep ==
    ASSUME PipesInv, NEW p \in Processes, DoShow(p)
    PROVE  PipesInv'
<1>1. p = "parent" /\ pc[p] = 15
  BY ShowCalls DEF DoShow
<1>2. /\ pc' = [pc EXCEPT ![p] = @ + 1]
      /\ pc \in [Processes -> Int]
      /\ status[p] = "running"
      /\ printed' = [sorted |-> mem[p].sorted, median |-> mem[p].median]
      /\ UNCHANGED <<args, status, ends, mem, pipe, lost>>
  BY CallIs DEF DoShow, Advance, ShapeInv, PipesInv
<1>3. \A k \in Pipe : Wrote(k)' = Wrote(k)
  BY <1>1, <1>2 DEF Wrote, Writer, WriteAt, Processes, Pipe
<1>4. \A k \in Pipe : Asked(k)' = Asked(k)
  BY <1>1, <1>2 DEF Asked, Reader, ReadAt, Processes, Pipe
<1>5. Calls(p, "show") /\ Advance(p) /\ "show" # "close"
  BY DEF DoShow
<1>6. ShapeInv'
  BY <1>2, <1>5, AdvanceKeeps DEF PipesInv, ShapeInv
<1>7. BirthInv'
  BY <1>1, <1>2 DEF PipesInv, BirthInv, Unforked, Processes
<1>8. EndsInv'
  BY <1>2, <1>5, EndsKept DEF PipesInv
<1>9. ValuesInv'
  <2>1. HeldInv'
    BY <1>1, <1>2, <1>4 DEF PipesInv, ValuesInv, HeldInv, Meant, Processes, Pipe
  <2>2. CarriedInv'
    BY <1>2, <1>3 DEF PipesInv, ValuesInv, CarriedInv, Meant
  <2>3. QED
    BY <2>1, <2>2 DEF ValuesInv
<1>10. \A k \in Pipe : Delivered(k)' = Delivered(k)
  BY <1>2, <1>3, <1>4 DEF Delivered
<1>11. ListInv'
  BY <1>1, <1>2, <1>10 DEF PipesInv, ListInv, AtWorkUntil, Processes, Pipe
<1>12. MedianInv'
  BY <1>1, <1>2, <1>10 DEF PipesInv, MedianInv, AtWorkUntil, Processes, Pipe
<1>13. PrintedInv'
  <2>1. Asked(2) /\ Asked(4)
    BY <1>1 DEF Asked, Reader, ReadAt
  <2>2. p \notin lost
    BY <1>2 DEF PipesInv, BirthInv
  <2>3. mem[p].sorted = Sorted(args) \/ "child1" \in lost
    <3>1. SUFFICES ASSUME "child1" \notin lost
                   PROVE  mem[p].sorted = Sorted(args)
      OBVIOUS
    <3>2. Delivered(2)
      BY <1>1, <2>2, <3>1 DEF PipesInv, ListInv
    <3>3. mem[p].sorted # Junk
      BY <1>1, <2>1, <3>2 DEF Delivered, Reader, ReadInto
    <3>4. QED
      BY <1>1, <2>1, <3>3, MeantIs DEF PipesInv, ValuesInv, HeldInv, OrJunk
  <2>4. mem[p].median = Median(Sorted(args)) \/ lost # {}
    <3>1. SUFFICES ASSUME lost = {}
                   PROVE  mem[p].median = Median(Sorted(args))
      OBVIOUS
    <3>2. Delivered(4)
      BY <3>1 DEF PipesInv, MedianInv
    <3>3. mem[p].median # Junk
      BY <1>1, <2>1, <3>2 DEF Delivered, Reader, ReadInto
    <3>4. QED
      BY <1>1, <2>1, <3>3, MeantIs DEF PipesInv, ValuesInv, HeldInv, OrJunk
  <2>5. pc'["parent"] > 15
    BY <1>1, <1>2
  <2>6. QED
    BY <1>1, <1>2, <2>3, <2>4, <2>5 DEF PrintedInv, WrongOnlyByLoss
<1>14. ReapedInv'
  BY <1>1, <1>2 DEF PipesInv, ReapedInv, Finished, Processes
<1>15. QED
  BY <1>6, <1>7, <1>8, <1>9, <1>11, <1>12, <1>13, <1>14 DEF PipesInv

-----------------------------------------------------------------------------
(* The theorems                                                            *)

LEMMA InitInv == Init => PipesInv
<1> SUFFICES ASSUME Init
             PROVE  PipesInv
  OBVIOUS
<1>1. ShapeInv
  <2>1. Junk \in Lists \union Numbers /\ <<>> \in Seq(Lists \union Numbers)
    BY DEF Lists
  <2>2. /\ args \in Arguments
        /\ status \in [Processes -> {"unborn", "running", "zombie", "gone"}]
        /\ pc \in [Processes -> Int]
        /\ ends \in [Processes -> SUBSET Ends]
        /\ lost \subseteq Processes
    BY DEF Init, Processes
  <2>3. mem \in [Processes -> [Variables -> Lists \union Numbers]]
    BY <2>1 DEF Init
  <2>4. pipe \in [Pipe -> Seq(Lists \union Numbers)]
    BY <2>1 DEF Init
  <2>5. \A p \in Processes : 1 <= pc[p] /\ pc[p] <= LastCall[p] + 1
    BY DEF Init, Processes, LastCall
  <2>6. QED
    BY <2>2, <2>3, <2>4, <2>5 DEF ShapeInv
<1>2. BirthInv
  BY DEF Init, BirthInv, Unforked, Processes
<1>3. EndsInv
  <2>1. ASSUME NEW k \in Pipe
        PROVE  /\ <<k, "read">> \in Ends /\ <<k, "write">> \in Ends
               /\ 1 <= ReadEndClosed["parent"][k] /\ 1 <= WriteEndClosed["parent"][k]
    BY DEF Ends, ReadEndClosed, WriteEndClosed, Pipe
  <2>2. QED
    BY <2>1 DEF Init, EndsInv, Processes
<1>4. ValuesInv
  BY DEF Init, ValuesInv, HeldInv, CarriedInv, OrJunk, Asked, Reader, ReadAt, Processes, Variables, Pipe
<1>5. \A k \in Pipe : ~ Wrote(k) /\ ~ Asked(k)
  BY DEF Init, Wrote, Asked, Writer, WriteAt, Reader, ReadAt, Processes, Pipe
<1>6. \A k \in Pipe : Delivered(k)
  BY <1>5 DEF Delivered
<1>7. ListInv
  BY <1>6 DEF Init, ListInv, AtWorkUntil, Processes, Pipe
<1>8. MedianInv
  BY <1>6 DEF Init, MedianInv, AtWorkUntil, Processes, Pipe
<1>9. PrintedInv
  BY DEF Init, PrintedInv, WrongOnlyByLoss
<1>10. ReapedInv
  BY DEF Init, ReapedInv, Processes
<1>11. QED
  BY <1>1, <1>2, <1>3, <1>4, <1>7, <1>8, <1>9, <1>10 DEF PipesInv

LEMMA NextInv == PipesInv /\ [Next]_vars => PipesInv'
<1> SUFFICES ASSUME PipesInv, [Next]_vars
             PROVE  PipesInv'
  OBVIOUS
<1>1. CASE UNCHANGED vars
  <2>1. UNCHANGED <<args, status, pc, ends, mem, pipe, printed, lost>>
    BY <1>1 DEF vars
  <2>2. \A k \in Pipe : Wrote(k)' = Wrote(k) /\ Asked(k)' = Asked(k) /\ Delivered(k)' = Delivered(k)
    BY <2>1 DEF Wrote, Asked, Delivered
  <2>3. ShapeInv' /\ BirthInv' /\ EndsInv'
    BY <2>1 DEF PipesInv, ShapeInv, BirthInv, Unforked, EndsInv
  <2>4. HeldInv'
    BY <2>1, <2>2 DEF PipesInv, ValuesInv, HeldInv, Meant, Pipe
  <2>5. CarriedInv'
    BY <2>1, <2>2 DEF PipesInv, ValuesInv, CarriedInv, Meant
  <2>6. ListInv' /\ MedianInv'
    BY <2>1, <2>2 DEF PipesInv, ListInv, MedianInv, AtWorkUntil, Pipe
  <2>7. PrintedInv' /\ ReapedInv'
    BY <2>1 DEF PipesInv, PrintedInv, WrongOnlyByLoss, ReapedInv, Finished
  <2>8. QED
    BY <2>3, <2>4, <2>5, <2>6, <2>7 DEF PipesInv, ValuesInv
<1>2. ASSUME NEW p \in Processes, Step(p)
      PROVE  PipesInv'
  BY <1>2, ForkStep, ForkFailsStep, CloseStep, ReadStep, ReadNothingStep, WriteStep,
     WriteKillsStep, ComputeStep, ShowStep, WaitStep, ExitStep DEF Step
<1>3. ASSUME NEW p \in Processes, Kill(p)
      PROVE  PipesInv'
  BY <1>3, KillStep
<1>4. QED
  BY <1>1, <1>2, <1>3 DEF Next

\* The ends, the values and the processes still at work agree with how far the
\* code has come, in every state, whoever is lost: a child holds the ends it
\* has not closed, so each end of file and each SIGPIPE comes of the code.
THEOREM PipesInvAlways == Spec => []PipesInv
  BY InitInv, NextInv, PTL DEF Spec

\* Typed state: the processes within their code, lists of five on the first
\* three pipes, numbers on the last and never two values at once.
THEOREM TypeOKAlways == Spec => []TypeOK
<1>1. PipesInv => TypeOK
  <2> SUFFICES ASSUME PipesInv
               PROVE  TypeOK
    OBVIOUS
  <2>1. ShapeInv
    BY DEF PipesInv
  <2>2. /\ status \in [Processes -> {"unborn", "running", "zombie", "gone"}]
        /\ ends \in [Processes -> SUBSET Ends]
        /\ lost \subseteq Processes
    BY <2>1 DEF ShapeInv
  <2>3. \A p \in Processes : pc[p] \in 1 .. Len(Code[p]) + 1
    <3>1. ASSUME NEW p \in Processes
          PROVE  pc[p] \in 1 .. LastCall[p] + 1
      <4>1. pc[p] \in Int /\ 1 <= pc[p] /\ pc[p] <= LastCall[p] + 1
        BY <2>1 DEF ShapeInv
      <4>2. LastCall[p] \in Int
        BY DEF LastCall, Processes
      <4>3. QED
        BY <4>1, <4>2
    <3>2. QED
      BY <3>1, CodeEnds
  <2>4. /\ Sorted(args) \in Lists /\ args \in Lists /\ Junk \in Lists
        /\ Median(Sorted(args)) \in Numbers /\ Junk \in Numbers
    BY <2>1, MeantIs DEF Lists, Numbers, FiveNumbers
  <2>5. ASSUME NEW p \in Processes
        PROVE  {mem[p].nums, mem[p].sorted} \subseteq Lists /\ mem[p].median \in Numbers
    <3>1. HeldInv
      BY DEF PipesInv, ValuesInv
    <3>2. mem["parent"].median \in Numbers /\ mem["child1"].median \in Numbers
          /\ mem["child2"].median \in Numbers
      BY <2>1, <2>4, <3>1, MeantIs DEF HeldInv, OrJunk
    <3>3. /\ mem["parent"].nums \in Lists /\ mem["parent"].sorted \in Lists
          /\ mem["child1"].nums \in Lists /\ mem["child1"].sorted \in Lists
          /\ mem["child2"].nums \in Lists /\ mem["child2"].sorted \in Lists
      BY <2>1, <2>4, <3>1, MeantIs DEF HeldInv, OrJunk
    <3>4. QED
      BY <3>2, <3>3 DEF Processes
  <2>6. ASSUME NEW k \in Pipe
        PROVE  /\ Len(pipe[k]) <= 1
               /\ pipe[k] # <<>> => Head(pipe[k]) \in OrJunk(Meant(k))
    <3>1. CASE pipe[k] = <<>>
      BY <3>1
    <3>2. CASE pipe[k] # <<>>
      <4>1. PICK value \in OrJunk(Meant(k)) : pipe[k] = <<value>>
        BY <3>2 DEF PipesInv, ValuesInv, CarriedInv
      <4>2. QED
        BY <4>1
    <3>3. QED
      BY <3>1, <3>2
  <2>7. /\ \A k \in Pipe \ {4} : OrJunk(Meant(k)) \subseteq Lists
        /\ OrJunk(Meant(4)) \subseteq Numbers
    BY <2>1, <2>4, MeantIs DEF OrJunk, Pipe
  <2>8. 4 \in Pipe
    BY DEF Pipe
  <2>9. QED
    BY <2>2, <2>3, <2>5, <2>6, <2>7, <2>8 DEF TypeOK
<1>2. QED
  BY <1>1, PipesInvAlways, PTL

\* For any five numbers: what the parent prints is the sorted list unless child
\* 1 was lost, and the median unless somebody was.
THEOREM WrongOnlyByLossAlways == Spec => []WrongOnlyByLoss
<1>1. PipesInv => WrongOnlyByLoss
  BY DEF PipesInv, PrintedInv
<1>2. QED
  BY <1>1, PipesInvAlways, PTL

\* As long as nobody is lost, no read comes back empty and no write meets a
\* closed pipe, in any interleaving.
THEOREM CleanUnlessLossAlways == Spec => CleanUnlessLoss
<1>1. PipesInv => \A p \in Processes : ReadNothing(p) \/ WriteKills(p) => lost # {}
  BY ReadsInVain, WritesInVain DEF Missed
<1>2. QED
  BY <1>1, PipesInvAlways, PTL DEF CleanUnlessLoss

\* A parent that returns has waited for every child it had.
THEOREM ChildrenReapedAlways == Spec => ChildrenReaped
<1>1. ASSUME PipesInv, Exit("parent")
      PROVE  \A c \in Children : status[c] \in {"unborn", "gone"}
  <2>1. pc["parent"] > 17
    BY <1>1, CodeEnds DEF Exit, LastCall, Processes
  <2>2. pc["parent"] \in 1 .. 18
    BY <1>1, ShapeTyped DEF PipesInv
  <2>3. QED
    BY <1>1, <2>1, <2>2 DEF PipesInv, ReapedInv, Finished
<1>2. QED
  BY <1>1, PipesInvAlways, PTL DEF ChildrenReaped

-----------------------------------------------------------------------------
(* Nobody waits for ever                                                    *)

\* A process that is blocked has come to one of its reads, or to a wait.
LEMMA BlockedAt ==
    ASSUME PipesInv, NEW p \in Processes, Blocked(p)
    PROVE  /\ status[p] = "running"
           /\ \/ /\ p = "parent" /\ pc[p] \in {16, 17}
                 /\ \E child \in Children : status[child] = "running"
              \/ \E k \in Pipe : /\ p = Reader[k] /\ pc[p] = ReadAt[k]
                                /\ IsOpen(<<k, "write">>)
<1>1. CASE Calls(p, "read")
  <2>1. PICK k \in Pipe : p = Reader[k] /\ pc[p] = ReadAt[k] /\ Now(p).end = <<k, "read">>
    BY <1>1, ReadCalls
  <2>2. ~ Calls(p, "wait")
    BY <1>1 DEF Calls
  <2>3. IsOpen(<<k, "write">>)
    BY <2>1, <2>2 DEF Blocked
  <2>4. QED
    BY <1>1, <2>1, <2>3 DEF Calls
<1>2. CASE Calls(p, "wait") /\ ~ Calls(p, "read")
  <2>1. \E child \in Children : status[child] = "running"
    BY <1>2 DEF Blocked
  <2>2. QED
    BY <1>2, <2>1, WaitCalls DEF Calls
<1>3. QED
  BY <1>1, <1>2 DEF Blocked

\* Who may still write a pipe has not come to its close.
LEMMA OpenTo ==
    ASSUME PipesInv, NEW k \in Pipe, IsOpen(<<k, "write">>)
    PROVE  \E q \in Processes : status[q] = "running" /\ pc[q] <= WriteEndClosed[q][k]
<1>1. PICK q \in Processes : <<k, "write">> \in ends[q]
  BY DEF IsOpen
<1>2. QED
  BY <1>1 DEF PipesInv, EndsInv

\* A blocked process waits for one that has not come as far along the pipes:
\* child 1 for the parent, child 2 for child 1, the parent for either.  The
\* first of them to run is not blocked.
LEMMA SomebodyRuns == PipesInv => NobodyStuck
<1> SUFFICES ASSUME PipesInv, \A p \in Processes : status[p] = "running" => Blocked(p)
             PROVE  \A p \in Processes : status[p] # "running"
  BY DEF NobodyStuck
<1> DEFINE Runs(p) == status[p] = "running"
<1>1. /\ pc["parent"] \in 1 .. 18 /\ pc["child1"] \in 1 .. 13 /\ pc["child2"] \in 1 .. 12
      /\ "parent" \in Processes /\ "child1" \in Processes /\ "child2" \in Processes
  BY ShapeTyped DEF PipesInv, Processes
<1>2. Runs("child1") => pc["child1"] = 6 /\ IsOpen(<<1, "write">>)
  BY <1>1, BlockedAt DEF Reader, ReadAt, Pipe
<1>3. Runs("child2") => pc["child2"] = 7 /\ IsOpen(<<3, "write">>)
  BY <1>1, BlockedAt DEF Reader, ReadAt, Pipe
<1>4. Runs("parent") =>
         \/ pc["parent"] = 11 /\ IsOpen(<<2, "write">>)
         \/ pc["parent"] = 13 /\ IsOpen(<<4, "write">>)
         \/ pc["parent"] \in {16, 17} /\ \E child \in Children : Runs(child)
  BY <1>1, BlockedAt DEF Reader, ReadAt, Pipe
<1>5. \A k \in Pipe : IsOpen(<<k, "write">>) =>
         \/ Runs("parent") /\ pc["parent"] <= WriteEndClosed["parent"][k]
         \/ Runs("child1") /\ pc["child1"] <= WriteEndClosed["child1"][k]
         \/ Runs("child2") /\ pc["child2"] <= WriteEndClosed["child2"][k]
  BY OpenTo DEF Processes
<1>6. /\ 1 \in Pipe /\ 2 \in Pipe /\ 3 \in Pipe /\ 4 \in Pipe
      /\ WriteEndClosed["parent"] = <<10, 4, 6, 7>>
      /\ WriteEndClosed["child1"] = <<1, 10, 12, 5>>
      /\ WriteEndClosed["child2"] = <<2, 4, 5, 11>>
  BY DEF Pipe, WriteEndClosed
<1>7. ~ Runs("child1")
  BY <1>1, <1>2, <1>3, <1>4, <1>5, <1>6
<1>8. ~ Runs("child2")
  BY <1>1, <1>3, <1>4, <1>5, <1>6, <1>7
<1>9. ~ Runs("parent")
  BY <1>1, <1>4, <1>5, <1>6, <1>7, <1>8 DEF Children, Processes
<1>10. QED
  BY <1>7, <1>8, <1>9 DEF Processes

\* The three processes never all wait for one another: with any ends still to
\* be closed, any kills and any failed fork, one that runs can make its call.
THEOREM NobodyStuckAlways == Spec => []NobodyStuck
  BY SomebodyRuns, PipesInvAlways, PTL

\* The calls a process has left, its birth and its end among them.
CallsLeft(p) ==
    IF status[p] = "unborn" THEN LastCall[p] + 2
    ELSE IF status[p] = "running" THEN LastCall[p] + 2 - pc[p] ELSE 0
AllLeft == CallsLeft("parent") + CallsLeft("child1") + CallsLeft("child2")

LEMMA LeftCounts ==
    ASSUME PipesInv, NEW p \in Processes
    PROVE  /\ CallsLeft(p) \in 0 .. LastCall[p] + 2
           /\ status[p] = "running" => CallsLeft(p) > 0
<1>1. /\ LastCall[p] \in Nat
      /\ pc[p] \in Int /\ 1 <= pc[p] /\ pc[p] <= LastCall[p] + 1
  BY DEF PipesInv, ShapeInv, LastCall, Processes
<1>2. QED
  BY <1>1 DEF CallsLeft

LeftTyped == \A q \in Processes : CallsLeft(q) \in Int

LEMMA LeftAreInts == PipesInv => LeftTyped
  BY LeftCounts DEF LeftTyped, LastCall, Processes

\* A step of one process: it has fewer calls left, the others no more.
FewerLeft(p) ==
    /\ CallsLeft(p)' < CallsLeft(p)
    /\ \A q \in Processes \ {p} : CallsLeft(q)' <= CallsLeft(q)

LEMMA AdvanceTakesOne ==
    ASSUME PipesInv, NEW p \in Processes, NEW call, Calls(p, call), Advance(p),
           status'[p] = "running",
           \A q \in Processes \ {p} :
              status'[q] = status[q] \/ status[q] = "unborn" \/ status'[q] = "gone"
    PROVE  FewerLeft(p)
<1>1. /\ LastCall[p] \in Int
      /\ pc \in [Processes -> Int]
      /\ status[p] = "running"
  BY DEF PipesInv, ShapeInv, LastCall, Processes, Calls
<1>2. pc'[p] = pc[p] + 1 /\ \A q \in Processes \ {p} : pc'[q] = pc[q]
  BY <1>1 DEF Advance
<1>3. CallsLeft(p)' < CallsLeft(p)
  BY <1>1, <1>2 DEF CallsLeft
<1>4. ASSUME NEW q \in Processes \ {p}
      PROVE  CallsLeft(q)' <= CallsLeft(q)
  <2>1. /\ LastCall[q] \in Nat
        /\ pc[q] \in Int /\ 1 <= pc[q] /\ pc[q] <= LastCall[q] + 1
        /\ status[q] = "unborn" => pc[q] = 1
        /\ pc'[q] = pc[q]
    BY <1>2 DEF PipesInv, ShapeInv, BirthInv, LastCall, Processes
  <2>2. CASE status'[q] = status[q]
    BY <2>1, <2>2 DEF CallsLeft
  <2>3. CASE status[q] = "unborn"
    BY <2>1, <2>3 DEF CallsLeft
  <2>4. CASE status'[q] = "gone"
    BY <2>1, <2>4 DEF CallsLeft
  <2>5. QED
    BY <2>2, <2>3, <2>4
<1>5. QED
  BY <1>3, <1>4 DEF FewerLeft

LEMMA EndTakesAll ==
    ASSUME PipesInv, NEW p \in Processes, status[p] = "running", End(p), UNCHANGED pc
    PROVE  FewerLeft(p)
<1>1. /\ CallsLeft(p) > 0
      /\ \A q \in Processes : CallsLeft(q) \in Int
  BY LeftCounts DEF LastCall, Processes
<1>2. status'[p] = "zombie" /\ \A q \in Processes \ {p} : status'[q] = status[q]
  BY DEF PipesInv, ShapeInv, End
<1>3. CallsLeft(p)' = 0
  BY <1>2 DEF CallsLeft
<1>4. \A q \in Processes \ {p} : CallsLeft(q)' = CallsLeft(q)
  BY <1>2 DEF CallsLeft
<1>5. QED
  BY <1>1, <1>3, <1>4 DEF FewerLeft

LEMMA EachStepTakes ==
    ASSUME PipesInv, NEW p \in Processes, Step(p) \/ Kill(p)
    PROVE  FewerLeft(p)
<1>1. status \in [Processes -> {"unborn", "running", "zombie", "gone"}]
  BY DEF PipesInv, ShapeInv
<1>2. CASE DoFork(p)
  <2>1. PICK child \in Children :
           /\ status' = [status EXCEPT ![child] = "running"]
           /\ status[child] = "unborn" /\ p # child
    <3>1. status' = [status EXCEPT ![Now(p).child] = "running"] /\ Calls(p, "fork")
      BY <1>2 DEF DoFork
    <3>2. /\ p = "parent"
          /\ Now(p).child \in {"child1", "child2"}
          /\ \/ pc["parent"] <= 1 /\ Now(p).child = "child1"
             \/ pc["parent"] <= 2 /\ Now(p).child = "child2"
      BY <3>1, ForkCalls
    <3>3. status[Now(p).child] = "unborn"
      BY <3>2 DEF PipesInv, BirthInv, Unforked
    <3>4. QED
      BY <3>1, <3>2, <3>3 DEF Children, Processes
  <2>2. /\ status'[p] = "running"
        /\ \A q \in Processes \ {p} : status'[q] = status[q] \/ status[q] = "unborn"
    BY <1>1, <1>2, <2>1 DEF DoFork, Calls
  <2>3. QED
    BY <1>2, <2>2, AdvanceTakesOne DEF DoFork
<1>3. CASE DoWait(p)
  <2>1. /\ status'[p] = "running"
        /\ \A q \in Processes \ {p} : status'[q] = status[q] \/ status'[q] = "gone"
    BY <1>1, <1>3 DEF DoWait, Calls, Children
  <2>2. QED
    BY <1>3, <2>1, AdvanceTakesOne DEF DoWait
<1>4. CASE \/ ForkFails(p) \/ DoClose(p) \/ DoRead(p) \/ ReadNothing(p)
           \/ DoWrite(p) \/ Compute(p) \/ DoShow(p)
  <2>1. /\ Advance(p) /\ UNCHANGED status
        /\ \E call \in {"fork", "close", "read", "write", "set", "show"} : Calls(p, call)
    BY <1>4 DEF ForkFails, DoClose, DoRead, ReadNothing, DoWrite, Compute, DoShow
  <2>2. status'[p] = "running"
    BY <2>1 DEF Calls
  <2>3. QED
    BY <2>1, <2>2, AdvanceTakesOne
<1>5. CASE WriteKills(p) \/ Exit(p) \/ Kill(p)
  <2>1. status[p] = "running" /\ End(p) /\ UNCHANGED pc
    BY <1>5 DEF WriteKills, Exit, Kill, Calls
  <2>2. QED
    BY <2>1, EndTakesAll
<1>6. QED
  BY <1>2, <1>3, <1>4, <1>5 DEF Step

\* Every step of a process, and every kill, leaves fewer than the 45 calls,
\* births and ends there are at first: no process can run for ever.  With
\* NobodyStuckAlways this is what EveryoneEnds needs beside fairness.
THEOREM CallsRunOut == Spec => [](AllLeft \in 0 .. 45) /\ [][AllLeft' < AllLeft]_vars
<1>1. ASSUME PipesInv
      PROVE  /\ CallsLeft("parent") \in 0 .. 19
             /\ CallsLeft("child1") \in 0 .. 14
             /\ CallsLeft("child2") \in 0 .. 13
             /\ CallsLeft("parent") <= 18
  <2>1. status["parent"] # "unborn" /\ pc["parent"] \in 1 .. 18
    BY <1>1, ShapeTyped DEF PipesInv, BirthInv
  <2>2. CallsLeft("parent") <= 18
    BY <2>1 DEF CallsLeft, LastCall
  <2>3. QED
    BY <1>1, <2>2, LeftCounts DEF LastCall, Processes
<1>2. PipesInv => AllLeft \in 0 .. 45
  BY <1>1 DEF AllLeft
<1>3. PipesInv /\ PipesInv' /\ [Next]_vars => [AllLeft' < AllLeft]_vars
  <2>1. ASSUME PipesInv, PipesInv', NEW p \in Processes, Step(p) \/ Kill(p)
        PROVE  AllLeft' < AllLeft
    <3>1. \A q \in Processes : CallsLeft(q) \in Int
      BY <2>1, LeftAreInts DEF LeftTyped
    <3>2. \A q \in Processes : CallsLeft(q)' \in Int
      <4>1. (PipesInv => LeftTyped)'
        BY LeftAreInts, PTL
      <4>2. QED
        BY <2>1, <4>1 DEF LeftTyped
    <3>3. FewerLeft(p)
      BY <2>1, EachStepTakes
    <3>4. QED
      BY <3>1, <3>2, <3>3 DEF FewerLeft, AllLeft, Processes
  <2>2. QED
    BY <2>1 DEF Next
<1>4. QED
  BY <1>2, <1>3, PipesInvAlways, PTL DEF Spec

=============================================================================
