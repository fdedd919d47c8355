-------------------------------- MODULE Pipes ---------------------------------
(***************************************************************************)
(* Poche_part3.cpp of Exercise 7: a parent sends five numbers to child 1   *)
(* over pipe 1; child 1 sends them back sorted over pipe 2 and on to       *)
(* child 2 over pipe 3; child 2 sends their median to the parent over      *)
(* pipe 4.                                                                 *)
(*                                                                         *)
(* The code of each process is a sequence of system calls and              *)
(* computations; the actions are what the kernel makes of the call at pc.  *)
(* A fork hands the child a copy of every end the parent has open, so it   *)
(* depends on each close whether a read waits, or ends with nothing read   *)
(* and the variable as it was.  Any process may be killed at any point,    *)
(* and any fork may fail.                                                  *)
(***************************************************************************)
EXTENDS Integers, Sequences, FiniteSetsExt

CONSTANT Arguments      \* what the program may be started with: five numbers

ASSUME ArgumentsAssumption == Arguments \subseteq [1 .. 5 -> Int]

Processes == {"parent", "child1", "child2"}
Children == Processes \ {"parent"}
Pipe == 1 .. 4
Ends == Pipe \X {"read", "write"}

VARIABLES
    args,       \* the numbers on the command line
    status,     \* process -> unborn, running, zombie, or gone (waited for)
    pc,         \* process -> index in its Code of the next call
    ends,       \* process -> the pipe ends it has open
    mem,        \* process -> variable -> value
    pipe,       \* pipe -> what was written and not yet read
    printed,    \* what the parent printed, nothing at first
    lost        \* processes killed from outside, or never forked

vars == <<args, status, pc, ends, mem, pipe, printed, lost>>

-----------------------------------------------------------------------------
(* The code                                                                *)

Fork(child) == [call |-> "fork", child |-> child]
Close(k, side) == [call |-> "close", end |-> <<k, side>>]
Read(k, variable) == [call |-> "read", end |-> <<k, "read">>, variable |-> variable]
Write(k, variable) == [call |-> "write", end |-> <<k, "write">>, variable |-> variable]
Set(variable, by) == [call |-> "set", variable |-> variable, by |-> by]
Show == [call |-> "show"]
Wait == [call |-> "wait"]

\* The ends each process closes at once, because it does not use them.
Child1Closes == << Close(1, "write"), Close(2, "read"), Close(3, "read"),
                   Close(4, "read"), Close(4, "write") >>
Child2ClosesNotP1 == << Close(1, "read"), Close(2, "read"), Close(2, "write"),
                        Close(3, "write"), Close(4, "read") >>
Child2Closes == << Close(1, "read"), Close(1, "write"), Close(2, "read"),
                   Close(2, "write"), Close(3, "write"), Close(4, "read") >>
ParentCloses == << Close(1, "read"), Close(2, "write"), Close(3, "read"),
                   Close(3, "write"), Close(4, "write") >>

Child1SendsOnFirst == << Write(3, "nums"), Close(3, "write"),
                         Write(2, "nums"), Close(2, "write") >>
Child1Sends == << Write(2, "nums"), Close(2, "write"),
                  Write(3, "nums"), Close(3, "write") >>

Child1Code ==
    Child1Closes \o << Read(1, "nums"), Close(1, "read"), Set("nums", "sort") >> \o Child1Sends
Child2Code ==
    Child2Closes \o << Read(3, "nums"), Close(3, "read"), Set("median", "median"),
                       Write(4, "median"), Close(4, "write") >>

ForksClosingBetween == << Fork("child1") >> \o ParentCloses \o << Fork("child2") >>
Forks == << Fork("child1"), Fork("child2") >> \o ParentCloses

OneWait == << Wait >>
Waits == << Wait, Wait >>

ParentCode ==
    Forks \o << Set("nums", "parse"), Write(1, "nums"), Close(1, "write"),
                Read(2, "sorted"), Close(2, "read"), Read(4, "median"), Close(4, "read"),
                Show >> \o Waits

Code == [parent |-> ParentCode, child1 |-> Child1Code, child2 |-> Child2Code]

\* Values are sequences of numbers; Junk stands for what is in memory never
\* written to, and for what is computed from it.
Junk == <<>>
NothingPrinted == <<>>
Variables == {"nums", "sorted", "median"}

\* std::sort: the i-th number is the least that i of the numbers do not exceed.
AtMost(nums, v) == {i \in DOMAIN nums : nums[i] <= v}
Sorted(nums) ==
    [i \in DOMAIN nums |-> Min({v \in Range(nums) : Cardinality(AtMost(nums, v)) >= i})]
WholeList(nums) == nums
Median(nums) == <<nums[3]>>
Computed(p, by) ==
    CASE by = "parse" -> args
      [] by = "sort" -> Sorted(mem[p].nums)
      [] by = "median" -> IF mem[p].nums = Junk THEN Junk ELSE Median(mem[p].nums)

-----------------------------------------------------------------------------
(* The system calls                                                        *)

Init ==
    /\ args \in Arguments
    /\ status = [p \in Processes |-> IF p = "parent" THEN "running" ELSE "unborn"]
    /\ pc = [p \in Processes |-> 1]
    /\ ends = [p \in Processes |-> IF p = "parent" THEN Ends ELSE {}]
    /\ mem = [p \in Processes |-> [v \in Variables |-> Junk]]
    /\ pipe = [k \in Pipe |-> <<>>]
    /\ printed = NothingPrinted
    /\ lost = {}

Calls(p, call) ==
    /\ status[p] = "running"
    /\ pc[p] \in DOMAIN Code[p]
    /\ Code[p][pc[p]].call = call
Now(p) == Code[p][pc[p]]
Advance(p) == pc' = [pc EXCEPT ![p] = @ + 1]

IsOpen(end) == \E p \in Processes : end \in ends[p]

DoFork(p) ==
    /\ Calls(p, "fork")
    /\ LET child == Now(p).child
       IN  /\ status' = [status EXCEPT ![child] = "running"]
           /\ ends' = [ends EXCEPT ![child] = ends[p]]
           /\ mem' = [mem EXCEPT ![child] = mem[p]]
    /\ Advance(p)
    /\ UNCHANGED <<args, pipe, printed, lost>>

\* fork answers -1, which is not 0: the parent goes on alone.
ForkFails(p) ==
    /\ Calls(p, "fork")
    /\ lost' = lost \union {Now(p).child}
    /\ Advance(p)
    /\ UNCHANGED <<args, status, ends, mem, pipe, printed>>

DoClose(p) ==
    /\ Calls(p, "close")
    /\ ends' = [ends EXCEPT ![p] = @ \ {Now(p).end}]
    /\ Advance(p)
    /\ UNCHANGED <<args, status, mem, pipe, printed, lost>>

\* A write is short enough to be atomic, and a read asks for as many bytes as
\* the write gave.
DoRead(p) ==
    /\ Calls(p, "read")
    /\ LET k == Now(p).end[1]
       IN  /\ Now(p).end \in ends[p]
           /\ pipe[k] # <<>>
           /\ mem' = [mem EXCEPT ![p][Now(p).variable] = Head(pipe[k])]
           /\ pipe' = [pipe EXCEPT ![k] = Tail(@)]
    /\ Advance(p)
    /\ UNCHANGED <<args, status, ends, printed, lost>>

\* End of file, or a closed descriptor: the result is not looked at.
ReadNothing(p) ==
    /\ Calls(p, "read")
    /\ LET k == Now(p).end[1]
       IN  \/ Now(p).end \notin ends[p]
           \/ pipe[k] = <<>> /\ ~ IsOpen(<<k, "write">>)
    /\ Advance(p)
    /\ UNCHANGED <<args, status, ends, mem, pipe, printed, lost>>

DoWrite(p) ==
    /\ Calls(p, "write")
    /\ LET k == Now(p).end[1]
       IN  /\ IsOpen(<<k, "read">>)
           /\ pipe' = [pipe EXCEPT ![k] = Append(@, mem[p][Now(p).variable])]
    /\ Advance(p)
    /\ UNCHANGED <<args, status, ends, mem, printed, lost>>

\* A process that ends closes what it has open.
End(p) ==
    /\ status' = [status EXCEPT ![p] = "zombie"]
    /\ ends' = [ends EXCEPT ![p] = {}]

\* SIGPIPE: nobody is left to read what it writes.
WriteKills(p) ==
    /\ Calls(p, "write")
    /\ ~ IsOpen(<<Now(p).end[1], "read">>)
    /\ End(p)
    /\ UNCHANGED <<args, pc, mem, pipe, printed, lost>>

Compute(p) ==
    /\ Calls(p, "set")
    /\ mem' = [mem EXCEPT ![p][Now(p).variable] = Computed(p, Now(p).by)]
    /\ Advance(p)
    /\ UNCHANGED <<args, status, ends, pipe, printed, lost>>

DoShow(p) ==
    /\ Calls(p, "show")
    /\ printed' = [sorted |-> mem[p].sorted, median |-> mem[p].median]
    /\ Advance(p)
    /\ UNCHANGED <<args, status, ends, mem, pipe, lost>>

\* wait(NULL): a child that has ended, or an error when no child is left.
DoWait(p) ==
    /\ Calls(p, "wait")
    /\ \/ \E child \in Children :
             /\ status[child] = "zombie"
             /\ status' = [status EXCEPT ![child] = "gone"]
       \/ /\ \A child \in Children : status[child] \in {"unborn", "gone"}
          /\ UNCHANGED status
    /\ Advance(p)
    /\ UNCHANGED <<args, ends, mem, pipe, printed, lost>>

Exit(p) ==
    /\ status[p] = "running"
    /\ pc[p] > Len(Code[p])
    /\ End(p)
    /\ UNCHANGED <<args, pc, mem, pipe, printed, lost>>

\* A signal from outside.
Kill(p) ==
    /\ status[p] = "running"
    /\ lost' = lost \union {p}
    /\ End(p)
    /\ UNCHANGED <<args, pc, mem, pipe, printed>>

-----------------------------------------------------------------------------
Step(p) ==
    \/ DoFork(p) \/ ForkFails(p)
    \/ DoClose(p)
    \/ DoRead(p) \/ ReadNothing(p)
    \/ DoWrite(p) \/ WriteKills(p)
    \/ Compute(p) \/ DoShow(p)
    \/ DoWait(p) \/ Exit(p)

Next == \E p \in Processes : Step(p) \/ Kill(p)

Spec == Init /\ [][Next]_vars

\* The kernel runs every process that is not blocked.
FairSpec == Spec /\ \A p \in Processes : WF_vars(Step(p))
-----------------------------------------------------------------------------
(* What must hold                                                          *)

Lists == [1 .. 5 -> Int] \union {Junk}
Numbers == [1 .. 1 -> Int] \union {Junk}

\* Types of the processes' state and of what travels over each pipe: lists of
\* five over the first three, single numbers over the last.
TypeOK ==
    /\ status \in [Processes -> {"unborn", "running", "zombie", "gone"}]
    /\ \A p \in Processes : pc[p] \in 1 .. Len(Code[p]) + 1
    /\ ends \in [Processes -> SUBSET Ends]
    /\ \A p \in Processes : {mem[p].nums, mem[p].sorted} \subseteq Lists /\ mem[p].median \in Numbers
    /\ \A k \in Pipe : Len(pipe[k]) <= 1
    /\ \A k \in Pipe \ {4} : pipe[k] # <<>> => Head(pipe[k]) \in Lists
    /\ pipe[4] # <<>> => Head(pipe[4]) \in Numbers
    /\ lost \subseteq Processes

\* What is printed is wrong only where a process it comes from was lost: the
\* list only with child 1, so that the end of child 2, and the SIGPIPE child 1
\* may get of it, never spoils the list.
WrongOnlyByLoss ==
    printed # NothingPrinted =>
       /\ printed.sorted = Sorted(args) \/ "child1" \in lost
       /\ printed.median = Median(Sorted(args)) \/ lost # {}

\* A process whose partners are all there reaches the end of its code: no read
\* comes back empty and no write meets a closed pipe before somebody is lost.
CleanUnlessLoss ==
    [][\A p \in Processes : ReadNothing(p) \/ WriteKills(p) => lost # {}]_vars

\* A parent that returns leaves no child behind, neither running nor a zombie.
ChildrenReaped ==
    [][Exit("parent") => \A c \in Children : status[c] \in {"unborn", "gone"}]_vars

\* A process the kernel does not run: it reads an empty pipe that somebody may
\* still write, or waits for children none of which has ended.
Blocked(p) ==
    \/ /\ Calls(p, "read")
       /\ Now(p).end \in ends[p]
       /\ pipe[Now(p).end[1]] = <<>> /\ IsOpen(<<Now(p).end[1], "write">>)
    \/ /\ Calls(p, "wait")
       /\ \A child \in Children : status[child] # "zombie"
       /\ \E child \in Children : status[child] = "running"

\* While processes run, one of them can: they never all wait for one another,
\* whoever was killed or not born and whatever ends the others still hold.
NobodyStuck ==
    (\E p \in Processes : status[p] = "running") =>
       \E p \in Processes : status[p] = "running" /\ ~ Blocked(p)

\* Every process ends, whoever is killed and whenever: none keeps open, itself
\* or in a process that waits for it, the other end of a pipe it reads.
EveryoneEnds ==
    \A p \in Processes : status[p] = "running" ~> status[p] # "running"
=============================================================================
