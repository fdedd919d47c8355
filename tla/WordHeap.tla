------------------------------ MODULE WordHeap ------------------------------
(***************************************************************************)
(* What MemoryManager promises to its client, with no list, no holes and   *)
(* no allocator code: a block of memory words, a set of disjoint live      *)
(* blocks carved out of it, and calls that are granted or refused.  An     *)
(* honest allocator (bestFit, worstFit) may refuse a request only when no  *)
(* run of free words is long enough; a client's own allocator may refuse   *)
(* whenever it likes.                                                      *)
(***************************************************************************)
EXTENDS Integers

VARIABLES
    capacity,   \* words in the mapped block, 0 when nothing is mapped
    blocks,     \* function: first word of a live block -> its length
    honest,     \* does the installed allocator refuse only when it must?
    pending     \* words requested by the call in progress, 0 when none

vars == <<capacity, blocks, honest, pending>>

BlockWords(s) == s .. s + blocks[s] - 1
FreeWords == (0 .. capacity - 1) \ UNION {BlockWords(s) : s \in DOMAIN blocks}
IsFreeRun(s, n) == s .. s + n - 1 \subseteq FreeWords

Init ==
    /\ capacity = 0
    /\ blocks = [s \in {} |-> 0]
    /\ honest \in BOOLEAN
    /\ pending = 0

\* initialize or shutdown: every block is gone, the capacity is whatever the
\* operating system granted.
Reset ==
    /\ pending = 0
    /\ capacity' \in Nat
    /\ blocks' = [s \in {} |-> 0]
    /\ UNCHANGED <<honest, pending>>

SetAllocator ==
    /\ pending = 0
    /\ honest' \in BOOLEAN
    /\ UNCHANGED <<capacity, blocks, pending>>

Request ==
    /\ pending = 0
    /\ capacity > 0
    /\ pending' \in Nat \ {0}
    /\ UNCHANGED <<capacity, blocks, honest>>

Grant ==
    /\ pending > 0
    /\ \E s \in 0 .. capacity - 1 :
          /\ IsFreeRun(s, pending)
          /\ blocks' = [t \in DOMAIN blocks \union {s} |->
                           IF t = s THEN pending ELSE blocks[t]]
    /\ pending' = 0
    /\ UNCHANGED <<capacity, honest>>

Refuse ==
    /\ pending > 0
    /\ honest => \A s \in 0 .. capacity - 1 : ~ IsFreeRun(s, pending)
    /\ pending' = 0
    /\ UNCHANGED <<capacity, blocks, honest>>

Free ==
    /\ pending = 0
    /\ \E s \in DOMAIN blocks :
          blocks' = [t \in DOMAIN blocks \ {s} |-> blocks[t]]
    /\ UNCHANGED <<capacity, honest, pending>>

Next ==
    \/ Reset
    \/ SetAllocator
    \/ Request
    \/ Grant
    \/ Refuse
    \/ Free

Spec == Init /\ [][Next]_vars
=============================================================================
