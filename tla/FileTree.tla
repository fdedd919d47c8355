------------------------------ MODULE FileTree ------------------------------
(***************************************************************************)
(* What the Wad library promises to a caller who only knows paths: a tree  *)
(* of directories and files that grows and never shrinks, whose files are  *)
(* written once.  There are no descriptors, no indices, no file on disk    *)
(* and no reload: closing the WAD and loading it again is a stuttering     *)
(* step.                                                                   *)
(*                                                                         *)
(* A path is a sequence of names; a name is a record whose field mark is   *)
(* "map" exactly when it has the form E#M# of a map marker.                *)
(***************************************************************************)
EXTENDS Integers, Sequences

VARIABLE fs    \* path -> [isDir, bytes]

Parent(path) == SubSeq(path, 1, Len(path) - 1)
Directory == [isDir |-> TRUE, bytes |-> <<>>]
EmptyFile == [isDir |-> FALSE, bytes |-> <<>>]

IsTree(f) ==
    /\ <<>> \in DOMAIN f
    /\ \A p \in DOMAIN f \ {<<>>} : Parent(p) \in DOMAIN f /\ f[Parent(p)].isDir
    /\ \A p \in DOMAIN f : f[p].isDir => f[p].bytes = <<>>

Init == IsTree(fs)

\* A new entry appears in an existing directory that is not a map; nothing
\* else changes.
Create(entry) ==
    \E p \in DOMAIN fs' \ DOMAIN fs :
       LET parent == Parent(p)
       IN  /\ parent \in DOMAIN fs /\ fs[parent].isDir
           /\ parent # <<>> => parent[Len(parent)].mark # "map"
           /\ fs' = [q \in DOMAIN fs \union {p} |-> IF q = p THEN entry ELSE fs[q]]

\* An empty file gets its content, for good.
WriteOnce ==
    \E p \in DOMAIN fs :
       /\ ~ fs[p].isDir /\ fs[p].bytes = <<>>
       /\ fs'[p].bytes # <<>>
       /\ fs' = [fs EXCEPT ![p].bytes = fs'[p].bytes]

Next == Create(Directory) \/ Create(EmptyFile) \/ WriteOnce

Spec == Init /\ [][Next]_fs
=============================================================================
