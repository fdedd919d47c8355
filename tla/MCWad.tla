------------------------------- MODULE MCWad --------------------------------
\* Small instances of Wad for TLC.
EXTENDS Wad

\* An element of a WAD file: a name and the bytes of its lump.
Element(name, bytes) == [name |-> name, bytes |-> bytes]

\* The file that holds the elements' lumps one after the other from cell 1,
\* and then their descriptors.
DiskOf(elements) ==
    LET after[i \in 0 .. Len(elements)] ==
            IF i = 0 THEN 1 ELSE after[i - 1] + Len(elements[i].bytes)
        list == after[Len(elements)]
        end == list + Len(elements) * DescSize
        descOf(i) == Descriptor(elements[i].name,
                                IF elements[i].bytes = <<>> THEN 0 ELSE after[i - 1],
                                Len(elements[i].bytes))
        cellAt(c) ==
            IF c >= list
            THEN Part(descOf(((c - list) \div DescSize) + 1), (c - list) % DescSize)
            ELSE LET i == CHOOSE j \in DOMAIN elements : after[j - 1] <= c /\ c < after[j]
                 IN  Byte(elements[i].bytes[c - after[i - 1] + 1])
    IN  [num |-> Len(elements), off |-> list, cells |-> [c \in 1 .. end - 1 |-> cellAt(c)]]

Gl == Plain("Gl")
Ad == Plain("ad")
Txt == Plain("mp.txt")
E1M0 == Marked("map", "E1M0")

\* The shape of sample1.wad: a map, nested directories around a file, a file.
Sample == DiskOf(<< Element(E1M0, <<>>), Element(Txt, <<"s">>), Element(Plain("02.txt"), <<>>),
                    Element(StartName(Gl), <<>>), Element(StartName(Ad), <<>>),
                    Element(Plain("cake.jpg"), <<"s", "t">>),
                    Element(EndName(Ad), <<>>), Element(EndName(Gl), <<>>) >>)
Empty == DiskOf(<<>>)

\* Paths to what is there, to what is not, and to what may not be created.
SamplePaths == { <<Gl>>, <<Gl, Ad>>, <<Gl, Txt>>, <<Gl, Ad, Txt>>, <<Txt>>, <<Txt, Ad>>,
                 <<E1M0, Plain("02.txt")>>, <<E1M0, Ad>>,
                 <<E1M0>>, <<Plain("too_long_name")>>, <<StartName(Ad)>> }

\* Paths in a file that starts out empty.
EmptyPaths == { <<Ad>>, <<Txt>>, <<Ad, Ad>>, <<Ad, Txt>>, <<E1M0>>,
                <<Plain("too_long_name")>>, <<StartName(Ad)>> }

SampleDisks == {Sample}
EmptyDisks == {Empty}
OneBuffer == { <<"a", "b">> }

\* What stray bytes are taken for: the end of a directory, and a file whose
\* extent is anywhere.
Strays == { Descriptor(EndName(Ad), 0, 0), Descriptor(Txt, 1, 2) }

\* The files and paths of the runs are what a reload needs.
ASSUME WellMade == WholeDisks /\ BalancedDisks /\ DirectoriesNamed
=============================================================================
