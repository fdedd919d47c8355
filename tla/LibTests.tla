------------------------------ MODULE LibTests ------------------------------
(***************************************************************************)
(* libtest.cpp: the tests of libWad, on a copy of sample1.wad.  A step of  *)
(* a test is a call that changes the WAD, which runs to its return, or a   *)
(* check of what the library answers, which must succeed.  The library is  *)
(* Wad.tla with maps of 10 elements, as in the code, and descriptors of 2  *)
(* cells for 16 bytes.                                                     *)
(*                                                                         *)
(* sample1.wad is here as the tests know it; the picture, of 29869 bytes,  *)
(* has CakeSize of them.  getMagic is not followed: the magic stays.       *)
(***************************************************************************)
EXTENDS Integers, Sequences

VARIABLES
    disk, num, off, descriptors, tree, wadPc, written, creation, lag, astray,
    libTest,     \* index of the running test
    libAt,       \* index of its next step
    answer       \* what the last writeToFile returned

wad == <<disk, num, off, descriptors, tree, wadPc, written, creation, lag, astray>>
libVars == <<wad, libTest, libAt, answer>>

\* Nothing is torn here, and nothing misread.
Blank == [name |-> [mark |-> "none", base |-> ""], offset |-> 0, length |-> 0]

W == INSTANCE Wad WITH
    MapElements <- 10, DescSize <- 2,
    InitialDisks <- {}, Paths <- {}, Buffers <- {}, WriteOffsets <- {},
    ShortBases <- {"", "ad", "os", "ex", "am", "Ex"},
    LongBases <- {"example.txt"},
    ShortWrites <- FALSE, Misread <- {Blank}, MaxAstray <- 0, CrashPoints <- {"idle"},
    MaxDescriptors <- 100, MaxOffset <- 2000

-----------------------------------------------------------------------------
(* sample1.wad                                                             *)

CakeSize == 40
MapName(base) == base \in {"E1M0", "E1M1"}
Name(base) == IF MapName(base) THEN W!Marked("map", base) ELSE W!Plain(base)

\* A text of n bytes, told from other texts by its title.
Text(title, n) == [i \in 1 .. n |-> <<title, i>>]

MapTexts == << "01.txt", "02.txt", "03.txt", "04.txt", "05.txt",
               "06.txt", "07.txt", "08.txt", "09.txt", "10.txt" >>
MapSizes == << 17, 12, 12, 12, 12, 12, 19, 19, 10, 13 >>

\* Its elements in order: a name and the bytes of its lump.
Element(name, lump) == << name, lump >>
Elements ==
    << Element(Name("E1M0"), <<>>) >>
    \o [i \in 1 .. 10 |-> Element(Name(MapTexts[i]), Text(MapTexts[i], MapSizes[i]))]
    \o << Element(W!StartName(Name("Gl")), <<>>), Element(W!StartName(Name("ad")), <<>>),
          Element(W!StartName(Name("os")), <<>>),
          Element(Name("cake.jpg"), Text("cake.jpg", CakeSize)),
          Element(W!EndName(Name("os")), <<>>), Element(W!EndName(Name("ad")), <<>>),
          Element(W!EndName(Name("Gl")), <<>>), Element(Name("mp.txt"), Text("mp.txt", 398)) >>

\* The lumps one after the other from cell 1, and the descriptors after them.
LumpStart[i \in 1 .. Len(Elements) + 1] ==
    IF i = 1 THEN 1 ELSE LumpStart[i - 1] + Len(Elements[i - 1][2])
SampleWad ==
    LET list == LumpStart[Len(Elements) + 1]
        description(i) == W!Descriptor(Elements[i][1], LumpStart[i], Len(Elements[i][2]))
        cell(c) ==
            IF c >= list THEN W!Part(description((c - list) \div 2 + 1), (c - list) % 2)
            ELSE LET i == CHOOSE j \in DOMAIN Elements : LumpStart[j] <= c /\ c < LumpStart[j + 1]
                 IN  W!Byte(Elements[i][2][c - LumpStart[i] + 1])
    IN  [num |-> Len(Elements), off |-> list,
         cells |-> [c \in 1 .. list + 2 * Len(Elements) - 1 |-> cell(c)]]

-----------------------------------------------------------------------------
(* The steps of tests                                                      *)

\* A path, by its names; an empty last one is a trailing slash.
Path(bases) == [i \in DOMAIN bases |-> Name(bases[i])]
LibStep(does, bases, with) == << [does |-> does, path |-> Path(bases), with |-> with] >>

CreateDir(bases) == LibStep("createDirectory", bases, 0)
CreateFl(bases) == LibStep("createFile", bases, 0)
Write(bases, text, ret) == LibStep("writeToFile", bases, text) \o LibStep("returned", bases, ret)
Reload == LibStep("delete", <<>>, 0) \o LibStep("loadWad", <<>>, 0)

IsDir(bases) == LibStep("isDirectory", bases, TRUE)
NotDir(bases) == LibStep("isDirectory", bases, FALSE)
IsFile(bases) == LibStep("isContent", bases, TRUE)
NotFile(bases) == LibStep("isContent", bases, FALSE)
OnlyDir(bases) == IsDir(bases) \o NotFile(bases)
OnlyFile(bases) == IsFile(bases) \o NotDir(bases)
Nowhere(bases) == NotDir(bases) \o NotFile(bases)
Size(bases, size) == LibStep("getSize", bases, size)
Lists(bases, names) ==
    LibStep("getDirectory", bases, [ret |-> Len(names), names |-> Path(names)])
ListsNothing(bases) == LibStep("getDirectory", bases, [ret |-> -1, names |-> <<>>])
Reads(bases, length, offset, ret, read) ==
    LibStep("getContents", bases, [length |-> length, offset |-> offset,
                                   answer |-> [ret |-> ret, bytes |-> read]])
Holds(bases, text) == Size(bases, Len(text)) \o Reads(bases, Len(text), 0, Len(text), text)

Changes == {"createDirectory", "createFile", "writeToFile", "delete", "loadWad"}

-----------------------------------------------------------------------------
(* LibReadTests                                                            *)

Empty == << "" >>
Cake == << "Gl", "ad", "os", "cake.jpg" >>

isContent ==
    IsFile(<<"E1M0", "01.txt">>) \o IsFile(<<"E1M0", "05.txt">>) \o IsFile(Cake)
    \o IsFile(<<"mp.txt">>)
    \o NotFile(<<"E1M0">>) \o NotFile(<<"Gl", "ad">>) \o NotFile(<<"Gl", "ad", "os">>)
    \o NotFile(<<>>)
    \o NotFile(<<"Fake", "">>) \o NotFile(<<"notreal", "">>) \o NotFile(<<"NotAFile">>)
    \o NotFile(<<"fake.jpg">>) \o NotFile(<<"not", "a", "real", "file", "text.txt">>)
    \o NotFile(<<"file.mp3">>) \o NotFile(Empty)

isDirectory ==
    IsDir(<<"E1M0">>) \o IsDir(<<"Gl", "ad">>) \o IsDir(<<"Gl", "ad", "os">>) \o IsDir(<<>>)
    \o NotDir(<<"E1M0", "01.txt">>) \o NotDir(<<"E1M0", "05.txt">>) \o NotDir(Cake)
    \o NotDir(<<"mp.txt">>)
    \o NotDir(<<"Fa", "">>) \o NotDir(<<"Dr", "">>) \o NotDir(<<"NotAFile">>)
    \o NotDir(<<"fake.jpg">>) \o NotDir(<<"no", "t", "ar", "ea", "l", "di", "r", "text.txt">>)
    \o NotDir(<<"file.mp3">>) \o NotDir(Empty)

getSize ==
    Size(<<"E1M0", "01.txt">>, 17) \o Size(<<"E1M0", "05.txt">>, 12)
    \o Size(<<"E1M0", "09.txt">>, 10) \o Size(<<"E1M0", "10.txt">>, 13)
    \o Size(Cake, CakeSize) \o Size(<<"mp.txt">>, 398)
    \o Size(<<"E1M0">>, -1) \o Size(<<"Gl", "ad", "">>, -1) \o Size(<<"Gl", "ad">>, -1)
    \o Size(<<"Gl", "ad", "os", "">>, -1)
    \o Size(<<"E1M1">>, -1) \o Size(<<"Ex", "">>, -1) \o Size(<<"Fi", "le">>, -1)
    \o Size(<<"file.jpg">>, -1) \o Size(Empty, -1)

getContentsTest1 == Holds(<<"E1M0", "01.txt">>, Text("01.txt", 17))
getContentsTest2 == Reads(<<"mp.txt">>, 17, 117, 17, SubSeq(Text("mp.txt", 398), 118, 134))
getContentsTest3 ==
    Reads(<<"E1M0", "03.txt">>, 1000, 7, 5, SubSeq(Text("03.txt", 12), 8, 12))
getContentsTest4 == Reads(<<"E1M0", "03.txt">>, 5, 1000, 0, <<>>)
getContentsTest5 == Reads(<<"ba", "dfile">>, 5, 0, -1, <<>>)
getContentsTest6 == Reads(<<"Gl", "">>, 5, 0, -1, <<>>)
getContentsTest7 == Reads(Empty, 5, 0, -1, <<>>)
getContentsTest8 == Holds(Cake, Text("cake.jpg", CakeSize))

getDirectoryTest1 == Lists(<<"E1M0", "">>, MapTexts)
getDirectoryTest2 == Lists(<<"Gl", "ad">>, <<"os">>)
getDirectoryTest3 == Lists(<<>>, <<"E1M0", "Gl", "mp.txt">>)
getDirectoryTest4 == ListsNothing(<<"no", "t", "re", "al">>)
getDirectoryTest5 == ListsNothing(<<"mp.txt">>)
getDirectoryTest6 == ListsNothing(Empty)

-----------------------------------------------------------------------------
(* LibWriteTests                                                           *)

\* Most tests repeat their checks on a WAD loaded anew.
BeforeAndAfterReload(checks) == checks \o Reload \o checks

createDirectoryTest1 == CreateDir(<<"ex", "">>)
    \o BeforeAndAfterReload(OnlyDir(<<"ex", "">>) \o Lists(<<"ex", "">>, <<>>)
                            \o Lists(<<>>, <<"E1M0", "Gl", "mp.txt", "ex">>))

createDirectoryTest2 == CreateDir(<<"Gl", "ex">>)
    \o BeforeAndAfterReload(OnlyDir(<<"Gl", "ex">>) \o Lists(<<"Gl", "ex">>, <<>>)
                            \o Lists(<<"Gl">>, <<"ad", "ex">>))

createDirectoryTest3 ==
    CreateDir(<<"ex", "">>) \o OnlyDir(<<"ex", "">>) \o Lists(<<"ex", "">>, <<>>)
    \o Lists(<<>>, <<"E1M0", "Gl", "mp.txt", "ex">>)
    \o CreateDir(<<"ex", "am", "">>)
    \o OnlyDir(<<"ex", "am", "">>)
    \o Lists(<<"ex", "">>, <<"am">>) \o Lists(<<"ex", "am", "">>, <<>>)
    \o Reload
    \o OnlyDir(<<"ex", "">>) \o OnlyDir(<<"ex", "am", "">>)
    \o Lists(<<"ex", "">>, <<"am">>) \o Lists(<<"ex", "am", "">>, <<>>)

createDirectoryTest4 == CreateDir(<<"Gl", "exam", "">>)
    \o BeforeAndAfterReload(Nowhere(<<"Gl", "exam", "">>) \o ListsNothing(<<"Gl", "exam", "">>)
                            \o Lists(<<"Gl">>, <<"ad">>))

createDirectoryTest5 == CreateDir(<<"Ex", "am", "">>)
    \o Nowhere(<<"Ex", "am", "">>) \o Nowhere(<<"Ex", "">>)
    \o Lists(<<>>, <<"E1M0", "Gl", "mp.txt">>)

createDirectoryTest6 == CreateDir(<<"E1M1", "">>)
    \o Nowhere(<<"E1M1", "">>) \o Lists(<<>>, <<"E1M0", "Gl", "mp.txt">>)

createDirectoryTest7 == CreateDir(<<"E1M0", "E1M1", "">>)
    \o Nowhere(<<"E1M0", "E1M1", "">>) \o Lists(<<"E1M0", "">>, MapTexts)

createFileTest1 == CreateFl(<<"file.txt">>)
    \o BeforeAndAfterReload(OnlyFile(<<"file.txt">>)
                            \o Lists(<<>>, <<"E1M0", "Gl", "mp.txt", "file.txt">>))

createFileTest2 == CreateFl(<<"Gl", "ad", "example">>)
    \o BeforeAndAfterReload(OnlyFile(<<"Gl", "ad", "example">>)
                            \o Lists(<<"Gl", "ad", "">>, <<"os", "example">>))

createFileTest3 == CreateFl(<<"Gl", "ad", "example.txt">>)
    \o Nowhere(<<"Gl", "ad", "example.txt">>) \o Lists(<<"Gl", "ad", "">>, <<"os">>)

createFileTest4 == CreateFl(<<"Gl", "ex", "example.txt">>)
    \o Nowhere(<<"Gl", "ex", "example.txt">>) \o Nowhere(<<"Gl", "ex">>)

createFileTest5 == CreateFl(<<"E1M0", "file.txt">>)
    \o Nowhere(<<"E1M0", "file.txt">>) \o Lists(<<"E1M0", "">>, MapTexts)

createFileTest6 == CreateFl(<<"E1M1">>)
    \o Nowhere(<<"E1M1">>) \o Lists(<<>>, <<"E1M0", "Gl", "mp.txt">>)

Hello == Text("Hello", 57)
writeToFileTest1 ==
    CreateFl(<<"file.txt">>) \o OnlyFile(<<"file.txt">>)
    \o Lists(<<>>, <<"E1M0", "Gl", "mp.txt", "file.txt">>)
    \o Write(<<"file.txt">>, Hello, 57) \o Holds(<<"file.txt">>, Hello)
    \o Reload \o Holds(<<"file.txt">>, Hello)
    \o Write(<<"file.txt">>, Hello, 0) \o Holds(<<"file.txt">>, Hello)

writeToFileTest2 == Write(<<"E1M0", "01.txt">>, Text("Example", 13), 0)
writeToFileTest3 == Write(<<"E1M0", "">>, Text("Example", 13), -1)

-----------------------------------------------------------------------------
(* LibFunctionalityTests                                                   *)

Long == Text("Long", 170)
bigTest ==
    CreateDir(<<"Ex">>) \o IsDir(<<"Ex">>) \o Lists(<<>>, <<"E1M0", "Gl", "mp.txt", "Ex">>)
    \o CreateDir(<<"Ex", "ad", "">>) \o IsDir(<<"Ex", "ad", "">>) \o Lists(<<"Ex">>, <<"ad">>)
    \o CreateFl(<<"Ex", "ad", "test.txt">>) \o IsFile(<<"Ex", "ad", "test.txt">>)
    \o Lists(<<"Ex", "ad", "">>, <<"test.txt">>)
    \o Write(<<"Ex", "ad", "test.txt">>, Long, 170) \o Holds(<<"Ex", "ad", "test.txt">>, Long)
    \o CreateDir(<<"Ex", "ad", "os">>) \o IsDir(<<"Ex", "ad", "os">>)
    \o Lists(<<"Ex", "ad">>, <<"test.txt", "os">>)
    \o CreateFl(<<"Ex", "ad", "os", "test.txt">>) \o IsFile(<<"Ex", "ad", "os", "test.txt">>)
    \o Lists(<<"Ex", "ad", "os">>, <<"test.txt">>)
    \o Write(<<"Ex", "ad", "os", "test.txt">>, Long, 170)
    \o Holds(<<"Ex", "ad", "os", "test.txt">>, Long)
    \o Reload
    \o Lists(<<"Ex", "">>, <<"ad">>) \o IsDir(<<"Ex", "">>) \o IsDir(<<"Ex", "ad">>)
    \o NotFile(<<"Ex", "test.txt">>)
    \o Lists(<<"Ex", "ad">>, <<"test.txt", "os">>)
    \o Lists(<<"Ex", "ad", "os">>, <<"test.txt">>)
    \o IsFile(<<"Ex", "ad", "test.txt">>) \o Holds(<<"Ex", "ad", "test.txt">>, Long)
    \o IsFile(<<"Ex", "ad", "os", "test.txt">>) \o Holds(<<"Ex", "ad", "os", "test.txt">>, Long)

LibTestsInOrder ==
    << isContent, isDirectory, getSize,
       getContentsTest1, getContentsTest2, getContentsTest3, getContentsTest4,
       getContentsTest5, getContentsTest6, getContentsTest7, getContentsTest8,
       getDirectoryTest1, getDirectoryTest2, getDirectoryTest3, getDirectoryTest4,
       getDirectoryTest5, getDirectoryTest6,
       createDirectoryTest1, createDirectoryTest2, createDirectoryTest3,
       createDirectoryTest4, createDirectoryTest5, createDirectoryTest6,
       createDirectoryTest7,
       createFileTest1, createFileTest2, createFileTest3, createFileTest4,
       createFileTest5, createFileTest6,
       writeToFileTest1, writeToFileTest2, writeToFileTest3, bigTest >>

-----------------------------------------------------------------------------
(* Running them                                                            *)

\* A test sets up its copy of the sample and loads it.
LibSteps == LibStep("loadWad", <<>>, 0) \o LibTestsInOrder[libTest]
LibNext(does) == libAt \in DOMAIN LibSteps /\ LibSteps[libAt].does = does
ThePath == LibSteps[libAt].path

LibInit ==
    /\ disk = SampleWad
    /\ num = 0 /\ off = 0 /\ descriptors = <<>> /\ tree = <<>>
    /\ wadPc = "down" /\ written = 0 /\ creation = W!NoCreation
    /\ lag = 0 /\ astray = 0
    /\ libTest = 1
    /\ libAt = 1
    /\ answer = 0

CallLibrary ==
    /\ \/ /\ LibNext("loadWad")
          /\ W!LoadWad
       \/ /\ LibNext("delete")
          /\ W!GoDown
       \/ /\ LibNext("createDirectory") /\ wadPc = "idle"
          /\ W!CreateDirectory(ThePath) \/ (W!DirectoryRefused(ThePath) /\ UNCHANGED wad)
       \/ /\ LibNext("createFile") /\ wadPc = "idle"
          /\ W!CreateFile(ThePath) \/ (W!FileRefused(ThePath) /\ UNCHANGED wad)
    /\ libAt' = libAt + 1
    /\ UNCHANGED <<libTest, answer>>

WriteThroughLibrary ==
    /\ LibNext("writeToFile")
    /\ \/ W!WriteToFile(ThePath, LibSteps[libAt].with, 0) /\ answer' = off' - off
       \/ W!RefuseWrite(ThePath) /\ answer' = W!RefusalAnswer(W!FindNode(ThePath))
    /\ libAt' = libAt + 1
    /\ UNCHANGED libTest

ProceedInLibrary ==
    /\ W!WriteNum \/ W!WriteOff \/ W!WriteDescriptor \/ W!CallReturn
    /\ UNCHANGED <<libTest, libAt, answer>>

LibCheckSucceeds(check) ==
    CASE check.does = "isDirectory" -> W!IsDirectory(check.path) = check.with
      [] check.does = "isContent" -> W!IsContent(check.path) = check.with
      [] check.does = "getSize" -> W!GetSize(check.path) = check.with
      [] check.does = "getDirectory" -> W!GetDirectory(check.path) = check.with
      [] check.does = "getContents" ->
            W!ReadAnswer(check.path, check.with.length, check.with.offset) = check.with.answer
      [] check.does = "returned" -> answer = check.with

LibChecking == wadPc = "idle" /\ libAt \in DOMAIN LibSteps /\ LibSteps[libAt].does \notin Changes
LibCheck ==
    /\ LibChecking
    /\ libAt' = libAt + 1
    /\ UNCHANGED <<wad, libTest, answer>>

\* The test deletes its WAD; the next one copies the sample anew.
NextLibTest ==
    /\ wadPc = "idle" /\ libAt > Len(LibSteps)
    /\ libTest < Len(LibTestsInOrder)
    /\ disk' = SampleWad
    /\ wadPc' = "down"
    /\ W!Forget
    /\ libTest' = libTest + 1
    /\ libAt' = 1
    /\ UNCHANGED <<astray, answer>>

LibTestNext == CallLibrary \/ WriteThroughLibrary \/ ProceedInLibrary \/ LibCheck \/ NextLibTest
LibTestsDone == libTest = Len(LibTestsInOrder) /\ libAt > Len(LibSteps) /\ wadPc = "idle"

\* Whatever a test asks the library, it is answered as it expects.
LibTestsPass == LibChecking => LibCheckSucceeds(LibSteps[libAt])
=============================================================================
