-------------------------- MODULE CommandLineTests ---------------------------
(***************************************************************************)
(* CommandLineTest.cpp: the test program of the memory manager.  A test    *)
(* constructs a manager, makes calls and compares what the manager reports *)
(* with what the test expects; here the manager is MemoryManager.tla, with *)
(* the word sizes and the block sizes of the tests.  A step of a test is a *)
(* call, which runs to its return, or a check, which must succeed.         *)
(*                                                                         *)
(* TLC's integers have 32 bits: int, unsigned and size_t have 30 here, more*)
(* than any number of these tests needs.                                   *)
(***************************************************************************)
EXTENDS Integers, Sequences, FiniteSets, FiniteSetsExt, SequencesExt

VARIABLES
    mapped, totalWords, list, allocator, file, live, pc,
    caller, bytes, words, holeInfo, cur, best, bestLen,
    test,             \* index of the running test
    at,               \* index of its next step
    testArrays,       \* what allocate returned, in order; -1 is nullptr
    wordOffsetIndex   \* the static variable of hopesAndDreamsAllocator

manager == <<mapped, totalWords, list, allocator, file, live, pc,
             caller, bytes, words, holeInfo, cur, best, bestLen>>
testVars == <<manager, test, at, testArrays, wordOffsetIndex>>

\* The manager with words of a given size.  The tests make the calls, so the
\* sets a client of the manager chooses from are of no interest.
M(size) == INSTANCE MemoryManager WITH
    WordSize <- size, Sizes <- {}, Requests <- {}, Addresses <- {},
    Allocators <- {"bestFit", "worstFit", "custom"},
    DevZero <- {"opened"}, Grants <- {TRUE}, DumpOutcomes <- {"written"},
    U16 <- 65536, U32 <- 2^30, SizeT <- 2^30

-----------------------------------------------------------------------------
(* The steps of tests                                                      *)

Step(does, with) == [does |-> does, with |-> with]
Allocate(size, counts) == [i \in DOMAIN counts |-> Step("allocate", size * counts[i])]
Free(numbers) == [i \in DOMAIN numbers |-> Step("free", numbers[i])]
SetAllocator(a) == << Step("setAllocator", a) >>
Shutdown == << Step("shutdown", 0) >>
Initialize(size) == << Step("initialize", size) >>
Dump(holes) == << Step("dump", 0), Step("dumped", holes) >>
State(bitmap, holes) == << Step("bitmap", bitmap), Step("list", holes) >>
Null(numbers) == [i \in DOMAIN numbers |-> Step("null", numbers[i])]
Granted(numbers) == [i \in DOMAIN numbers |-> Step("granted", numbers[i])]

Calls == {"allocate", "free", "setAllocator", "shutdown", "initialize", "dump"}

\* A test constructs its manager and initializes it.
Test(wordSize, numberOfWords, fit, steps) ==
    [wordSize |-> wordSize, allocator |-> fit,
     steps |-> Initialize(numberOfWords) \o steps]

-----------------------------------------------------------------------------
(* The tests                                                               *)

MemoryLeaksNoShutdown == Test(8, 100, "bestFit",
    Allocate(4, <<10, 10, 10, 10, 10>>) \o Free(<<2, 4, 5, 1, 3>>))

SimpleFirstFit == Test(8, 26, "bestFit",
    Allocate(8, <<10, 2, 2, 6>>) \o Free(<<1, 3>>)
    \o State(<<\h00, \hCC, \h0F, \h00>>, <<0, 10, 12, 2, 20, 6>>)
    \o Dump(<<0, 10, 12, 2, 20, 6>>) \o Shutdown)

SimpleBestFit == Test(8, 96, "worstFit",
    Allocate(4, <<4, 4, 10, 4, 4, 10>>) \o Free(<<3, 5>>)
    \o SetAllocator("bestFit") \o Allocate(4, <<4>>)
    \o State(<<\h0F, \hFE, \h03, 0, 0, 0, 0, 0, 0, 0, 0, 0>>, <<4, 5, 18, 78>>)
    \o Dump(<<4, 5, 18, 78>>) \o Shutdown)

\* The bitmaps of the complex test: bytes 2 to 7 change, the others do not.
Complex(b2, b4, b5, b7) == <<\hFF, b2, \hFF, b4, b5, \hFF, b7, \h0F, 0, 0, 0, 0>>
ComplexBestFit == Test(4, 96, "worstFit",
    Allocate(4, <<10, 4, 10, 3, 10, 2, 10, 1, 10>>)
    \o State(Complex(\hFF, \hFF, \hFF, \hFF), <<60, 36>>)
    \o Free(<<2, 4, 6, 8>>)
    \o State(Complex(\hC3, \hF8, \h9F, \hFD), <<10, 4, 24, 3, 37, 2, 49, 1, 60, 36>>)
    \o SetAllocator("bestFit") \o Allocate(4, <<1>>)
    \o State(Complex(\hC3, \hF8, \h9F, \hFF), <<10, 4, 24, 3, 37, 2, 60, 36>>)
    \o Allocate(4, <<2>>)
    \o State(Complex(\hC3, \hF8, \hFF, \hFF), <<10, 4, 24, 3, 60, 36>>)
    \o Allocate(4, <<3>>)
    \o State(Complex(\hC3, \hFF, \hFF, \hFF), <<10, 4, 60, 36>>)
    \o Allocate(4, <<4>>)
    \o State(Complex(\hFF, \hFF, \hFF, \hFF), <<60, 36>>)
    \o Dump(<<60, 36>>) \o Shutdown)

NewAllocator == Test(8, 88, "worstFit",
    Allocate(8, <<10, 13, 10, 8, 10, 4, 10>>) \o Free(<<2, 4, 6>>)
    \o SetAllocator("custom") \o Allocate(8, <<4>>)
    \o State(<<\hFF, \h03, \h80, \hFF, \h01, \hFE, \h87, \hFF, \h1F, 0, 0>>,
             <<10, 13, 33, 8, 51, 4, 69, 19>>)
    \o Allocate(8, <<4>>)
    \o State(<<\hFF, \h3F, \h80, \hFF, \h01, \hFE, \h87, \hFF, \h1F, 0, 0>>,
             <<14, 9, 33, 8, 51, 4, 69, 19>>)
    \o Allocate(8, <<4>>)
    \o State(<<\hFF, \h3F, \h80, \hFF, \h1F, \hFE, \h87, \hFF, \h1F, 0, 0>>,
             <<14, 9, 37, 4, 51, 4, 69, 19>>)
    \o Dump(<<14, 9, 37, 4, 51, 4, 69, 19>>) \o Shutdown)

InvalidAllocate == Test(2, 20, "worstFit", Allocate(2, <<20, 1>>) \o Null(<<2>>))

RepeatedShutdown == Test(2, 10, "worstFit",
    Allocate(2, <<1, 2, 1, 2, 1>>) \o Free(<<1>>) \o Shutdown
    \o Initialize(20) \o Allocate(2, <<1, 2, 1, 2, 1>>) \o Free(<<7, 8>>)
    \o State(<<\h71, 0, 0>>, <<1, 3, 7, 13>>) \o Dump(<<1, 3, 7, 13>>) \o Shutdown)

MaxInitialization == Test(8, 65535, "worstFit",
    Allocate(8, <<32768, 32767>>) \o Granted(<<1, 2>>))

Getters == Test(8, 26, "bestFit",
    Allocate(8, <<10, 2, 2, 6>>) \o Free(<<1, 3>>)
    \o << Step("memoryLimit", 8 * 26) >> \o Shutdown)

\* The arrays are filled one after the other and read as one.
ReadingUsingGetMemoryStart == Test(8, 80, "worstFit",
    Allocate(8, <<5, 5, 5, 5, 5>>) \o << Step("endToEnd", 8 * 5) >> \o Shutdown)

Tests == << MemoryLeaksNoShutdown, SimpleFirstFit, SimpleBestFit, ComplexBestFit, NewAllocator,
            InvalidAllocate, RepeatedShutdown, MaxInitialization, Getters,
            ReadingUsingGetMemoryStart >>

-----------------------------------------------------------------------------
(* Running them, in the order of main                                      *)

WordSize == Tests[test].wordSize
Steps == Tests[test].steps
With == Steps[at].with
Next(does) == pc = "idle" /\ at \in DOMAIN Steps /\ Steps[at].does = does
Advanced == at' = at + 1 /\ UNCHANGED <<test, testArrays, wordOffsetIndex>>

TestInit ==
    /\ M(Tests[1].wordSize)!Init
    /\ allocator = Tests[1].allocator
    /\ test = 1
    /\ at = 1
    /\ testArrays = <<>>
    /\ wordOffsetIndex = 2

\* Steps that call the manager.  (w is the word size, a constant to SANY.)
MakeCall ==
    /\ \E w \in {WordSize} :
          \/ Next("initialize") /\ M(w)!Initialize(With, "opened", TRUE)
          \/ Next("shutdown") /\ M(w)!Shutdown
          \/ Next("setAllocator") /\ M(w)!SetAllocator(With)
          \/ Next("allocate") /\ M(w)!Allocate(With)
          \/ Next("free") /\ M(w)!Free(testArrays[With])
          \/ Next("dump") /\ M(w)!Dump
    /\ Advanced

\* The k-th best of the holes that fit, by length and then by address, where k
\* goes round from the largest: largestWordOffsets holds three of them.
Fitting == {i \in DOMAIN holeInfo : holeInfo[i].length >= words}
Larger(i) == {j \in Fitting : \/ holeInfo[j].length > holeInfo[i].length
                              \/ holeInfo[j].length = holeInfo[i].length /\ j < i}
HopesAndDreamsAllocator ==
    /\ LET ranked == {i \in Fitting : Cardinality(Larger(i)) = 2 - wordOffsetIndex}
       IN  best' = IF ranked = {} THEN -1 ELSE holeInfo[CHOOSE i \in ranked : TRUE].offset
    /\ wordOffsetIndex' = IF wordOffsetIndex = 0 THEN 2 ELSE wordOffsetIndex - 1

\* The steps of the call in progress: the test sees the array it returns.
Proceed ==
    /\ \E w \in {WordSize} :
          \/ M(w)!GetListStep
          \/ M(w)!GetListReturn
          \/ M(w)!FitStep
          \/ M(w)!MergeStep
          \/ M(w)!FreeReturn
          \/ M(w)!DumpWrite
    /\ UNCHANGED <<test, at, testArrays, wordOffsetIndex>>
AskAllocator ==
    /\ \E w \in {WordSize} : M(w)!CustomFit
    /\ HopesAndDreamsAllocator
    /\ UNCHANGED <<test, at, testArrays>>
ReturnArray ==
    /\ \E w \in {WordSize} :
          \/ M(w)!Place /\ testArrays' = Append(testArrays, M(w)!Address(best))
          \/ M(w)!ReturnNull /\ testArrays' = Append(testArrays, -1)
    /\ UNCHANGED <<test, at, wordOffsetIndex>>

\* What the tests compare.
ByteOf(bits, n) == MapThenSumSet(LAMBDA b : 2^b, {b \in 0 .. 7 : <<2 + n, b>> \in bits})
BitmapIs(correctBitmap) ==
    \A map \in {M(WordSize)!GetBitmap} :
       /\ map.byteCount = Len(correctBitmap)
       /\ \A n \in DOMAIN correctBitmap : ByteOf(map.bits, n - 1) = correctBitmap[n]
Flat(holes) == FlattenSeq([i \in DOMAIN holes |-> <<holes[i].offset, holes[i].length>>])
ListIs(correctList) == Flat(SelectSeq(list, LAMBDA node : node.isHole)) = correctList
DumpedIs(correctList) == file.result = "success" /\ Flat(file.holes) = correctList

CheckSucceeds(check) ==
    CASE check.does = "bitmap" -> BitmapIs(check.with)
      [] check.does = "list" -> ListIs(check.with)
      [] check.does = "dumped" -> DumpedIs(check.with)
      [] check.does = "null" -> testArrays[check.with] = -1
      [] check.does = "granted" -> testArrays[check.with] # -1
      [] check.does = "memoryLimit" -> \A w \in {WordSize} : M(w)!GetMemoryLimit = check.with
      [] check.does = "endToEnd" -> \A i \in DOMAIN testArrays : testArrays[i] = (i - 1) * check.with

Checking == pc = "idle" /\ at \in DOMAIN Steps /\ Steps[at].does \notin Calls
Check ==
    /\ Checking
    /\ Advanced
    /\ UNCHANGED manager

\* The next test constructs a new manager; the old one is destroyed.
NextTest ==
    /\ pc = "idle" /\ at > Len(Steps)
    /\ test < Len(Tests)
    /\ test' = test + 1
    /\ at' = 1
    /\ testArrays' = <<>>
    /\ mapped' = FALSE /\ totalWords' = 0 /\ list' = <<>>
    /\ allocator' = Tests[test + 1].allocator
    /\ live' = M(WordSize)!NoBlocks
    /\ UNCHANGED <<file, pc, caller, bytes, words, holeInfo, cur, best, bestLen, wordOffsetIndex>>

TestNext == MakeCall \/ Proceed \/ AskAllocator \/ ReturnArray \/ Check \/ NextTest
TestsDone == test = Len(Tests) /\ at > Len(Steps) /\ pc = "idle"

\* Whatever a test compares with the manager, it finds as it expects.
TestsPass == Checking => CheckSucceeds(Steps[at])
=============================================================================
