-------------------------- MODULE RepositoryTests ---------------------------
(***************************************************************************)
(* The two test programs of the repository, run one after the other: that  *)
(* of the memory manager and that of libWad, each on its specification.    *)
(* A program that is stuck before its end is a deadlock.                   *)
(***************************************************************************)
EXTENDS CommandLineTests, LibTests

allVars == <<testVars, libVars>>

RunsInit == TestInit /\ LibInit

RunCommandLineTest == TestNext /\ UNCHANGED libVars
RunLibtest == TestsDone /\ LibTestNext /\ UNCHANGED testVars
Run == RunCommandLineTest \/ RunLibtest

\* The programs have ended, which is no deadlock.
AllDone == TestsDone /\ LibTestsDone
End == AllDone /\ UNCHANGED allVars

\* A program is one thread that waits for nobody.
RunsSpec == RunsInit /\ [][Run \/ End]_allVars /\ WF_allVars(Run)

-----------------------------------------------------------------------------
\* Every test comes to its end: each of its calls returns, whatever the
\* allocator, and none is a call its library has no behaviour for.
TestsEnd == <>AllDone
=============================================================================
