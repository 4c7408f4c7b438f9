--------------------------- MODULE MCComponents ---------------------------
(***************************************************************************)
(* The kernel heap, the linked list, the hash table, the mutex, the       *)
(* replay of the list and table unit tests, the  *)
(* shell on the console, kernel printing and fork/exec/wait/exit, checked *)
(* in one run.  They share no variables, so the model is their     *)
(* disjoint sum: a behaviour picks one component at the start (which) and  *)
(* takes only that component's steps, the others staying in their initial *)
(* state.                                                                  *)
(* Each component thus meets exactly the behaviours of its own             *)
(* specification, and the state counts add up instead of multiplying.     *)
(***************************************************************************)
EXTENDS Naturals

CONSTANTS
    HeaderSize, FooterSize, PageSize, HeapStart, HeapMinSize, HeapMax,
    IndexNum, Sizes, AlignedSizes, MaxLive,          \* Kheap
    Lists, Nodes, Ptrs, Null,                        \* LinkedList
    Keys, Vals, NoVal, InitialBuckets,               \* HashTable
    Threads, Main, Priority, NoHolder,               \* Mutex
    Chars, Space, MaxLine, ArrowLeft, ArrowRight,    \* Shell
    Width, Height, WordBits                          \* Monitor

VARIABLES
    which,
    mem, index, endAddr, live, assertOK,
    lhead, ltail, lsize, nprev, nnext, nptr,
    buckets, bucketsNum, htSize, alive, ret,
    crt, ready, status, ticks, needResched, intr, resumeIntr,
    pc, hold, ydlock, waitQ,
    tlhead, tltail, tlsize, tnprev, tnnext, tnptr, llpc, llOK,
    tbuckets, tbucketsNum, thtSize, talive, tret, htpc,
    iter, iterTotal, iterKey, htOK,
    cmdBuffer, cmdEndIndex, lineCursorIndex, programGet, program, args, shellDone,
    cursorX, cursorY, video,
    conX, conY, conVideo, conPrinted, conCalls,
    prCrt, prReady, prStatus, prTicks, prNeedResched, prIntr, prResumeIntr,
    prPc, prDeadLock, prCvQueue, prDeadTasks, prDeadProcs, prRecvTasks,
    prRecvProcs, prDestroyed, prDestroyedProcs,
    prPstatus, prParent, prPthreads, prChildren, prExitChildren, prWaitingChild,
    prWaitingThread, prExitCode, prPlock, prTproc, prArg, prChild, prResult,
    prExitArg, prPanic

K == INSTANCE Kheap
L == INSTANCE LinkedList
H == INSTANCE HashTable
M == INSTANCE Mutex
T == INSTANCE UnitTests

MCThreads == {"main", "k1", "k2", "k3"}

\* "exit" and "clear" stand for the two lines the shell compares with;
\* here they are the one-letter lines "e" and "a".  The prompt is "$", a
\* program run from the shell prints nothing or "b".
ShellExit == <<101>>
ShellClear == <<97>>
ShellPrompt == <<36>>
ShellChildOutputs == {<<>>, <<98>>}

S == INSTANCE Terminal WITH ExitLine <- ShellExit, ClearLine <- ShellClear,
                            Prompt <- ShellPrompt, ChildOutputs <- ShellChildOutputs

\* Console: kernel callers print up to three times on a screen of four
\* columns and three rows, so that a numeral of six characters may wrap
\* and scroll and still be on the screen; numbers at the boundaries of a
\* 16-bit word.
ConDec == {0, 7, 0 - 1, 0 - 10, 32767, 0 - 32768}
ConHex == {0, 10, 255, 4096, 65535}
ConTexts == {<<97>>, <<10>>, <<9>>}

Con == INSTANCE Console WITH
        Width <- 4, Height <- 3, DecSamples <- ConDec, HexSamples <- ConHex,
        Texts <- ConTexts, MaxCalls <- 3,
        cursorX <- conX, cursorY <- conY, video <- conVideo,
        printed <- conPrinted, calls <- conCalls

\* Process: as in MCProcessPid.cfg, the init process forks one child, which
\* execs a program that exits; main, clean and four user threads.
ProcThreads == {"main", "clean", "u1", "u2", "u3", "u4"}

Pr == INSTANCE Process WITH
        Threads <- ProcThreads, Main <- "main", Clean <- "clean",
        InitThread <- "u1", NoThread <- "none", Procs <- 1..2, MaxPid <- 2,
        Codes <- {7}, WaitAny <- FALSE,
        crt <- prCrt, ready <- prReady, status <- prStatus, ticks <- prTicks,
        needResched <- prNeedResched, intr <- prIntr, resumeIntr <- prResumeIntr,
        pc <- prPc, deadLock <- prDeadLock, cvQueue <- prCvQueue,
        deadTasks <- prDeadTasks, deadProcs <- prDeadProcs,
        recvTasks <- prRecvTasks, recvProcs <- prRecvProcs,
        destroyed <- prDestroyed, destroyedProcs <- prDestroyedProcs,
        pstatus <- prPstatus, parent <- prParent, pthreads <- prPthreads,
        children <- prChildren, exitChildren <- prExitChildren,
        waitingChild <- prWaitingChild, waitingThread <- prWaitingThread,
        exitCode <- prExitCode, plock <- prPlock, tproc <- prTproc, arg <- prArg,
        child <- prChild, result <- prResult, exitArg <- prExitArg, panic <- prPanic

kheapVars == <<mem, index, endAddr, live, assertOK>>
llVars == <<lhead, ltail, lsize, nprev, nnext, nptr>>
htVars == <<buckets, bucketsNum, htSize, alive, ret>>
mutexAll == <<crt, ready, status, ticks, needResched, intr, resumeIntr,
              pc, hold, ydlock, waitQ>>
testsAll == <<tlhead, tltail, tlsize, tnprev, tnnext, tnptr, llpc, llOK,
              tbuckets, tbucketsNum, thtSize, talive, tret, htpc,
              iter, iterTotal, iterKey, htOK>>
shellAll == <<cmdBuffer, cmdEndIndex, lineCursorIndex, programGet, program,
              args, shellDone, cursorX, cursorY, video>>
conAll == <<conX, conY, conVideo, conPrinted, conCalls>>
procAll == <<prCrt, prReady, prStatus, prTicks, prNeedResched, prIntr, prResumeIntr,
             prPc, prDeadLock, prCvQueue, prDeadTasks, prDeadProcs, prRecvTasks,
             prRecvProcs, prDestroyed, prDestroyedProcs,
             prPstatus, prParent, prPthreads, prChildren, prExitChildren, prWaitingChild,
             prWaitingThread, prExitCode, prPlock, prTproc, prArg, prChild, prResult,
             prExitArg, prPanic>>

Components == {"kheap", "list", "table", "mutex", "tests", "shell", "process", "console"}

Init ==
    /\ which \in Components
    /\ K!KheapInit /\ L!LinkedListSystemInit /\ H!HashTableSystemInit
    /\ M!MutexInit /\ T!UnitTestsInit /\ S!TermInit /\ Pr!ProcInit /\ Con!ConsoleInit

Next ==
    \/ which = "kheap" /\ K!KheapNext /\ UNCHANGED <<which, llVars, htVars, mutexAll, testsAll, shellAll, procAll, conAll>>
    \/ which = "list" /\ L!LinkedListNext /\ UNCHANGED <<which, kheapVars, htVars, mutexAll, testsAll, shellAll, procAll, conAll>>
    \/ which = "table" /\ H!HashTableNext /\ UNCHANGED <<which, kheapVars, llVars, mutexAll, testsAll, shellAll, procAll, conAll>>
    \/ which = "mutex" /\ M!MutexNext /\ UNCHANGED <<which, kheapVars, llVars, htVars, testsAll, shellAll, procAll, conAll>>
    \/ which = "tests" /\ T!UnitTestsNext /\ UNCHANGED <<which, kheapVars, llVars, htVars, mutexAll, shellAll, procAll, conAll>>
    \/ which = "shell" /\ S!TermNext /\ UNCHANGED <<which, kheapVars, llVars, htVars, mutexAll, testsAll, procAll, conAll>>
    \/ which = "process" /\ Pr!ProcNext /\ UNCHANGED <<which, kheapVars, llVars, htVars, mutexAll, testsAll, shellAll, conAll>>
    \/ which = "console" /\ Con!ConsoleNext /\ UNCHANGED <<which, kheapVars, llVars, htVars, mutexAll, testsAll, shellAll, procAll>>

Spec == Init /\ [][Next]_<<which, kheapVars, llVars, htVars, mutexAll, testsAll, shellAll, procAll, conAll>>

\* States that differ only in the components a behaviour does not use are
\* the same state; the heap is seen through KheapView.
ComponentsView ==
    CASE which = "kheap" -> <<which, K!KheapView>>
      [] which = "list"  -> <<which, llVars>>
      [] which = "table" -> <<which, htVars>>
      [] which = "mutex" -> <<which, mutexAll>>
      [] which = "tests" -> <<which, testsAll>>
      [] which = "shell" -> <<which, shellAll>>
      [] which = "process" -> <<which, procAll>>
      [] OTHER           -> <<which, conAll>>

KheapWellFormed == K!KheapWellFormed
HolesCoalesced == K!HolesCoalesced
AllocationsTracked == K!AllocationsTracked
KheapAssertionsHold == K!KheapAssertionsHold
LinkedListWellFormed == L!LinkedListWellFormed
LinkedListRefinesSeqLists == L!LinkedListRefinesSeqLists
HashTableWellFormed == H!HashTableWellFormed
HashTableIteratorVisitsAll == H!HashTableIteratorVisitsAll
HashTableRefinesKvMap == H!HashTableRefinesKvMap
NoLostWaiter == M!NoLostWaiter
MutexImplementsLock == M!MutexImplementsLock
UnitTestsPass == T!UnitTestsPass
ShellRefinesLineEditor == S!ShellRefinesLineEditor
ScreenShowsLine == S!ScreenShowsLine
NumbersPrintedExactly == Con!NumbersPrintedExactly
\* Process, as in MCProcessPid.cfg.
ProcessTypeOK == Pr!ProcessTypeOK
ReadyNoDuplicate == Pr!ReadyNoDuplicate
NoUseAfterFree == Pr!NoUseAfterFree
ReapedExitCode == Pr!ReapedExitCode
NoLostWakeup == Pr!NoLostWakeup
ExitSwitchHasSuccessor == Pr!ExitSwitchHasSuccessor
RemovedThreadRegistered == Pr!RemovedThreadRegistered
BlockedWaiterReleasedLock == Pr!BlockedWaiterReleasedLock
=============================================================================
