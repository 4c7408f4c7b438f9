\* The init process forks a child, which execs a program that exits, and waits for it by pid.
CONSTANTS
    Threads <- MCThreads
    Main = "main"
    Clean = "clean"
    InitThread = "u1"
    NoThread = "none"
    Priority = 2
    MaxPid = 2
    Procs = {1, 2}
    Codes = {7}
    WaitAny = FALSE
SPECIFICATION ProcSpec
INVARIANTS
    ProcessTypeOK
    ReadyNoDuplicate
    NoUseAfterFree
    ReapedExitCode
    NoLostWakeup
    ExitSwitchHasSuccessor
    RemovedThreadRegistered
    BlockedWaiterReleasedLock
