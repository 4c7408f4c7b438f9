\* wait(pid) on an already reaped child passes the children_processes check.
CONSTANTS
    Threads <- MCThreads
    Main = "main"
    Clean = "clean"
    InitThread = "u1"
    NoThread = "none"
    Priority = 2
    MaxPid = 2
    Procs = {1, 2}
    Codes = {7}
    WaitAny = FALSE
SPECIFICATION ProcSpec
INVARIANT WaitTargetLiveOrZombie
