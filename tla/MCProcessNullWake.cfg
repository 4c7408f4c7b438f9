\* wait(0) that finds a zombie at once leaves waiting_thread_node NULL; a later exit wakes NULL.
CONSTANTS
    Threads <- MCThreads
    Main = "main"
    Clean = "clean"
    InitThread = "u1"
    NoThread = "none"
    Priority = 2
    MaxPid = 3
    Procs = {1, 2, 3}
    Codes = {7}
    WaitAny = TRUE
SPECIFICATION ProcSpec
INVARIANT NoKernelPanic
