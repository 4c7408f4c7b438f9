\* wait(0) leaves waiting_child_pid set: a later child's exit queues the parent twice.
CONSTANTS
    Threads <- MCThreads
    Main = "main"
    Clean = "clean"
    InitThread = "u1"
    NoThread = "none"
    Priority = 2
    MaxPid = 3
    Procs = {1, 2, 3}
    Codes = {7}
    WaitAny = TRUE
SPECIFICATION ProcSpec
INVARIANT ReadyNoDuplicate
