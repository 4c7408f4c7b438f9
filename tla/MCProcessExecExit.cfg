\* exec queues the new program before its caller leaves the threads table; the program's exit() then returns.
CONSTANTS
    Threads <- MCThreads
    Main = "main"
    Clean = "clean"
    InitThread = "u1"
    NoThread = "none"
    Priority = 2
    MaxPid = 2
    Procs = {1, 2}
    Codes = {7}
    WaitAny = FALSE
SPECIFICATION ProcSpec
INVARIANT ExitedProgramLeavesZombie
