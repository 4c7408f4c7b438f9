\* A dying thread preempted inside add_dead_task keeps dead_resource_lock.
CONSTANTS
    Threads <- MCThreads
    Main = "main"
    Clean = "clean"
    Procs = {}
    Priority = 2
SPECIFICATION ReaperSpec
INVARIANT DeadLockNotOrphaned
