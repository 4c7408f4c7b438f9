\* A thread preempted between TASK_DEAD and add_dead_task is never reclaimed.
CONSTANTS
    Threads <- MCThreads
    Main = "main"
    Clean = "clean"
    Procs = {}
    Priority = 2
SPECIFICATION ReaperSpec
INVARIANT DeadThreadQueuedForReclaim
