\* A locker preempted between schedule_mark_thread_block and yieldlock_unlock.
CONSTANTS
    Threads <- MCThreads
    Main = "main"
    NoHolder = "nobody"
    Priority = 2
SPECIFICATION MutexSpec
INVARIANT BlockedLockerReleasedYdlock
