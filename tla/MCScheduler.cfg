\* Round robin under timer preemption: every queued thread gets the CPU.
CONSTANTS
    Threads <- MCThreads
    Main = "main"
    Priority = 3
SPECIFICATION SchedSpec
PROPERTY ReadyEventuallyRuns
