\* Two readers, one computing thread, two keystrokes into a two-slot
\* buffer: the ring buffer behaves as a FIFO, round robin still holds and
\* no blocked reader drops out of reach of the keyboard handler.
CONSTANTS
    Threads <- MCThreads
    Main = "main"
    Priority = 2
    Readers <- MCReaders
    BufSize = 2
    ScanCodes = {"a", "brk"}
    MakeCodes = {"a"}
    MaxKeys = 3
SPECIFICATION KeyboardSpec
INVARIANT NoLostReader
PROPERTIES
    KeyBufferIsFifo
    ReadyEventuallyRuns
