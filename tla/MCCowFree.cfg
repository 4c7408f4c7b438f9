\* The init process and two forks, a page of two words, four frames: an
\* exit while a sharer's copy-on-write fault is preempted.
CONSTANTS
    p1 = p1
    p2 = p2
    p3 = p3
    Procs <- MCProcs
    InitProc = p1
    NumFrames = 4
    Words = {w1, w2}
    Orig = orig
    NoFrame = noframe
SPECIFICATION CowSpec
INVARIANT NoFreedFrameMapped
