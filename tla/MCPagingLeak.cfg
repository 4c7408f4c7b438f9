\* Paging with init and two more pcb slots, two user pages in two page
\* tables, two kernel heap pages for clone_crt_page_dir, and 10 frames of
\* which 0, 1 (the kernel's first megabytes) and 9 (the kernel stack
\* frame) are in use at boot.
CONSTANTS
    Procs = {p1, p2, p3}
    InitProc = p1
    NumFrames = 10
    Reserved = {0, 1, 9}
    PageSize = 4096
    PtesPerTable = 2
    UserPages = {2, 4}
    KPages = {k1, k2}
    None = None
SPECIFICATION PagingSpec
INVARIANT FramesNotLeaked
CHECK_DEADLOCK FALSE
