\* Kheap: a heap of two pages that may grow to six; headers and footers of
\* one unit; kmalloc of 1, 2 and 5 units, kmalloc_aligned of one and two
\* pages; up to four blocks held at once.
\* LinkedList: two lists, three nodes, two element pointers.
\* HashTable: four keys of which 0, 2 and 4 collide under 2 and 0 and 4
\* under 4 buckets, two values, two initial buckets (the code has 16).
\* Mutex: three kernel threads contend under timer preemption.
CONSTANTS
    HeaderSize = 1
    FooterSize = 1
    PageSize = 4
    HeapStart = 0
    HeapMinSize = 8
    HeapMax = 24
    IndexNum = 8
    Sizes = {1, 2, 5}
    AlignedSizes = {4, 8}
    MaxLive = 4
    Lists = {la, lb}
    Nodes = {n1, n2, n3}
    Ptrs = {p1, p2}
    Null = Null
    Keys = {0, 1, 2, 4}
    Vals = {v1, v2}
    NoVal = NoVal
    InitialBuckets = 2
    Threads <- MCThreads
    Main = "main"
    NoHolder = "nobody"
    Priority = 2
    Chars = {32, 97, 101}
    Space = 32
    MaxLine = 3
    ArrowLeft = 130
    ArrowRight = 131
    Width = 4
    Height = 2
    WordBits = 16
\* UnitTests: the code's own constants (16 buckets, six nodes).
\* Shell: the keys ' ', 'a' and 'e', lines of up to three characters, the
\* arrows as codes above 127, on a screen of four columns and two rows.
\* Process: see MCComponents.tla.
SPECIFICATION Spec
VIEW ComponentsView
INVARIANTS
    KheapWellFormed
    HolesCoalesced
    AllocationsTracked
    KheapAssertionsHold
    LinkedListWellFormed
    HashTableWellFormed
    HashTableIteratorVisitsAll
    NoLostWaiter
    UnitTestsPass
    ScreenShowsLine
    NumbersPrintedExactly
    ProcessTypeOK
    ReadyNoDuplicate
    NoUseAfterFree
    ReapedExitCode
    NoLostWakeup
    ExitSwitchHasSuccessor
    RemovedThreadRegistered
    BlockedWaiterReleasedLock
PROPERTIES
    LinkedListRefinesSeqLists
    HashTableRefinesKvMap
    MutexImplementsLock
    ShellRefinesLineEditor
