\* Two creators; words of two bits; the pool starts with one word and may
\* grow to two (thread.c: 2048 growing by 2048 to 32768).  The |= of
\* bitmap_set_bit is taken as one instruction: the free is lost even so,
\* in the window of bitmap_expand.  With SplitRmw = TRUE it is also lost
\* between the load and the store of |=.
CONSTANTS
    Creators = {c1, c2}
    WordBits = 2
    InitSize = 2
    MaxSize = 4
    SplitRmw = FALSE
    NoId = NoId
    NoHolder = NoHolder
SPECIFICATION IdPoolSpec
INVARIANT IdPoolNoLeak
