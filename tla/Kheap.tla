------------------------------- MODULE Kheap -------------------------------
(***************************************************************************)
(* The kernel heap of src/src/mem/kheap.c: a best-fit allocator over one   *)
(* contiguous region.  Every block is a header (magic, is_hole, size), the *)
(* data, and a footer (magic, pointer to the header); the holes are kept   *)
(* in an ordered array sorted by size.  alloc splits a hole, cuts a front  *)
(* hole for page-aligned requests and grows the heap when nothing fits;    *)
(* free merges with the hole on either side.                               *)
(*                                                                         *)
(* Memory is a function from addresses to the last structure written       *)
(* there: a header, a footer, or untouched (zero: heap pages are cleared   *)
(* when first mapped).  Addresses are abstract units: a header and a       *)
(* footer take HeaderSize and FooterSize units and a page PageSize.  The   *)
(* data of a block is not modelled.  kmalloc, kmalloc_aligned and kfree    *)
(* run alloc and free under the yieldlock kheap_lock, so each is one step. *)
(***************************************************************************)
EXTENDS Integers, Sequences, SequencesExt, FiniteSets, OrderedArray

CONSTANTS
    HeaderSize, FooterSize,  \* sizeof(kheap_block_header_t), ..._footer_t
    PageSize,                \* PAGE_SIZE
    HeapStart,               \* start_address: KHEAP_START after the index array
    HeapMinSize,             \* end_address - start_address at creation
    HeapMax,                 \* max_address (KHEAP_MAX)
    IndexNum,                \* KHEAP_INDEX_NUM, capacity of the hole index
    Sizes,                   \* sizes passed to kmalloc
    AlignedSizes,            \* sizes passed to kmalloc_aligned
    MaxLive                  \* bound: blocks allocated at once

BlockMeta == HeaderSize + FooterSize

Addr == (HeapStart - FooterSize) .. HeapMax

\* A pointer that is no block header (a footer read where no footer is).
NoAddr == HeapStart - FooterSize - 1

NoPos == -1

Zero == [kind |-> "zero"]
Header(hole, size) == [kind |-> "hdr", hole |-> hole, size |-> size]
Footer(h) == [kind |-> "ftr", header |-> h]

VARIABLES
    mem,       \* what was last written at each address
    index,     \* kheap.index, the holes by size
    endAddr,   \* kheap.end_address
    live,      \* the blocks the callers hold: pointer, size, alignment
    assertOK   \* no ASSERT of kheap.c has failed

kheapVars == <<mem, index, endAddr, live, assertOK>>

Cell == {Zero} \cup [kind : {"hdr"}, hole : BOOLEAN, size : 0..HeapMax]
                \cup [kind : {"ftr"}, header : Addr]

Alloc_t == [ptr : Addr, size : Sizes \cup AlignedSizes, align : BOOLEAN]

KheapTypeOK ==
    /\ mem \in [Addr -> Cell]
    /\ index \in Seq(Addr)
    /\ endAddr \in HeapStart..HeapMax
    /\ live \subseteq Alloc_t
    /\ assertOK \in BOOLEAN

-----------------------------------------------------------------------------
(* Reading the structures at an address.  Both structures start with the   *)
(* magic, so any written address reads as magic.                           *)

Magic(m, a) == a \in DOMAIN m /\ m[a].kind # "zero"
IsHole(m, a) == a \in DOMAIN m /\ m[a].kind = "hdr" /\ m[a].hole
BlockSize(m, a) == IF a \in DOMAIN m /\ m[a].kind = "hdr" THEN m[a].size ELSE 0
FooterHeader(m, a) == IF a \in DOMAIN m /\ m[a].kind = "ftr" THEN m[a].header ELSE NoAddr

\* align_to_page
AlignToPage(n) ==
    IF n % PageSize # 0 THEN (n \div PageSize) * PageSize + PageSize ELSE n

\* make_block: a header at start and a footer at the end of the block.
MakeBlock(m, start, size, hole) ==
    [m EXCEPT ![start] = Header(hole, size),
              ![start + size + BlockMeta - FooterSize] = Footer(start)]

\* kheap_block_comparator: compare two blocks by size.
KheapBlockComparator(m, x, y) ==
    LET s1 == BlockSize(m, x)
        s2 == BlockSize(m, y)
    IN  IF s1 < s2 THEN -1 ELSE IF s1 = s2 THEN 0 ELSE 1

IndexInsert(m, idx, h) ==
    LET elems == ToSet(idx) \cup {h}
    IN  OrderedArrayInsert(idx, h,
            [xy \in elems \X elems |-> KheapBlockComparator(m, xy[1], xy[2])],
            IndexNum)

-----------------------------------------------------------------------------
(* find_hole.                                                              *)

\* The while loop of the page-aligned case: the first page boundary npa at
\* or after the data start with npa + size <= end and more than a block's
\* metadata of room in front of it.
AlignedPos(start, end, size) ==
    LET ok == {n \in AlignToPage(start)..end :
                  n % PageSize = 0 /\ n + size <= end /\ n - start > BlockMeta}
    IN  IF ok = {} THEN NoPos ELSE Min(ok)

Fits(m, h, size, align) ==
    IF align
    THEN AlignedPos(h + HeaderSize, h + HeaderSize + BlockSize(m, h), size) # NoPos
    ELSE BlockSize(m, h) >= size

\* Faulty variant of FindHole: alloc_pos is the data start even for a
\* page-aligned request.
FindHoleAlwaysStart(m, idx, size, align) ==
    LET i == SelectInSeq(idx, LAMBDA h : Fits(m, h, size, align))
    IN  [i |-> i, pos |-> IF i = 0 THEN NoPos ELSE idx[i] + HeaderSize]

\* The first hole of the index (the smallest, as the index is sorted) that
\* fits, and the position alloc will return in it; i = 0 when none fits.
FindHole(m, idx, size, align) ==
    LET i == SelectInSeq(idx, LAMBDA h : Fits(m, h, size, align))
        start == idx[i] + HeaderSize
    IN  [i |-> i,
         pos |-> IF i = 0 THEN NoPos
                 ELSE IF align THEN AlignedPos(start, start + BlockSize(m, idx[i]), size)
                 ELSE start]

-----------------------------------------------------------------------------
(* alloc.  A heap is a record of mem, index and end, with ok (no ASSERT    *)
(* failed), ptr (the result) and exhausted (the ASSERT of kheap_expand     *)
(* that the heap stays under max_address failed).                          *)

\* kheap_expand and the rest of the no-hole branch of alloc: grow the heap
\* by a page-aligned size + metadata, then extend the last block if it is a
\* hole (and re-sort it in the index) or append a new hole.
AllocExpand(hp, size) ==
    LET ext == AlignToPage(size + BlockMeta)
        newEnd == hp.end + ext
        last == FooterHeader(hp.mem, hp.end - FooterSize)
        mHole == MakeBlock(hp.mem, last, BlockSize(hp.mem, last) + ext, TRUE)
        mNew == MakeBlock(hp.mem, hp.end, ext - BlockMeta, TRUE)
    IN  IF newEnd > HeapMax THEN [hp EXCEPT !.exhausted = TRUE]
        ELSE IF IsHole(hp.mem, last)
        THEN [hp EXCEPT
                !.mem = mHole, !.end = newEnd,
                !.index = IndexInsert(mHole, OrderedArrayRemoveElement(hp.index, last), last),
                !.ok = @ /\ Contains(hp.index, last)]
        ELSE [hp EXCEPT
                !.mem = mNew, !.end = newEnd,
                !.index = IndexInsert(mNew, hp.index, hp.end),
                !.ok = @ /\ ext - BlockMeta > 0]

\* Faulty variant of RemainSize: a remainder of exactly the metadata size
\* is cut as a hole of size 0.
RemainSizeKeepsMeta(blockSize, size) ==
    IF blockSize - size < BlockMeta THEN 0 ELSE blockSize - size

\* What is left of the block after size: nothing if it cannot hold a block.
RemainSize(blockSize, size) ==
    IF blockSize - size <= BlockMeta THEN 0 ELSE blockSize - size

\* The hole-found branch of alloc: take the hole out of the index, cut a
\* front hole before a page-aligned position, mark the block used and cut a
\* hole from the remainder.
AllocFromHole(hp, fh, size, align) ==
    LET h0 == hp.index[fh.i]
        idx1 == OrderedArrayRemove(hp.index, fh.i)
        abh == fh.pos - HeaderSize
        front == align /\ abh > h0
        cut == abh - h0
        m1 == IF front THEN MakeBlock(hp.mem, h0, cut - BlockMeta, TRUE) ELSE hp.mem
        idx2 == IF front THEN IndexInsert(m1, idx1, h0) ELSE idx1
        bs == IF front THEN BlockSize(hp.mem, h0) - cut ELSE BlockSize(hp.mem, h0)
        h == IF front THEN abh ELSE h0
        rem == RemainSize(bs, size)
        sz == IF rem = 0 THEN bs ELSE size
        m2 == MakeBlock(m1, h, sz, FALSE)
        rh == h + BlockMeta + sz
        m3 == IF rem > 0 THEN MakeBlock(m2, rh, rem - BlockMeta, TRUE) ELSE m2
    IN  [hp EXCEPT
            !.mem = m3,
            !.index = IF rem > 0 THEN IndexInsert(m3, idx2, rh) ELSE idx2,
            !.ptr = fh.pos,
            !.ok = @ /\ Magic(hp.mem, h0) /\ (front => cut > BlockMeta)
                     /\ bs >= size /\ (rem > 0 => rem > BlockMeta)]

RECURSIVE Alloc(_, _, _)
\* alloc: find a hole, or expand the heap and try again.
Alloc(hp, size, align) ==
    LET fh == FindHole(hp.mem, hp.index, size, align)
    IN  IF fh.i # 0 THEN AllocFromHole(hp, fh, size, align)
        ELSE LET grown == AllocExpand(hp, size)
             IN  IF grown.exhausted THEN grown ELSE Alloc(grown, size, align)

-----------------------------------------------------------------------------
(* free.                                                                   *)

\* Faulty variant of FreeMergeRight: the right hole is merged but stays in
\* the index.
FreeKeepsRightInIndex(hp, h) ==
    LET r == h + BlockSize(hp.mem, h) + BlockMeta
    IN  IF Magic(hp.mem, r) /\ IsHole(hp.mem, r)
        THEN [hp EXCEPT
                !.mem = MakeBlock(hp.mem, h, BlockSize(hp.mem, h) + BlockSize(hp.mem, r) + BlockMeta, TRUE)]
        ELSE hp

\* Merge with the block after the footer, if it is a hole.
FreeMergeRight(hp, h) ==
    LET r == h + BlockSize(hp.mem, h) + BlockMeta
    IN  IF Magic(hp.mem, r) /\ IsHole(hp.mem, r)
        THEN [hp EXCEPT
                !.mem = MakeBlock(hp.mem, h, BlockSize(hp.mem, h) + BlockSize(hp.mem, r) + BlockMeta, TRUE),
                !.index = OrderedArrayRemoveElement(hp.index, r),
                !.ok = @ /\ Contains(hp.index, r)]
        ELSE hp

\* Faulty variant of FreeMergeLeft: the left neighbour is never merged.
FreeNoMergeLeft(hp, h) == [hp EXCEPT !.ptr = h]

\* Merge with the block whose footer is just before the header, if that
\* block is a hole; ptr is the hole to put in the index.
FreeMergeLeft(hp, h) ==
    LET lh == FooterHeader(hp.mem, h - FooterSize)
    IN  IF Magic(hp.mem, h - FooterSize) /\ IsHole(hp.mem, lh)
        THEN [hp EXCEPT
                !.mem = MakeBlock(hp.mem, lh, BlockSize(hp.mem, lh) + BlockSize(hp.mem, h) + BlockMeta, TRUE),
                !.index = OrderedArrayRemoveElement(hp.index, lh),
                !.ok = @ /\ Contains(hp.index, lh),
                !.ptr = lh]
        ELSE [hp EXCEPT !.ptr = h]

\* free: check the magics, make the block a hole, merge right, merge left,
\* insert the resulting hole in the index.
Free(hp, ptr) ==
    LET h == ptr - HeaderSize
        checked == Magic(hp.mem, h) /\ Magic(hp.mem, ptr + BlockSize(hp.mem, h))
        hp1 == [hp EXCEPT !.mem[h] = Header(TRUE, BlockSize(hp.mem, h)),
                          !.ok = @ /\ checked]
        hp2 == FreeMergeLeft(FreeMergeRight(hp1, h), h)
    IN  [hp2 EXCEPT !.index = IndexInsert(hp2.mem, hp2.index, hp2.ptr)]

-----------------------------------------------------------------------------
(* The kernel's calls.                                                     *)

Heap == [mem |-> mem, index |-> index, end |-> endAddr, ok |-> TRUE,
         ptr |-> NoPos, exhausted |-> FALSE]

\* kmalloc_impl(size, align) under kheap_lock.  The harness allocates only
\* while fewer than MaxLive blocks are held and never past max_address (the
\* ASSERT of kheap_expand would panic the kernel).
KmallocImpl(size, align) ==
    /\ Cardinality(live) < MaxLive
    /\ LET r == Alloc(Heap, size, align)
       IN  /\ ~r.exhausted
           /\ mem' = r.mem /\ index' = r.index /\ endAddr' = r.end
           /\ assertOK' = (assertOK /\ r.ok)
           /\ live' = live \cup {[ptr |-> r.ptr, size |-> size, align |-> align]}

Kmalloc(size) == KmallocImpl(size, FALSE)

KmallocAligned(size) == KmallocImpl(size, TRUE)

\* kfree(ptr) of a block the caller holds.
Kfree(a) ==
    /\ a \in live
    /\ LET r == Free(Heap, a.ptr)
       IN  /\ mem' = r.mem /\ index' = r.index
           /\ assertOK' = (assertOK /\ r.ok)
           /\ live' = live \ {a}
           /\ UNCHANGED endAddr

\* init_kheap: create_kheap puts one hole over the whole region.
KheapInit ==
    /\ mem = MakeBlock([a \in Addr |-> Zero], HeapStart, HeapMinSize - BlockMeta, TRUE)
    /\ index = <<HeapStart>>
    /\ endAddr = HeapStart + HeapMinSize
    /\ live = {}
    /\ assertOK = TRUE

KheapNext ==
    \/ \E s \in Sizes : Kmalloc(s)
    \/ \E s \in AlignedSizes : KmallocAligned(s)
    \/ \E a \in live : Kfree(a)

KheapSpec == KheapInit /\ [][KheapNext]_kheapVars

-----------------------------------------------------------------------------
(* Properties.                                                             *)

RECURSIVE Walk(_, _)
\* The headers kheap_validate_print visits from address a, one block after
\* the other up to end_address; NoAddr marks a step onto no header.
Walk(m, a) ==
    IF a >= endAddr THEN <<>>
    ELSE IF ~(a \in DOMAIN m /\ m[a].kind = "hdr") THEN <<NoAddr>>
    ELSE <<a>> \o Walk(m, a + m[a].size + BlockMeta)

Blocks == Walk(mem, HeapStart)

Holes == {b \in ToSet(Blocks) : IsHole(mem, b)}

\* The addresses of the headers and footers of the blocks the walk meets.
LiveCells ==
    UNION {{b, b + BlockSize(mem, b) + BlockMeta - FooterSize} :
               b \in ToSet(Blocks) \ {NoAddr}} \cap Addr

\* The state without the stale headers and footers left inside merged and
\* split blocks: alloc and free read memory only at the header and footer
\* positions of the blocks the walk meets while the heap is well formed.
KheapView == <<[a \in LiveCells |-> mem[a]], index, endAddr, live, assertOK>>

\* The heap is what kheap_validate_print asserts and free relies on after
\* any sequence of kmalloc, kmalloc_aligned and kfree: the blocks tile
\* [start_address, end_address) exactly, every footer points back to its
\* header, and the index holds each hole once, sorted by size.
KheapWellFormed ==
    /\ ~Contains(Blocks, NoAddr)
    /\ Blocks # <<>>
    /\ Last(Blocks) + BlockSize(mem, Last(Blocks)) + BlockMeta = endAddr
    /\ \A b \in ToSet(Blocks) :
           FooterHeader(mem, b + BlockSize(mem, b) + BlockMeta - FooterSize) = b
    /\ ToSet(index) = Holes /\ Len(index) = Cardinality(Holes)
    /\ IsSorted(index, LAMBDA x, y : BlockSize(mem, x) <= BlockSize(mem, y))

\* free coalesces completely: no two neighbouring blocks are both holes,
\* whatever order blocks are allocated, aligned, split and freed in.
HolesCoalesced ==
    \A i \in 1..Len(Blocks) - 1 :
        ~(IsHole(mem, Blocks[i]) /\ IsHole(mem, Blocks[i + 1]))

\* The used blocks are exactly the blocks the callers hold, each at least
\* as large as requested, and kmalloc_aligned returns page-aligned memory.
AllocationsTracked ==
    /\ {b \in ToSet(Blocks) : ~IsHole(mem, b)} = {a.ptr - HeaderSize : a \in live}
    /\ \A a \in live :
           /\ BlockSize(mem, a.ptr - HeaderSize) >= a.size
           /\ a.align => a.ptr % PageSize = 0

\* No ASSERT of alloc, free and make_block fails (each would panic).
KheapAssertionsHold == assertOK

=============================================================================
