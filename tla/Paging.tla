------------------------------- MODULE Paging -------------------------------
(***************************************************************************)
(* Physical frames and the address spaces that use them:                   *)
(* src/src/mem/paging.c (the frame bitmap phy_frames_map, the page fault   *)
(* path, release_pages, release_pages_tables, clone_crt_page_dir and the   *)
(* copy-on-write reference counts) as src/src/task/process.c drives it     *)
(* (fork, exec, exit and destroy_process).                                 *)
(*                                                                         *)
(* A process's address space is its page directory frame, the page-table  *)
(* frame of each user pde and the pte of each user page: absent, or a      *)
(* frame and the rw bit.  The 256 kernel pdes are shared by every page     *)
(* directory, so the ptes of kernel heap pages are one global function     *)
(* kpte.  A page fault enters through isr_handler, which enables         *)
(* interrupts, so the timer may preempt a copy-on-write fault between     *)
(* change_cow_frame_refcount and the remap of the pte: the fault is two   *)
(* steps, and any other process may run between them.  Fork, exec and    *)
(* exit are syscalls and run with interrupts off (syscall_entry is an     *)
(* interrupt gate); they leave the CPU only when a yieldlock they take is *)
(* held by a preempted thread.  The model takes each of them as one step, *)
(* the schedule without that contention: a violation it finds is a run    *)
(* of the code, but a property it finds true is not shown for the         *)
(* schedules where a fork yields inside clone_crt_page_dir (Cow.tla lets  *)
(* those interleave).  A failed frame allocation PANICs, so an operation  *)
(* that cannot get its frames does not happen.                            *)
(***************************************************************************)
EXTENDS Integers, FiniteSets, Sequences, SequencesExt

CONSTANTS
    Procs,          \* pcb slots of user processes
    InitProc,       \* process 1, which kernel_init_thread turns into init
    NumFrames,      \* PHYSICAL_MEM_SIZE / PAGE_SIZE: bits of phy_frames_map
    Reserved,       \* frames in use at boot: the first 3MB, the kernel
                    \* stack frame and the kernel main process's directory
    PageSize,       \* PAGE_SIZE
    PtesPerTable,   \* ptes per page table (1024)
    UserPages,      \* user virtual page numbers (pte indexes) in use
    KPages,         \* kernel heap pages kmalloc_aligned may return
    None

Frames == 0..(NumFrames - 1)

\* pde_index = virtual_addr >> 22, from the pte index.
PdeOf(v) == v \div PtesPerTable

UserPdes == {PdeOf(v) : v \in UserPages}

PTE == [frame : Frames, rw : BOOLEAN]

VARIABLES
    used,     \* the bits of phy_frames_map that are set
    stray,    \* bits release_phy_frame cleared beyond the end of bitarray
    status,   \* "free" slot, "live" process, or "exited" (PROCESS_EXIT)
    pd,       \* page_dir.page_dir_entries_phy / PAGE_SIZE
    pt,       \* pt[p][i]: the page-table frame of user pde i, or None
    pte,      \* pte[p][v]: the pte of user page v, or None if not present
    cow,      \* frame_cow_ref_counts (0 when the frame has no entry)
    kpte,     \* the ptes of the kernel heap pages
    fault     \* fault[p]: the copy-on-write fault p is preempted in, after
              \* change_cow_frame_refcount returned, or None

pagingVars == <<used, stray, status, pd, pt, pte, cow, kpte, fault>>

PagingTypeOK ==
    /\ used \subseteq Frames
    /\ stray \subseteq Nat
    /\ status \in [Procs -> {"free", "live", "exited"}]
    /\ pd \in [Procs -> Frames \cup {None}]
    /\ pt \in [Procs -> [UserPdes -> Frames \cup {None}]]
    /\ pte \in [Procs -> [UserPages -> PTE \cup {None}]]
    /\ cow \in [Frames -> 0..Cardinality(Procs)]
    /\ kpte \in [KPages -> Frames \cup {None}]
    /\ fault \in [Procs -> [page : UserPages, copy : BOOLEAN] \cup {None}]

\* bitmap_find_first_free: the lowest clear bit.
LowestFree(u) == CHOOSE f \in Frames \ u : \A g \in Frames \ u : f <= g

\* n calls of allocate_phy_frame in a row, from the bitmap u.
RECURSIVE AllocateFrames(_, _)
AllocateFrames(u, n) ==
    IF n = 0 THEN <<>>
    ELSE <<LowestFree(u)>> \o AllocateFrames(u \cup {LowestFree(u)}, n - 1)

\* The frames the present ptes of p map.
MappedFrames(p) == {pte[p][v].frame : v \in {w \in UserPages : pte[p][w] # None}}

\* change_cow_frame_refcount(f, -1) on every frame of fs: the counts after
\* it (a count that would drop below 1 loses its entry).
CowDec(fs) == [f \in Frames |-> IF f \in fs /\ cow[f] > 0 THEN cow[f] - 1 ELSE cow[f]]

-----------------------------------------------------------------------------
(* Operations.                                                             *)

\* A kernel heap page is written (a kmalloc'ed object): the page fault
\* handler maps a fresh frame to it if it is not present.
KernelTouch(k) ==
    /\ kpte[k] = None
    /\ Frames \ used # {}
    /\ kpte' = [kpte EXCEPT ![k] = LowestFree(used)]
    /\ used' = used \cup {LowestFree(used)}
    /\ UNCHANGED <<stray, status, pd, pt, pte, cow, fault>>

\* page_fault_handler -> map_page -> map_page_with_frame_impl(v, -1) in
\* process p: a page table for the pde if there is none, then a fresh
\* frame if the pte is absent.  A write to a read-only pte starts the
\* copy-on-write: int32 cow_refs = change_cow_frame_refcount(frame, -1),
\* and the fault goes on in CowFaultFinish, a copy if cow_refs > 0.
MapPage(p, v) ==
    LET i      == PdeOf(v)
        needPt == pt[p][i] = None
        ptF    == LowestFree(used)
        u1     == IF needPt THEN used \cup {ptF} ELSE used
        f      == pte[p][v].frame
    IN
    /\ status[p] = "live" /\ fault[p] = None
    /\ needPt => Frames \ used # {}
    /\ pt' = IF needPt THEN [pt EXCEPT ![p][i] = ptF] ELSE pt
    /\ CASE pte[p][v] = None ->
              /\ Frames \ u1 # {}
              /\ pte' = [pte EXCEPT ![p][v] = [frame |-> LowestFree(u1), rw |-> TRUE]]
              /\ used' = u1 \cup {LowestFree(u1)}
              /\ UNCHANGED <<cow, fault>>
         [] ~pte[p][v].rw ->
              /\ cow' = CowDec({f})
              /\ fault' = [fault EXCEPT ![p] = [page |-> v, copy |-> cow[f] > 0]]
              /\ used' = u1
              /\ UNCHANGED pte
         [] OTHER ->
              /\ used' = u1
              /\ UNCHANGED <<pte, cow, fault>>
    /\ UNCHANGED <<stray, status, pd, kpte>>

\* The rest of the copy-on-write fault of p, when it runs again: if
\* cow_refs > 0, allocate_phy_frame, the copy through COPIED_PAGE_VADDR,
\* pte->frame = frame and pte->rw = 1; else pte->rw = 1 in place.
CowFaultFinish(p) ==
    LET v == fault[p].page
    IN  /\ fault[p] # None
        /\ IF fault[p].copy
           THEN /\ Frames \ used # {}
                /\ pte' = [pte EXCEPT ![p][v] = [frame |-> LowestFree(used), rw |-> TRUE]]
                /\ used' = used \cup {LowestFree(used)}
           ELSE /\ pte' = [pte EXCEPT ![p][v].rw = TRUE]
                /\ UNCHANGED used
        /\ fault' = [fault EXCEPT ![p] = None]
        /\ UNCHANGED <<stray, status, pd, pt, cow, kpte>>

\* release_page(v, true) on the pages mapping fs: the frames it frees,
\* those whose old copy-on-write count was 0.
FreedOnRelease(fs) == {f \in fs : cow[f] = 0}

\* release_pages_tables: the page-table frames of p's present user pdes.
PageTableFrames(p) == {pt[p][i] : i \in {j \in UserPdes : pt[p][j] # None}}

\* release_user_space_pages in process p: release_pages(4MB, 767 * 1024,
\* true) takes a reference off every present pte's frame and frees the
\* frames whose old count was 0; release_pages_tables(1, 767) then frees
\* the page tables.
ReleaseUserSpacePages(p) ==
    LET fs == MappedFrames(p)
    IN  /\ cow' = CowDec(fs)
        /\ used' = (used \ FreedOnRelease(fs)) \ PageTableFrames(p)
        /\ pte' = [pte EXCEPT ![p] = [v \in UserPages |-> None]]
        /\ pt' = [pt EXCEPT ![p] = [i \in UserPdes |-> None]]

\* process_fork in process p, whose create_process makes the pcb c and
\* calls clone_crt_page_dir: a frame for the new directory, mapped at the
\* kmalloc_aligned page d; a frame for each present user page table, copied
\* through the kmalloc_aligned page t, its ptes made read-only in both and
\* their frames' counts raised by one; then both pages kfree'd and
\* unmapped with release_pages(.., 1, false).
Fork(p, c, d, t) ==
    LET pdF  == LowestFree(used)
        pres == SetToSortSeq({i \in UserPdes : pt[p][i] # None}, LAMBDA a, b : a < b)
        ptFs == AllocateFrames(used \cup {pdF}, Len(pres))
        ro   == [v \in UserPages |-> IF pte[p][v] = None THEN None
                                     ELSE [pte[p][v] EXCEPT !.rw = FALSE]]
    IN
    /\ status[p] = "live" /\ fault[p] = None /\ status[c] = "free" /\ d # t
    /\ Cardinality(Frames \ used) >= 1 + Len(pres)
    /\ used' = used \cup {pdF} \cup ToSet(ptFs)
    /\ pd' = [pd EXCEPT ![c] = pdF]
    /\ pt' = [pt EXCEPT ![c] = [i \in UserPdes |->
                IF \E k \in 1..Len(pres) : pres[k] = i
                THEN ptFs[CHOOSE k \in 1..Len(pres) : pres[k] = i] ELSE None]]
    /\ pte' = [pte EXCEPT ![p] = ro, ![c] = ro]
    /\ cow' = [f \in Frames |-> IF f \in MappedFrames(p) THEN cow[f] + 1 ELSE cow[f]]
    /\ kpte' = [kpte EXCEPT ![d] = None, ![t] = None]
    /\ status' = [status EXCEPT ![c] = "live"]
    /\ UNCHANGED <<stray, fault>>

\* process_exec in p: after the file is read, release_user_space_pages;
\* load_elf and the new thread's stack then fault their pages in (MapPage).
Exec(p) ==
    /\ status[p] = "live" /\ fault[p] = None
    /\ ReleaseUserSpacePages(p)
    /\ UNCHANGED <<stray, status, pd, kpte, fault>>

\* process_exit in p (which has a parent, unlike init):
\* release_process_resources releases the user space; the page directory
\* stays until the process is destroyed.
Exit(p) ==
    /\ status[p] = "live" /\ p # InitProc /\ fault[p] = None
    /\ ReleaseUserSpacePages(p)
    /\ status' = [status EXCEPT ![p] = "exited"]
    /\ UNCHANGED <<stray, pd, kpte, fault>>

\* kernel_clean_thread -> destroy_process, once the parent's wait has
\* queued p: release_phy_frame(page_dir_entries_phy).  The argument is the
\* directory's physical address, not its frame number, so bitmap_clear_bit
\* clears the bit of that number, beyond the bitmap's total_bits.
DestroyProcess(p) ==
    LET bit == pd[p] * PageSize
    IN  /\ status[p] = "exited"
        /\ used' = used \ {bit}
        /\ stray' = IF bit \in Frames THEN stray ELSE stray \cup {bit}
        /\ status' = [status EXCEPT ![p] = "free"]
        /\ pd' = [pd EXCEPT ![p] = None]
        /\ UNCHANGED <<pt, pte, cow, kpte, fault>>

-----------------------------------------------------------------------------

\* After kernel_main_thread's create_process of process 1: its directory
\* frame taken from the bitmap init_paging set up, no user page mapped.
PagingInit ==
    /\ used = Reserved \cup {LowestFree(Reserved)}
    /\ stray = {}
    /\ status = [p \in Procs |-> IF p = InitProc THEN "live" ELSE "free"]
    /\ pd = [p \in Procs |-> IF p = InitProc THEN LowestFree(Reserved) ELSE None]
    /\ pt = [p \in Procs |-> [i \in UserPdes |-> None]]
    /\ pte = [p \in Procs |-> [v \in UserPages |-> None]]
    /\ cow = [f \in Frames |-> 0]
    /\ kpte = [k \in KPages |-> None]
    /\ fault = [p \in Procs |-> None]

PagingNext ==
    \/ \E k \in KPages : KernelTouch(k)
    \/ \E p \in Procs :
          \/ \E v \in UserPages : MapPage(p, v)
          \/ CowFaultFinish(p)
          \/ \E c \in Procs, d, t \in KPages : Fork(p, c, d, t)
          \/ Exec(p)
          \/ Exit(p)
          \/ DestroyProcess(p)

PagingSpec == PagingInit /\ [][PagingNext]_pagingVars

-----------------------------------------------------------------------------
(* Properties.                                                             *)

\* The frames the page structures hold: directories of processes not yet
\* destroyed, page tables, user pages and kernel heap pages.
HeldFrames ==
    {pd[p] : p \in {q \in Procs : status[q] # "free"}}
    \cup UNION {{pt[p][i] : i \in {j \in UserPdes : pt[p][j] # None}} : p \in Procs}
    \cup UNION {MappedFrames(p) : p \in Procs}
    \cup {kpte[k] : k \in {j \in KPages : kpte[j] # None}}

\* Every allocated frame is held by a page structure or was in use at boot:
\* no sequence of forks, faults, execs, exits and destroys loses a frame.
FramesNotLeaked == used \subseteq Reserved \cup HeldFrames
=============================================================================
