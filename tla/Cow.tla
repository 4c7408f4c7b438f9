-------------------------------- MODULE Cow --------------------------------
(***************************************************************************)
(* Copy-on-write user pages of src/src/mem/paging.c.  process_fork clones  *)
(* the page directory (clone_crt_page_dir): every present user page is     *)
(* shared, both page-table entries become read-only and the frame's        *)
(* reference count in frame_cow_ref_counts goes up by one.  A write to a   *)
(* read-only page faults; the handler takes one reference off the count    *)
(* and, if the count was positive, copies the page to a new frame, else    *)
(* makes the page writable in place.  process_exit releases the pages and  *)
(* frees a frame whose count was not positive.                             *)
(*                                                                         *)
(* Every process has one thread and one user page of a few words.  A     *)
(* page fault enters through isr_handler, which enables interrupts         *)
(* (interrupt.c), so the timer may preempt the fault handler between any   *)
(* two of its steps.  Fork and exit are syscalls: syscall_entry is an      *)
(* interrupt gate, so they run with interrupts off and leave the CPU only  *)
(* in schedule_thread_yield, when a yieldlock they take (the refcount or   *)
(* frame lock) is held by a preempted fault handler.  The model lets any   *)
(* process take a step, which allows those syscall interleavings also      *)
(* where no lock is contended; the traces of the runs keep each fork and   *)
(* each exit back to back and interleave only the fault handlers.          *)
(* change_cow_frame_refcount and allocate_phy_frame run under their       *)
(* yieldlocks and are one step each; so is the copy under page_copy_lock. *)
(***************************************************************************)
EXTENDS Integers, FiniteSets, FiniteSetsExt

CONSTANTS
    Procs,       \* process ids
    InitProc,    \* the process that exists at the start
    NumFrames,   \* physical frames for user pages: 1..NumFrames
    Words,       \* the words of the user page
    Orig,        \* the content of the page before any write
    NoFrame

Frames == 1..NumFrames

Vals == Procs \cup {Orig}   \* a write by process p stores p

Pte == [present : BOOLEAN, rw : BOOLEAN, frame : Frames \cup {NoFrame}]
NoPte == [present |-> FALSE, rw |-> FALSE, frame |-> NoFrame]

Pcs == {"user", "pf_ref", "pf_rw", "pf_alloc", "pf_copy", "pf_map",
        "fk_mark", "fk_ref", "fk_done", "ex_ref", "ex_free", "exited"}

VARIABLES
    status,    \* "unused" (no such process yet), "running" or "zombie"
    pc,        \* the step each process takes next
    pte,       \* the page-table entry of the user page in each process
    used,      \* phy_frames_map: the frames allocated
    refcnt,    \* frame_cow_ref_counts (0: no entry)
    data,      \* the content of each frame
    expect,    \* the page as the process's own writes and its fork define it
    cowRefs,   \* the count change_cow_frame_refcount returned, per process
    newFrame,  \* the frame the fault handler allocated, per process
    child      \* the process being forked, per process

cowVars == <<status, pc, pte, used, refcnt, data, expect, cowRefs, newFrame, child>>

CowTypeOK ==
    /\ status \in [Procs -> {"unused", "running", "zombie"}]
    /\ pc \in [Procs -> Pcs]
    /\ pte \in [Procs -> Pte]
    /\ used \subseteq Frames
    /\ refcnt \in [Frames -> Nat]
    /\ data \in [Frames -> [Words -> Vals]]
    /\ expect \in [Procs -> [Words -> Vals]]
    /\ cowRefs \in [Procs -> Int]
    /\ newFrame \in [Procs -> Frames \cup {NoFrame}]
    /\ child \in [Procs -> Procs]

Frame(p) == pte[p].frame

Goto(p, from, to) ==
    /\ status[p] = "running" /\ pc[p] = from
    /\ pc' = [pc EXCEPT ![p] = to]

\* change_cow_frame_refcount(frame, delta): the count after the change is
\* stored if positive and the entry removed otherwise.
ChangeCowFrameRefcount(f, delta) ==
    refcnt' = [refcnt EXCEPT ![f] = IF @ + delta > 0 THEN @ + delta ELSE 0]

-----------------------------------------------------------------------------
(* A user write, and the write-fault path of map_page_with_frame_impl.     *)

\* The process writes its id into word w: through a writable entry, or it
\* faults (page_fault_handler -> map_page) on a read-only one.
UserWrite(p, w) ==
    /\ status[p] = "running" /\ pc[p] = "user" /\ pte[p].present
    /\ IF pte[p].rw
       THEN /\ data' = [data EXCEPT ![Frame(p)][w] = p]
            /\ expect' = [expect EXCEPT ![p][w] = p]
            /\ UNCHANGED pc
       ELSE /\ pc' = [pc EXCEPT ![p] = "pf_ref"]
            /\ UNCHANGED <<data, expect>>
    /\ UNCHANGED <<status, pte, used, refcnt, cowRefs, newFrame, child>>

\* int32 cow_refs = change_cow_frame_refcount(pte->frame, -1)
PfRef(p) ==
    /\ Goto(p, "pf_ref", IF refcnt[Frame(p)] > 0 THEN "pf_alloc" ELSE "pf_rw")
    /\ cowRefs' = [cowRefs EXCEPT ![p] = refcnt[Frame(p)]]
    /\ ChangeCowFrameRefcount(Frame(p), -1)
    /\ UNCHANGED <<status, pte, used, data, expect, newFrame, child>>

\* cow_refs <= 0: pte->rw = 1 on the frame as it is.
PfRw(p) ==
    /\ Goto(p, "pf_rw", "user")
    /\ pte' = [pte EXCEPT ![p].rw = TRUE]
    /\ UNCHANGED <<status, used, refcnt, data, expect, cowRefs, newFrame, child>>

\* frame = allocate_phy_frame(): bitmap_allocate_first_free under
\* phy_frames_map_lock (the kernel panics if there is none).
PfAlloc(p) ==
    /\ Goto(p, "pf_alloc", "pf_copy")
    /\ Frames \ used # {}
    /\ newFrame' = [newFrame EXCEPT ![p] = Min(Frames \ used)]
    /\ used' = used \cup {Min(Frames \ used)}
    /\ UNCHANGED <<status, pte, refcnt, data, expect, cowRefs, child>>

\* Under page_copy_lock: map the new frame at COPIED_PAGE_VADDR and memcpy
\* the faulting page into it.
PfCopy(p) ==
    /\ Goto(p, "pf_copy", "pf_map")
    /\ data' = [data EXCEPT ![newFrame[p]] = data[Frame(p)]]
    /\ UNCHANGED <<status, pte, used, refcnt, expect, cowRefs, newFrame, child>>

\* pte->frame = frame; pte->rw = 1; release_pages(copy_page, 1, false).
PfMap(p) ==
    /\ Goto(p, "pf_map", "user")
    /\ pte' = [pte EXCEPT ![p] = [@ EXCEPT !.frame = newFrame[p], !.rw = TRUE]]
    /\ UNCHANGED <<status, used, refcnt, data, expect, cowRefs, newFrame, child>>

-----------------------------------------------------------------------------
(* process_fork: create_process clones the page directory.                 *)

\* fork from user mode with a free process id (create_process).
ForkStart(p, c) ==
    /\ status[p] = "running" /\ pc[p] = "user" /\ status[c] = "unused"
    /\ \A q \in Procs : pc[q] \in {"fk_mark", "fk_ref", "fk_done"} => child[q] # c
    /\ pc' = [pc EXCEPT ![p] = "fk_mark"]
    /\ child' = [child EXCEPT ![p] = c]
    /\ UNCHANGED <<status, pte, used, refcnt, data, expect, cowRefs, newFrame>>

\* memcpy of the page table, then for the present entry: crt_pte->rw = 0
\* and new_pte->rw = 0.
FkMark(p) ==
    /\ Goto(p, "fk_mark", IF pte[p].present THEN "fk_ref" ELSE "fk_done")
    /\ pte' = [pte EXCEPT ![child[p]] = [pte[p] EXCEPT !.rw = FALSE],
                          ![p].rw = FALSE]
    /\ UNCHANGED <<status, used, refcnt, data, expect, cowRefs, newFrame, child>>

\* change_cow_frame_refcount(new_pte->frame, 1)
FkRef(p) ==
    /\ Goto(p, "fk_ref", "fk_done")
    /\ ChangeCowFrameRefcount(Frame(p), 1)
    /\ UNCHANGED <<status, pte, used, data, expect, cowRefs, newFrame, child>>

\* The rest of process_fork: the child's thread is queued and the parent
\* returns to user mode.  The child's page is the parent's at the fork.
FkDone(p) ==
    /\ Goto(p, "fk_done", "user")
    /\ status' = [status EXCEPT ![child[p]] = "running"]
    /\ expect' = [expect EXCEPT ![child[p]] = expect[p]]
    /\ UNCHANGED <<pte, used, refcnt, data, cowRefs, newFrame, child>>

-----------------------------------------------------------------------------
(* process_exit: release_user_space_pages -> release_page(.., true).        *)

\* exit from user mode; the init process never exits (user/src/init.c
\* ends in an endless loop).
ExitStart(p) ==
    /\ p # InitProc
    /\ status[p] = "running" /\ pc[p] = "user"
    /\ pc' = [pc EXCEPT ![p] = IF pte[p].present THEN "ex_ref" ELSE "exited"]
    /\ status' = IF pte[p].present THEN status ELSE [status EXCEPT ![p] = "zombie"]
    /\ UNCHANGED <<pte, used, refcnt, data, expect, cowRefs, newFrame, child>>

\* int32 cow_refs = change_cow_frame_refcount(frame, -1)
ExRef(p) ==
    /\ Goto(p, "ex_ref", "ex_free")
    /\ cowRefs' = [cowRefs EXCEPT ![p] = refcnt[Frame(p)]]
    /\ ChangeCowFrameRefcount(Frame(p), -1)
    /\ UNCHANGED <<status, pte, used, data, expect, newFrame, child>>

\* if (cow_refs <= 0) release_phy_frame(frame); *pte = 0.  The process is
\* then a zombie with no user pages.
ExFree(p) ==
    /\ Goto(p, "ex_free", "exited")
    /\ used' = IF cowRefs[p] <= 0 THEN used \ {Frame(p)} ELSE used
    /\ pte' = [pte EXCEPT ![p] = NoPte]
    /\ status' = [status EXCEPT ![p] = "zombie"]
    /\ UNCHANGED <<refcnt, data, expect, cowRefs, newFrame, child>>

-----------------------------------------------------------------------------

\* The init process with its page mapped writable in frame 1.
CowInit ==
    /\ status = [p \in Procs |-> IF p = InitProc THEN "running" ELSE "unused"]
    /\ pc = [p \in Procs |-> "user"]
    /\ pte = [p \in Procs |-> IF p = InitProc
                              THEN [present |-> TRUE, rw |-> TRUE, frame |-> 1]
                              ELSE NoPte]
    /\ used = {1}
    /\ refcnt = [f \in Frames |-> 0]
    /\ data = [f \in Frames |-> [w \in Words |-> Orig]]
    /\ expect = [p \in Procs |-> [w \in Words |-> Orig]]
    /\ cowRefs = [p \in Procs |-> 0]
    /\ newFrame = [p \in Procs |-> NoFrame]
    /\ child = [p \in Procs |-> p]

CowNext ==
    \E p \in Procs :
        \/ \E w \in Words : UserWrite(p, w)
        \/ PfRef(p) \/ PfRw(p) \/ PfAlloc(p) \/ PfCopy(p) \/ PfMap(p)
        \/ \E c \in Procs : ForkStart(p, c)
        \/ FkMark(p) \/ FkRef(p) \/ FkDone(p)
        \/ ExitStart(p) \/ ExRef(p) \/ ExFree(p)

CowSpec == CowInit /\ [][CowNext]_cowVars

-----------------------------------------------------------------------------
(* Properties.                                                             *)

\* A process in user mode sees in its page exactly what it wrote there
\* and what it inherited at fork: no write of another process shows
\* through a shared frame, however the fault handlers, forks and exits of
\* the processes sharing a frame interleave.
CowIsolation ==
    \A p \in Procs :
        status[p] = "running" /\ pc[p] = "user" /\ pte[p].present =>
            data[Frame(p)] = expect[p]

\* No frame is freed while a page-table entry still maps it: release_page
\* in process_exit frees a frame whose count it took to zero, and a
\* sharer's copy-on-write fault that had already taken its own reference
\* off must have remapped its pte before that.
NoFreedFrameMapped ==
    \A p \in Procs : pte[p].present => Frame(p) \in used
=============================================================================
