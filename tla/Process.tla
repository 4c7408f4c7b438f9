------------------------------ MODULE Process ------------------------------
(***************************************************************************)
(* fork, exec, wait and exit of src/src/task/process.c on top of the      *)
(* scheduler and the reaper.  Processes are named by their pid (Procs =    *)
(* 1..MaxPid, pid 1 being the init process).  The init process runs a user *)
(* program that forks and waits (init.c and shell.c); a forked child runs  *)
(* the child branch of shell.c, exec(program) then exit(ret); the program  *)
(* it execs returns a code from Codes to _start, which calls exit() and,   *)
(* should exit() return, returns into schedule_thread_exit_normal, the     *)
(* thread_exit syscall.                                                    *)
(*                                                                         *)
(* PCB fields kept: status, parent, threads, children_processes,           *)
(* exit_children_processes, waiting_child_pid, waiting_thread_node,        *)
(* exit_code and lock.  The page directory, the user stack bitmap (no      *)
(* syscall creates a second thread that would allocate from it), the file  *)
(* read and ELF load (only their outcome is kept) and the global           *)
(* processes_map (written, never read) are left out.                       *)
(***************************************************************************)
EXTENDS Reaper, Integers

CONSTANTS
    MaxPid,     \* the pids 1..MaxPid the model may allocate
    Codes,      \* exit codes the child programs pass to exit()
    WaitAny,    \* whether the init program also calls wait(0)
    NoThread,   \* a NULL thread node
    InitThread  \* the thread of the init process

ASSUME Procs = 1..MaxPid /\ NoThread \notin Threads /\ InitThread \in Threads \ {Main, Clean}

InitPid == 1
NoProc  == 0
UserThreads == ExitThreads

VARIABLES
    pstatus,        \* pcb_t.status: "UNUSED" before create_process
    parent,         \* pcb_t.parent
    pthreads,       \* pcb_t.threads
    children,       \* pcb_t.children_processes
    exitChildren,   \* pcb_t.exit_children_processes (zombies)
    waitingChild,   \* pcb_t.waiting_child_pid (0 = none)
    waitingThread,  \* pcb_t.waiting_thread_node
    exitCode,       \* pcb_t.exit_code
    plock,          \* pcb_t.lock.hold
    tproc,          \* tcb_t.process (NoProc = NULL)
    arg,            \* the syscall argument of each thread (pid or exit code)
    child,          \* process_wait's local child
    result,         \* what process_wait stored through status (-1: failed)
    exitArg,        \* ghost: the code each process passed to exit()
    panic           \* the kernel dereferenced NULL and stopped

procVars == <<pstatus, parent, pthreads, children, exitChildren, waitingChild,
              waitingThread, exitCode, plock, tproc, arg, child, result,
              exitArg, panic>>

vars == <<schedVars, reaperVars, procVars>>

ProcPcs == {"unused", "u_run",
            "pf_lock", "pf_put",
            "pw_lock", "pw_check", "pw_loop", "pw_block", "pw_unlock",
            "pw_yield", "pw_relock", "pw_reap", "pw_unlock2",
            "pd_lock", "pd_append", "pd_notify", "pd_unlock",
            "px_lock", "px_check", "px_plock", "px_put", "px_punlock",
            "px_exit", "u_child", "u_failed",
            "pe_load", "st_lock", "st_remove", "st_dead"}

ProcessTypeOK ==
    /\ SchedTypeOK
    /\ pc \in [Threads \ {Main} -> CleanPcs \cup ExitPcs \cup ProcPcs]
    /\ pstatus \in [Procs -> {"UNUSED", "PROCESS_NORMAL", "PROCESS_EXIT"}]
    /\ parent \in [Procs -> Procs \cup {NoProc}]
    /\ pthreads \in [Procs -> SUBSET UserThreads]
    /\ children \in [Procs -> SUBSET Procs]
    /\ exitChildren \in [Procs -> SUBSET Procs]
    /\ waitingChild \in [Procs -> 0..MaxPid]
    /\ waitingThread \in [Procs -> UserThreads \cup {NoThread}]
    /\ exitCode \in [Procs -> Codes \cup {0, -1}]
    /\ plock \in [Procs -> BOOLEAN]
    /\ tproc \in [Threads -> Procs \cup {NoProc}]
    /\ arg \in [Threads -> Int]
    /\ child \in [Threads -> Procs \cup {NoProc}]
    /\ result \in [Threads -> Codes \cup {0, -1}]
    /\ exitArg \in [Procs -> Codes \cup {0, -1}]
    /\ panic \in BOOLEAN

\* The process of the running thread t.
Self(t) == tproc[t]

\* A syscall returns to user mode through iret, which restores the user
\* EFLAGS the thread was built with (EFLAGS_IF_1): interrupts are enabled.
ReturnToUser(t) ==
    /\ pc' = [pc EXCEPT ![t] = "u_run"]
    /\ intr' = TRUE

\* yieldlock_lock(&p->lock) at statement from: take it and go on to
\* statement to, or yield and stay.
PLockStep(t, p, from, to) ==
    /\ crt = t /\ pc[t] = from
    /\ IF ~plock[p]
       THEN /\ plock' = [plock EXCEPT ![p] = TRUE]
            /\ pc' = [pc EXCEPT ![t] = to]
            /\ UNCHANGED schedVars
       ELSE /\ ScheduleThreadYield
            /\ UNCHANGED <<plock, pc>>

-----------------------------------------------------------------------------
(* The syscalls a user program makes from user mode.                       *)

\* Faulty variant of SyscallEntry: a trap gate, which leaves interrupts
\* enabled as user mode had them.
SyscallEntryTrapGate == UNCHANGED <<crt, ready, status, ticks, needResched, intr, resumeIntr>>

\* int 0x80 enters syscall_entry through an interrupt gate (type 0xE): the
\* CPU clears IF, and syscall_handler does not set it again, so a syscall
\* runs with interrupts disabled until something in it enables them.
SyscallEntry ==
    /\ intr' = FALSE
    /\ UNCHANGED <<crt, ready, status, ticks, needResched, resumeIntr>>

\* The bound on thread creation: the user threads not yet created, less
\* one for each fork or exec under way that has not yet taken its thread.
\* The thread id pool is never exhausted in the code's use.
SpareThreads ==
    Cardinality({u \in UserThreads : pc[u] = "unused"})
      - Cardinality({u \in UserThreads :
                        pc[u] \in {"pf_lock", "pf_put", "pe_load"}})

\* The init program calls fork() or wait(a); a is 0 (any child) when
\* WaitAny, or any pid, a child's or not.  The pid pool (16384 ids) is
\* never exhausted in the code's use; the model forks only while one of
\* its MaxPid pids and a user thread are spare (the bound on forks).
SysFork(t) ==
    /\ Goto(t, "u_run", "pf_lock")
    /\ Self(t) = InitPid
    /\ \E p \in Procs : pstatus[p] = "UNUSED"
    /\ SpareThreads > 0
    /\ SyscallEntry
    /\ UNCHANGED <<reaperData, procVars>>

SysWait(t) ==
    /\ Goto(t, "u_run", "pw_lock")
    /\ Self(t) = InitPid
    /\ \E a \in (IF WaitAny THEN 0..MaxPid ELSE 1..MaxPid) :
          arg' = [arg EXCEPT ![t] = a]
    /\ SyscallEntry
    /\ UNCHANGED reaperData
    /\ UNCHANGED <<pstatus, parent, pthreads, children, exitChildren,
                   waitingChild, waitingThread, exitCode, plock, tproc, child,
                   result, exitArg, panic>>

\* _start calls exit(c) with the code main returned (from u_run), or the
\* child branch of shell.c calls exit(ret) with the -1 of a failed exec
\* (from u_failed).
SysExit(t) ==
    /\ \/ Goto(t, "u_run", "px_lock")
       \/ Goto(t, "u_failed", "px_lock")
    /\ Self(t) # InitPid
    /\ \E c \in IF pc[t] = "u_failed" THEN {-1} ELSE Codes :
          /\ arg' = [arg EXCEPT ![t] = c]
          /\ exitArg' = [exitArg EXCEPT ![Self(t)] = c]
    /\ SyscallEntry
    /\ UNCHANGED reaperData
    /\ UNCHANGED <<pstatus, parent, pthreads, children, exitChildren,
                   waitingChild, waitingThread, exitCode, plock, tproc, child,
                   result, panic>>
-----------------------------------------------------------------------------
(* process_fork, by the thread t of the init process P.  create_process    *)
(* and fork_crt_thread build objects no other thread can see until the     *)
(* child is put in P's children_processes, so they are part of that step.  *)

\* add_child_process: yieldlock_lock(&parent->lock)
ForkLock(t) ==
    /\ PLockStep(t, Self(t), "pf_lock", "pf_put")
    /\ UNCHANGED reaperData
    /\ UNCHANGED <<pstatus, parent, pthreads, children, exitChildren,
                   waitingChild, waitingThread, exitCode, tproc, arg, child,
                   result, exitArg, panic>>

\* fork_crt_thread: the new TCB is a memcpy of the caller's, so it inherits
\* need_reschedule; ticks = 0; its kernel stack is a copy whose switch
\* frame enters syscall_fork_exit, which returns 0 to user mode with
\* interrupts enabled.
ForkCrtThread(t, nt) ==
    /\ needResched' = [needResched EXCEPT ![nt] = needResched[t]]
    /\ resumeIntr' = [resumeIntr EXCEPT ![nt] = TRUE]

\* create_process (lowest free pid), process->parent = parent_process,
\* hash_table_put(&parent->children_processes), unlock, fork_crt_thread,
\* add_process_thread, add_thread_to_schedule, return the pid.  The model
\* forks only while a pid and a thread are free (MaxPid is a model bound).
ForkPut(t) ==
    LET P     == Self(t)
        freeP == {p \in Procs : pstatus[p] = "UNUSED"}
        freeT == {u \in UserThreads : pc[u] = "unused"}
    IN  /\ crt = t /\ pc[t] = "pf_put"
        /\ LET c  == CHOOSE p \in freeP : \A q \in freeP : p <= q
               nt == CHOOSE u \in freeT : TRUE
           IN  /\ pstatus' = [pstatus EXCEPT ![c] = "PROCESS_NORMAL"]
               /\ parent' = [parent EXCEPT ![c] = P]
               /\ children' = [children EXCEPT ![P] = @ \cup {c}]
               /\ plock' = [plock EXCEPT ![P] = FALSE]
               /\ pthreads' = [pthreads EXCEPT ![c] = {nt}]
               /\ tproc' = [tproc EXCEPT ![nt] = c]
               /\ pc' = [pc EXCEPT ![t] = "u_run", ![nt] = "u_child"]
               /\ ForkCrtThread(t, nt)
               /\ AddThreadNodeToSchedule(nt)
               /\ UNCHANGED <<crt, ticks>>
        /\ UNCHANGED reaperData
        /\ UNCHANGED <<exitChildren, waitingChild, waitingThread, exitCode,
                       arg, child, result, exitArg, panic>>

ForkStep(t) == SysFork(t) \/ ForkLock(t) \/ ForkPut(t)
-----------------------------------------------------------------------------
(* process_wait(pid, &status) by the thread t of process P, arg[t] = pid.  *)

\* yieldlock_lock(&process->lock), first and after each wake-up.
WaitLock(t) ==
    /\ \/ PLockStep(t, Self(t), "pw_lock", "pw_check")
       \/ PLockStep(t, Self(t), "pw_relock", "pw_loop")
    /\ UNCHANGED reaperData
    /\ UNCHANGED <<pstatus, parent, pthreads, children, exitChildren,
                   waitingChild, waitingThread, exitCode, tproc, arg, child,
                   result, exitArg, panic>>

\* Faulty variant of WaitCheck: the failed wait returns the pid itself.
WaitCheckReturnsPid(t) ==
    LET P == Self(t) IN
    /\ crt = t /\ pc[t] = "pw_check"
    /\ child' = [child EXCEPT ![t] = NoProc]
    /\ IF arg[t] > 0 /\ arg[t] \notin children[P]
       THEN /\ plock' = [plock EXCEPT ![P] = FALSE]
            /\ result' = [result EXCEPT ![t] = arg[t]]
            /\ ReturnToUser(t)
            /\ UNCHANGED <<crt, ready, status, ticks, needResched, resumeIntr,
                           waitingChild>>
       ELSE /\ waitingChild' = [waitingChild EXCEPT ![P] =
                                   IF arg[t] > 0 THEN arg[t] ELSE P]
            /\ pc' = [pc EXCEPT ![t] = "pw_loop"]
            /\ UNCHANGED <<schedVars, plock, result>>
    /\ UNCHANGED reaperData
    /\ UNCHANGED <<pstatus, parent, pthreads, children, exitChildren,
                   waitingThread, exitCode, tproc, arg, exitArg, panic>>

\* A pid that is not in children_processes fails with -1; otherwise
\* waiting_child_pid = (pid > 0 ? pid : process->id).
WaitCheck(t) ==
    LET P == Self(t) IN
    /\ crt = t /\ pc[t] = "pw_check"
    /\ child' = [child EXCEPT ![t] = NoProc]
    /\ IF arg[t] > 0 /\ arg[t] \notin children[P]
       THEN /\ plock' = [plock EXCEPT ![P] = FALSE]
            /\ result' = [result EXCEPT ![t] = -1]
            /\ ReturnToUser(t)
            /\ UNCHANGED <<crt, ready, status, ticks, needResched, resumeIntr,
                           waitingChild>>
       ELSE /\ waitingChild' = [waitingChild EXCEPT ![P] =
                                   IF arg[t] > 0 THEN arg[t] ELSE P]
            /\ pc' = [pc EXCEPT ![t] = "pw_loop"]
            /\ UNCHANGED <<schedVars, plock, result>>
    /\ UNCHANGED reaperData
    /\ UNCHANGED <<pstatus, parent, pthreads, children, exitChildren,
                   waitingThread, exitCode, tproc, arg, exitArg, panic>>

\* One pass of the while loop: wait(0) takes any zombie (the hash table's
\* iteration order is not modelled: any one may come first); otherwise the
\* zombie named pid is removed if there.  Finding none,
\* process->waiting_thread_node = thread_node.
WaitLoop(t) ==
    LET P == Self(t)
        Z == exitChildren[P]
        found == IF arg[t] = 0 THEN Z ELSE Z \cap {arg[t]}
    IN  /\ crt = t /\ pc[t] = "pw_loop"
        /\ IF found # {}
           THEN \E c \in found :
                   /\ exitChildren' = [exitChildren EXCEPT ![P] = @ \ {c}]
                   /\ child' = [child EXCEPT ![t] = c]
                   /\ pc' = [pc EXCEPT ![t] = "pw_reap"]
                   /\ UNCHANGED waitingThread
           ELSE /\ waitingThread' = [waitingThread EXCEPT ![P] = t]
                /\ pc' = [pc EXCEPT ![t] = "pw_block"]
                /\ UNCHANGED <<exitChildren, child>>
        /\ UNCHANGED <<schedVars, reaperData>>
        /\ UNCHANGED <<pstatus, parent, pthreads, children, waitingChild,
                       exitCode, plock, tproc, arg, result, exitArg, panic>>

\* schedule_mark_thread_block()
WaitBlock(t) ==
    /\ Goto(t, "pw_block", "pw_unlock")
    /\ ScheduleMarkThreadBlock
    /\ UNCHANGED <<crt, ready, ticks, needResched, intr, resumeIntr>>
    /\ UNCHANGED reaperData
    /\ UNCHANGED procVars

\* yieldlock_unlock(&process->lock), in the loop (to pw_yield) and after
\* the child's exit code has been read (to pd_lock).
WaitUnlock(t, from, to) ==
    /\ Goto(t, from, to)
    /\ plock' = [plock EXCEPT ![Self(t)] = FALSE]
    /\ UNCHANGED <<schedVars, reaperData>>
    /\ UNCHANGED <<pstatus, parent, pthreads, children, exitChildren,
                   waitingChild, waitingThread, exitCode, tproc, arg, child,
                   result, exitArg, panic>>

\* schedule_thread_yield()
WaitYield(t) ==
    /\ Goto(t, "pw_yield", "pw_relock")
    /\ ScheduleThreadYield
    /\ UNCHANGED reaperData
    /\ UNCHANGED procVars

\* *status = child->exit_code
WaitReap(t) ==
    /\ Goto(t, "pw_reap", "pw_unlock2")
    /\ result' = [result EXCEPT ![t] = exitCode[child[t]]]
    /\ UNCHANGED <<schedVars, reaperData>>
    /\ UNCHANGED <<pstatus, parent, pthreads, children, exitChildren,
                   waitingChild, waitingThread, exitCode, plock, tproc, arg,
                   child, exitArg, panic>>

-----------------------------------------------------------------------------
(* add_dead_process(child), the end of process_wait: the same four         *)
(* statements as add_dead_task, on dead_processes.                         *)

DeadProcLock(t) ==
    /\ DeadLockStep(t, "pd_lock", "pd_append")
    /\ UNCHANGED <<cvQueue, deadTasks, deadProcs, recvTasks, recvProcs,
                   destroyed, destroyedProcs>>
    /\ UNCHANGED procVars

DeadProcAppend(t) ==
    /\ Goto(t, "pd_append", "pd_notify")
    /\ deadProcs' = Append(deadProcs, child[t])
    /\ UNCHANGED schedVars
    /\ UNCHANGED <<deadLock, cvQueue, deadTasks, recvTasks, recvProcs,
                   destroyed, destroyedProcs>>
    /\ UNCHANGED procVars

DeadProcNotify(t) ==
    /\ Goto(t, "pd_notify", "pd_unlock")
    /\ CondVarNotify
    /\ UNCHANGED <<deadLock, deadTasks, deadProcs, recvTasks, recvProcs,
                   destroyed, destroyedProcs>>
    /\ UNCHANGED procVars

\* yieldlock_unlock(&dead_resource_lock); process_wait returns 0 to user
\* mode.
DeadProcUnlock(t) ==
    /\ crt = t /\ pc[t] = "pd_unlock"
    /\ deadLock' = FALSE
    /\ ReturnToUser(t)
    /\ UNCHANGED <<crt, ready, status, ticks, needResched, resumeIntr>>
    /\ UNCHANGED <<cvQueue, deadTasks, deadProcs, recvTasks, recvProcs,
                   destroyed, destroyedProcs>>
    /\ UNCHANGED procVars

WaitStep(t) ==
    \/ SysWait(t) \/ WaitLock(t) \/ WaitCheck(t) \/ WaitLoop(t) \/ WaitBlock(t)
    \/ WaitUnlock(t, "pw_unlock", "pw_yield") \/ WaitYield(t) \/ WaitReap(t)
    \/ WaitUnlock(t, "pw_unlock2", "pd_lock")
    \/ DeadProcLock(t) \/ DeadProcAppend(t) \/ DeadProcNotify(t)
    \/ DeadProcUnlock(t)

-----------------------------------------------------------------------------
(* process_exit(arg[t]) by a thread t of process P.  A user process has a  *)
(* second thread only while process_exec retires its caller.  tproc[t]     *)
(* keeps naming P after                                                    *)
(* thread->process = nullptr, standing for the locals process and parent;  *)
(* the field itself is read again only by schedule_thread_exit, which then *)
(* skips remove_process_thread.                                            *)

\* yieldlock_lock(&process->lock)
ExitPLock(t) ==
    /\ PLockStep(t, Self(t), "px_lock", "px_check")
    /\ UNCHANGED reaperData
    /\ UNCHANGED <<pstatus, parent, pthreads, children, exitChildren,
                   waitingChild, waitingThread, exitCode, tproc, arg, child,
                   result, exitArg, panic>>

\* Faulty variant of ExitRelease: exit_code is not stored.
ExitReleaseNoCode(t) ==
    LET P == Self(t) IN
    /\ Goto(t, "px_check", "px_plock")
    /\ Cardinality(pthreads[P]) <= 1
    /\ pthreads' = [pthreads EXCEPT ![P] = @ \ {t}]
    /\ pstatus' = [pstatus EXCEPT ![P] = "PROCESS_EXIT"]
    /\ exitChildren' = [exitChildren EXCEPT ![P] = {}]
    /\ plock' = [plock EXCEPT ![P] = FALSE]
    /\ UNCHANGED <<schedVars, reaperData>>
    /\ UNCHANGED <<exitCode, parent, children, waitingChild, waitingThread, tproc, arg,
                   child, result, exitArg, panic>>

\* Otherwise hash_table_remove(&process->threads), exit_code, PROCESS_EXIT,
\* release_process_resources (clears threads, destroys
\* exit_children_processes), yieldlock_unlock(&process->lock).  P's lock
\* is only ever taken by P's own thread, so the unlock is folded in.
ExitRelease(t) ==
    LET P == Self(t) IN
    /\ Goto(t, "px_check", "px_plock")
    /\ Cardinality(pthreads[P]) <= 1
    /\ pthreads' = [pthreads EXCEPT ![P] = @ \ {t}]
    /\ exitCode' = [exitCode EXCEPT ![P] = arg[t]]
    /\ pstatus' = [pstatus EXCEPT ![P] = "PROCESS_EXIT"]
    /\ exitChildren' = [exitChildren EXCEPT ![P] = {}]
    /\ plock' = [plock EXCEPT ![P] = FALSE]
    /\ UNCHANGED <<schedVars, reaperData>>
    /\ UNCHANGED <<parent, children, waitingChild, waitingThread, tproc, arg,
                   child, result, exitArg, panic>>

\* if (process->threads.size > 1) { yieldlock_unlock(&process->lock);
\* return; }  exit() returns to _start, which returns into
\* schedule_thread_exit_normal: the thread_exit syscall.
ExitReturns(t) ==
    LET P == Self(t) IN
    /\ Goto(t, "px_check", "st_lock")
    /\ Cardinality(pthreads[P]) > 1
    /\ plock' = [plock EXCEPT ![P] = FALSE]
    /\ UNCHANGED <<schedVars, reaperData>>
    /\ UNCHANGED <<pstatus, parent, pthreads, children, exitChildren,
                   waitingChild, waitingThread, exitCode, tproc, arg, child,
                   result, exitArg, panic>>

\* yieldlock_lock(&parent->lock)
ExitParentLock(t) ==
    /\ PLockStep(t, parent[Self(t)], "px_plock", "px_put")
    /\ UNCHANGED reaperData
    /\ UNCHANGED <<pstatus, parent, pthreads, children, exitChildren,
                   waitingChild, waitingThread, exitCode, tproc, arg, child,
                   result, exitArg, panic>>

\* Faulty variants of ParentWaitsFor: only a wait for this pid, or only a
\* wait for any child, is honoured.
ParentWaitsForPidOnly(Q, P) == waitingChild[Q] = P
ParentWaitsForAnyOnly(Q, P) == waitingChild[Q] = Q

\* parent->waiting_child_pid == process->id
\*     || parent->waiting_child_pid == parent->id
ParentWaitsFor(Q, P) == waitingChild[Q] \in {P, Q}

\* hash_table_put(&parent->exit_children_processes); wake
\* parent->waiting_thread_node when waiting_child_pid is this pid or the
\* parent's own.  A NULL waiting_thread_node is dereferenced by
\* add_thread_node_to_schedule: the kernel faults (panic).
ExitPut(t) ==
    LET P  == Self(t)
        Q  == parent[P]
        w  == waitingThread[Q]
    IN  /\ Goto(t, "px_put", "px_punlock")
        /\ exitChildren' = [exitChildren EXCEPT ![Q] = @ \cup {P}]
        /\ IF ParentWaitsFor(Q, P)
           THEN IF w = NoThread
                THEN /\ panic' = TRUE
                     /\ UNCHANGED schedVars
                ELSE /\ AddThreadNodeToSchedule(w)
                     /\ UNCHANGED <<crt, ticks, needResched, resumeIntr, panic>>
           ELSE UNCHANGED <<schedVars, panic>>
        /\ UNCHANGED reaperData
        /\ UNCHANGED <<pstatus, parent, pthreads, children, waitingChild,
                       waitingThread, exitCode, plock, tproc, arg, child,
                       result, exitArg>>

\* yieldlock_unlock(&parent->lock); schedule_thread_exit() follows.
ExitParentUnlock(t) ==
    /\ Goto(t, "px_punlock", "px_exit")
    /\ plock' = [plock EXCEPT ![parent[Self(t)]] = FALSE]
    /\ UNCHANGED <<schedVars, reaperData>>
    /\ UNCHANGED <<pstatus, parent, pthreads, children, exitChildren,
                   waitingChild, waitingThread, exitCode, tproc, arg, child,
                   result, exitArg, panic>>

\* schedule_thread_exit, as in module Reaper, entered from px_exit.
ThreadExitStep(t) ==
    /\ \/ ExitMarkDead(t, "px_exit") \/ ExitLock(t) \/ ExitAppend(t)
       \/ ExitNotify(t) \/ ExitUnlock(t) \/ ExitSwitch(t)
    /\ UNCHANGED procVars

ExitStepP(t) ==
    \/ SysExit(t) \/ ExitPLock(t) \/ ExitRelease(t) \/ ExitReturns(t)
    \/ ExitParentLock(t)
    \/ ExitPut(t) \/ ExitParentUnlock(t) \/ ThreadExitStep(t)

-----------------------------------------------------------------------------
(* process_exec(program) by the thread t of a forked child P, and the      *)
(* retirement of t by schedule_thread_exit.  Until the new thread is       *)
(* queued, exec only changes state of P that no thread but t reads (P's    *)
(* threads table, the thread being built), so its statements are grouped   *)
(* in two steps, split where the outcome of load_elf is known.  From the   *)
(* queueing of the new thread on, the two threads of P run interleaved.    *)

\* Faulty variant of SysExec: the table is re-initialised but the caller
\* is not put back.
SysExecForgetsCaller(t) ==
    /\ crt = t /\ pc[t] = "u_child"
    /\ \/ /\ pc' = [pc EXCEPT ![t] = "u_failed"]
          /\ UNCHANGED <<schedVars, pthreads>>
       \/ /\ SpareThreads > 0
          /\ pc' = [pc EXCEPT ![t] = "pe_load"]
          /\ pthreads' = [pthreads EXCEPT ![Self(t)] = {}]
          /\ SyscallEntry
    /\ UNCHANGED reaperData
    /\ UNCHANGED <<pstatus, parent, children, exitChildren, waitingChild,
                   waitingThread, exitCode, plock, tproc, arg, child, result,
                   exitArg, panic>>

\* The child branch of shell.c calls exec(program).  stat_file or
\* read_file fails: exec returns -1 to user mode.  Otherwise the caller
\* is removed from the threads table (ASSERT), the table is destroyed,
\* then, under the process lock, re-initialised with the caller put back
\* and the stack bitmap cleared.
SysExec(t) ==
    /\ crt = t /\ pc[t] = "u_child"
    /\ \/ /\ pc' = [pc EXCEPT ![t] = "u_failed"]
          /\ UNCHANGED <<schedVars, pthreads>>
       \/ /\ SpareThreads > 0
          /\ pc' = [pc EXCEPT ![t] = "pe_load"]
          /\ pthreads' = [pthreads EXCEPT ![Self(t)] = {t}]
          /\ SyscallEntry
    /\ UNCHANGED reaperData
    /\ UNCHANGED <<pstatus, parent, children, exitChildren, waitingChild,
                   waitingThread, exitCode, plock, tproc, arg, child, result,
                   exitArg, panic>>

\* create_new_user_thread: init_thread; add_process_thread sets
\* thread->process and puts the thread in the process's threads table
\* under its lock; the stack slot is allocated under the lock (it never
\* fails: one slot is in use) and the user stack prepared.
CreateNewUserThread(P, nt) ==
    /\ tproc' = [tproc EXCEPT ![nt] = P]
    /\ pthreads' = [pthreads EXCEPT ![P] = @ \cup {nt}]

\* release_user_space_pages, then load_elf.  If it fails the process
\* exits with process_exit(-1).  Otherwise create_new_user_thread, then
\* add_thread_to_schedule queues the new thread; schedule_thread_exit()
\* follows.
ExecLoad(t) ==
    LET P  == Self(t)
        nt == CHOOSE u \in UserThreads : pc[u] = "unused"
    IN  /\ crt = t /\ pc[t] = "pe_load"
        /\ \/ /\ pc' = [pc EXCEPT ![t] = "px_lock"]
              /\ arg' = [arg EXCEPT ![t] = -1]
              /\ exitArg' = [exitArg EXCEPT ![P] = -1]
              /\ UNCHANGED <<schedVars, pthreads, tproc>>
           \/ /\ pc' = [pc EXCEPT ![t] = "st_lock", ![nt] = "u_run"]
              /\ CreateNewUserThread(P, nt)
              /\ AddThreadNodeToSchedule(nt)
              /\ UNCHANGED <<crt, ticks, needResched, resumeIntr, arg, exitArg>>
        /\ UNCHANGED reaperData
        /\ UNCHANGED <<pstatus, parent, children, exitChildren, waitingChild,
                       waitingThread, exitCode, plock, child, result, panic>>

\* schedule_thread_exit of a thread whose process is not NULL, reached by
\* exec's caller and by a thread whose exit() returned:
\* remove_process_thread takes the process lock (from st_lock), removes
\* the thread (ASSERT it was there), sets thread->process = nullptr,
\* frees its stack slot and unlocks; TASK_DEAD and add_dead_task follow
\* as in module Reaper.
RemoveLock(t) ==
    /\ PLockStep(t, Self(t), "st_lock", "st_remove")
    /\ UNCHANGED reaperData
    /\ UNCHANGED <<pstatus, parent, pthreads, children, exitChildren,
                   waitingChild, waitingThread, exitCode, tproc, arg, child,
                   result, exitArg, panic>>

RemoveProcessThread(t) ==
    LET P == Self(t) IN
    /\ Goto(t, "st_remove", "st_dead")
    /\ pthreads' = [pthreads EXCEPT ![P] = @ \ {t}]
    /\ tproc' = [tproc EXCEPT ![t] = NoProc]
    /\ plock' = [plock EXCEPT ![P] = FALSE]
    /\ UNCHANGED <<schedVars, reaperData>>
    /\ UNCHANGED <<pstatus, parent, children, exitChildren, waitingChild,
                   waitingThread, exitCode, arg, child, result, exitArg, panic>>

ExecStep(t) ==
    \/ SysExec(t) \/ ExecLoad(t) \/ RemoveLock(t) \/ RemoveProcessThread(t)
    \/ (ExitMarkDead(t, "st_dead") /\ UNCHANGED procVars)

-----------------------------------------------------------------------------
(* The system: kernel_main_thread has queued the clean thread, then the    *)
(* thread of the init process (pid 1), and enabled interrupts.  The other  *)
(* user threads and pids are not created yet.  After a kernel panic        *)
(* nothing runs any more.                                                  *)

ProcInit ==
    /\ crt = Main
    /\ ready = <<Clean, InitThread>>
    /\ status = [t \in Threads |-> "TASK_READY"]
    /\ ticks = [t \in Threads |-> 0]
    /\ needResched = [t \in Threads |-> FALSE]
    /\ intr = TRUE
    /\ resumeIntr = [t \in Threads |-> t # Clean]
    /\ pc = [t \in Threads \ {Main} |->
               CASE t = Clean      -> "c_lock"
                 [] t = InitThread -> "u_run"
                 [] OTHER          -> "unused"]
    /\ deadLock = FALSE
    /\ cvQueue = <<>>
    /\ deadTasks = <<>> /\ recvTasks = <<>>
    /\ deadProcs = <<>> /\ recvProcs = <<>>
    /\ destroyed = {} /\ destroyedProcs = {}
    /\ pstatus = [p \in Procs |-> IF p = InitPid THEN "PROCESS_NORMAL" ELSE "UNUSED"]
    /\ parent = [p \in Procs |-> NoProc]
    /\ pthreads = [p \in Procs |-> IF p = InitPid THEN {InitThread} ELSE {}]
    /\ children = [p \in Procs |-> {}]
    /\ exitChildren = [p \in Procs |-> {}]
    /\ waitingChild = [p \in Procs |-> 0]
    /\ waitingThread = [p \in Procs |-> NoThread]
    /\ exitCode = [p \in Procs |-> 0]
    /\ plock = [p \in Procs |-> FALSE]
    /\ tproc = [t \in Threads |-> IF t = InitThread THEN InitPid ELSE NoProc]
    /\ arg = [t \in Threads |-> 0]
    /\ child = [t \in Threads |-> NoProc]
    /\ result = [t \in Threads |-> 0]
    /\ exitArg = [p \in Procs |-> 0]
    /\ panic = FALSE

ProcNext ==
    /\ ~panic
    /\ \/ (Tick \/ CleanStep) /\ UNCHANGED procVars
       \/ \E t \in UserThreads :
             ForkStep(t) \/ WaitStep(t) \/ ExecStep(t) \/ ExitStepP(t)

ProcSpec == ProcInit /\ [][ProcNext]_vars

-----------------------------------------------------------------------------
(* Properties.                                                             *)

\* Spec section 8: wait(pid) returns the code the child passed to exit().
\* A thread past the reaping statement of process_wait holds, in *status,
\* exactly what its reaped child gave process_exit.
ReapedExitCode ==
    \A t \in UserThreads :
        child[t] # NoProc /\ pc[t] # "pw_reap" => result[t] = exitArg[child[t]]

\* No lost wake-up in process_wait / process_exit: a thread that blocked in
\* process_wait and was switched out, and is not queued, is not waiting
\* for a child that has already become a zombie.
NoLostWakeup ==
    \A t \in UserThreads :
        LET Z == exitChildren[Self(t)] IN
        /\ status[t] = "TASK_WAITING" /\ pc[t] = "pw_relock"
        /\ t # crt /\ ~Contains(ready, t)
        => IF arg[t] = 0 THEN Z = {} ELSE arg[t] \notin Z

\* Spec section 7: wait(pid) "validates that pid (if nonzero) names a live
\* or zombie child; otherwise fails".  A thread that passed the check in
\* process_wait waits for a child that is live or a zombie.
WaitTargetLiveOrZombie ==
    \A t \in UserThreads :
        pc[t] = "pw_loop" /\ arg[t] > 0 =>
            \/ pstatus[arg[t]] = "PROCESS_NORMAL"
            \/ arg[t] \in exitChildren[Self(t)]

\* process_exit never calls add_thread_node_to_schedule with a NULL
\* parent->waiting_thread_node.
NoKernelPanic == ~panic

\* A thread blocked in process_wait is never switched out while it still
\* holds its process lock (between schedule_mark_thread_block and
\* yieldlock_unlock): the exiting child needs that lock to wake it.
BlockedWaiterReleasedLock ==
    \A t \in UserThreads :
        status[t] = "TASK_WAITING" /\ t # crt => pc[t] # "pw_unlock"

\* The ASSERTs of remove_process_thread and process_exit: a thread that
\* removes itself from its process's threads table finds itself there.
\* process_exec empties the table without the lock and puts its caller
\* back; the caller and the thread it creates then leave it in either
\* order.
RemovedThreadRegistered ==
    \A t \in UserThreads :
        pc[t] = "st_remove" \/ (pc[t] = "px_check" /\ Cardinality(pthreads[Self(t)]) <= 1)
            => t \in pthreads[Self(t)]

\* Spec sections 2 and 7: a process becomes EXITED when its last thread
\* exits, and exec unconditionally retires its caller.  A process whose
\* program called exit() and that has no thread left is a zombie, so that
\* its parent's wait(pid) returns.
ExitedProgramLeavesZombie ==
    \A p \in Procs :
        exitArg[p] # 0 /\ pthreads[p] = {} => pstatus[p] = "PROCESS_EXIT"
=============================================================================
