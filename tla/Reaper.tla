------------------------------ MODULE Reaper ------------------------------
(***************************************************************************)
(* Deferred reclamation in src/src/task/scheduler.c: an exiting thread     *)
(* (schedule_thread_exit) marks itself TASK_DEAD, queues itself on         *)
(* dead_tasks (add_dead_task) and switches away for good; the kernel clean *)
(* thread (kernel_clean_thread) waits on dead_resource_cv under            *)
(* dead_resource_lock, takes both dead lists and destroys what they hold.  *)
(* dead_processes is fed by process_wait (module Process) through          *)
(* add_dead_process, which takes the same steps as add_dead_task.          *)
(*                                                                         *)
(* Every step is one statement of the code between two points where the   *)
(* timer may preempt the running thread; the steps of a thread run only    *)
(* while it is crt.  cond_var_wait (src/src/sync/cond_var.c) is inlined    *)
(* into the clean thread, and yieldlock_lock (src/src/sync/yieldlock.c) is *)
(* one step that either takes the lock or yields and retries.              *)
(***************************************************************************)
EXTENDS Scheduler

CONSTANTS
    Clean,   \* the kernel clean thread (kernel_clean_node)
    Procs    \* PCBs that can be handed to add_dead_process

ExitThreads == Threads \ {Main, Clean}

VARIABLES
    pc,              \* the statement each thread executes next
    deadLock,        \* dead_resource_lock.hold
    cvQueue,         \* dead_resource_cv.waiting_task_queue
    deadTasks,       \* dead_tasks
    deadProcs,       \* dead_processes
    recvTasks,       \* dead_tasks_receiver, local to kernel_clean_thread
    recvProcs,       \* dead_processes_receiver
    destroyed,       \* threads freed by destroy_thread
    destroyedProcs   \* PCBs freed by destroy_process

reaperData == <<deadLock, cvQueue, deadTasks, deadProcs, recvTasks,
                recvProcs, destroyed, destroyedProcs>>
reaperVars == <<pc, reaperData>>

CleanPcs == {"c_lock", "c_test", "c_block", "c_unlock", "c_yield",
             "c_exit_wait", "c_move_tasks", "c_clear_tasks", "c_move_procs",
             "c_clear_procs", "c_unlock2", "c_destroy_tasks",
             "c_destroy_procs", "c_yield_end"}
ExitPcs  == {"w_run", "e_lock", "e_append", "e_notify", "e_unlock",
             "e_switch", "done"}

ReaperTypeOK ==
    /\ pc \in [Threads \ {Main} -> CleanPcs \cup ExitPcs]
    /\ deadLock \in BOOLEAN
    /\ cvQueue \in Seq(Threads)
    /\ deadTasks \in Seq(Threads) /\ recvTasks \in Seq(Threads)
    /\ deadProcs \in Seq(Procs) /\ recvProcs \in Seq(Procs)
    /\ destroyed \subseteq Threads /\ destroyedProcs \subseteq Procs

\* The running thread t moves from statement from to statement to.
Goto(t, from, to) ==
    /\ crt = t /\ pc[t] = from
    /\ pc' = [pc EXCEPT ![t] = to]

-----------------------------------------------------------------------------
(* The pieces of cond_var_notify and yieldlock_lock used by several steps. *)

\* Faulty variants of CondVarNotify: the woken waiter is left on the
\* queue, or nobody is woken.
CondVarNotifyKeepsHead ==
    IF cvQueue # <<>>
    THEN /\ AddThreadNodeToSchedule(Head(cvQueue))
         /\ UNCHANGED <<cvQueue, crt, ticks, needResched, resumeIntr>>
    ELSE UNCHANGED <<cvQueue, schedVars>>

CondVarNotifyNone == UNCHANGED <<cvQueue, schedVars>>

\* cond_var_notify(&dead_resource_cv): wake the head waiter, if any.
CondVarNotify ==
    IF cvQueue # <<>>
    THEN /\ cvQueue' = Tail(cvQueue)
         /\ AddThreadNodeToSchedule(Head(cvQueue))
         /\ UNCHANGED <<crt, ticks, needResched, resumeIntr>>
    ELSE UNCHANGED <<cvQueue, schedVars>>

\* yieldlock_lock(&dead_resource_lock) at statement from: take the lock
\* and go on to statement to, or yield and stay at from.
DeadLockStep(t, from, to) ==
    /\ crt = t /\ pc[t] = from
    /\ IF ~deadLock
       THEN /\ deadLock' = TRUE
            /\ pc' = [pc EXCEPT ![t] = to]
            /\ UNCHANGED schedVars
       ELSE /\ ScheduleThreadYield
            /\ UNCHANGED <<deadLock, pc>>

-----------------------------------------------------------------------------
(* schedule_thread_exit, run by an exiting thread t.  In this module t is  *)
(* a user thread calling the thread_exit syscall from user mode            *)
(* (statement w_run), where interrupts are enabled.                        *)

\* Faulty variant of ExitMarkDead: thread->status = TASK_DEAD is missing.
ExitMarkDeadKeepsStatus(t, from) ==
    /\ Goto(t, from, "e_lock")
    /\ UNCHANGED schedVars
    /\ UNCHANGED reaperData

\* thread->status = TASK_DEAD, the first statement of schedule_thread_exit
\* reached at statement from.  (The threads of module Process reach it with
\* thread->process already NULL, so remove_process_thread is skipped.)
ExitMarkDead(t, from) ==
    /\ Goto(t, from, "e_lock")
    /\ status' = [status EXCEPT ![t] = "TASK_DEAD"]
    /\ UNCHANGED <<crt, ready, ticks, needResched, intr, resumeIntr>>
    /\ UNCHANGED <<deadLock, cvQueue, deadTasks, deadProcs, recvTasks,
                   recvProcs, destroyed, destroyedProcs>>

\* add_dead_task: yieldlock_lock(&dead_resource_lock)
ExitLock(t) ==
    /\ DeadLockStep(t, "e_lock", "e_append")
    /\ UNCHANGED <<cvQueue, deadTasks, deadProcs, recvTasks, recvProcs,
                   destroyed, destroyedProcs>>

\* add_dead_task: linked_list_append_ele(&dead_tasks, thread)
ExitAppend(t) ==
    /\ Goto(t, "e_append", "e_notify")
    /\ deadTasks' = Append(deadTasks, t)
    /\ UNCHANGED schedVars
    /\ UNCHANGED <<deadLock, cvQueue, deadProcs, recvTasks, recvProcs,
                   destroyed, destroyedProcs>>

\* add_dead_task: cond_var_notify(&dead_resource_cv)
ExitNotify(t) ==
    /\ Goto(t, "e_notify", "e_unlock")
    /\ CondVarNotify
    /\ UNCHANGED <<deadLock, deadTasks, deadProcs, recvTasks, recvProcs,
                   destroyed, destroyedProcs>>

\* add_dead_task: yieldlock_unlock(&dead_resource_lock)
ExitUnlock(t) ==
    /\ Goto(t, "e_unlock", "e_switch")
    /\ deadLock' = FALSE
    /\ UNCHANGED schedVars
    /\ UNCHANGED <<cvQueue, deadTasks, deadProcs, recvTasks, recvProcs,
                   destroyed, destroyedProcs>>

\* disable_interrupt(); do_context_switch(): the thread never runs again.
ExitSwitch(t) ==
    /\ Goto(t, "e_switch", "done")
    /\ DoContextSwitchFrom(ready, FALSE)
    /\ UNCHANGED <<deadLock, cvQueue, deadTasks, deadProcs, recvTasks,
                   recvProcs, destroyed, destroyedProcs>>

-----------------------------------------------------------------------------
(* kernel_clean_thread, with cond_var_wait(&dead_resource_cv,              *)
(* &dead_resource_lock, has_dead_resource) inlined.                        *)

\* cond_var_wait: yieldlock_lock(lock), at the top of the wait loop.
CleanLock ==
    /\ DeadLockStep(Clean, "c_lock", "c_test")
    /\ UNCHANGED <<cvQueue, deadTasks, deadProcs, recvTasks, recvProcs,
                   destroyed, destroyedProcs>>

\* while (predicator() == false): has_dead_resource() leaves the loop,
\* otherwise linked_list_append(&cv->waiting_task_queue, crt node).
CleanTest ==
    /\ crt = Clean /\ pc[Clean] = "c_test"
    /\ IF deadTasks # <<>> \/ deadProcs # <<>>
       THEN /\ pc' = [pc EXCEPT ![Clean] = "c_exit_wait"]
            /\ UNCHANGED cvQueue
       ELSE /\ pc' = [pc EXCEPT ![Clean] = "c_block"]
            /\ cvQueue' = Append(cvQueue, Clean)
    /\ UNCHANGED schedVars
    /\ UNCHANGED <<deadLock, deadTasks, deadProcs, recvTasks, recvProcs,
                   destroyed, destroyedProcs>>

\* schedule_mark_thread_block()
CleanBlock ==
    /\ Goto(Clean, "c_block", "c_unlock")
    /\ ScheduleMarkThreadBlock
    /\ UNCHANGED <<crt, ready, ticks, needResched, intr, resumeIntr>>
    /\ UNCHANGED <<deadLock, cvQueue, deadTasks, deadProcs, recvTasks,
                   recvProcs, destroyed, destroyedProcs>>

\* yieldlock_unlock(lock) inside the wait loop, and the one after it.
CleanUnlock(from, to) ==
    /\ Goto(Clean, from, to)
    /\ deadLock' = FALSE
    /\ UNCHANGED schedVars
    /\ UNCHANGED <<cvQueue, deadTasks, deadProcs, recvTasks, recvProcs,
                   destroyed, destroyedProcs>>

\* schedule_thread_yield(), in the wait loop and at the end of the loop.
CleanYield(from) ==
    /\ Goto(Clean, from, "c_lock")
    /\ ScheduleThreadYield
    /\ UNCHANGED <<deadLock, cvQueue, deadTasks, deadProcs, recvTasks,
                   recvProcs, destroyed, destroyedProcs>>

\* linked_list_move(&dead_tasks_receiver, &dead_tasks) copies head, tail
\* and size, then linked_list_init(&dead_tasks): two statements.
CleanMoveTasks ==
    /\ Goto(Clean, "c_move_tasks", "c_clear_tasks")
    /\ recvTasks' = deadTasks
    /\ UNCHANGED schedVars
    /\ UNCHANGED <<deadLock, cvQueue, deadTasks, deadProcs, recvProcs,
                   destroyed, destroyedProcs>>

CleanClearTasks ==
    /\ Goto(Clean, "c_clear_tasks", "c_move_procs")
    /\ deadTasks' = <<>>
    /\ UNCHANGED schedVars
    /\ UNCHANGED <<deadLock, cvQueue, deadProcs, recvTasks, recvProcs,
                   destroyed, destroyedProcs>>

\* linked_list_move(&dead_processes_receiver, &dead_processes)
CleanMoveProcs ==
    /\ Goto(Clean, "c_move_procs", "c_clear_procs")
    /\ recvProcs' = deadProcs
    /\ UNCHANGED schedVars
    /\ UNCHANGED <<deadLock, cvQueue, deadTasks, deadProcs, recvTasks,
                   destroyed, destroyedProcs>>

CleanClearProcs ==
    /\ Goto(Clean, "c_clear_procs", "c_unlock2")
    /\ deadProcs' = <<>>
    /\ UNCHANGED schedVars
    /\ UNCHANGED <<deadLock, cvQueue, deadTasks, recvTasks, recvProcs,
                   destroyed, destroyedProcs>>

\* while (dead_tasks_receiver.size > 0): destroy_thread(head)
CleanDestroyTask ==
    /\ crt = Clean /\ pc[Clean] = "c_destroy_tasks"
    /\ IF recvTasks # <<>>
       THEN /\ destroyed' = destroyed \cup {Head(recvTasks)}
            /\ recvTasks' = Tail(recvTasks)
            /\ UNCHANGED pc
       ELSE /\ pc' = [pc EXCEPT ![Clean] = "c_destroy_procs"]
            /\ UNCHANGED <<destroyed, recvTasks>>
    /\ UNCHANGED schedVars
    /\ UNCHANGED <<deadLock, cvQueue, deadTasks, deadProcs, recvProcs,
                   destroyedProcs>>

\* while (dead_processes_receiver.size > 0): destroy_process(head)
CleanDestroyProc ==
    /\ crt = Clean /\ pc[Clean] = "c_destroy_procs"
    /\ IF recvProcs # <<>>
       THEN /\ destroyedProcs' = destroyedProcs \cup {Head(recvProcs)}
            /\ recvProcs' = Tail(recvProcs)
            /\ UNCHANGED pc
       ELSE /\ pc' = [pc EXCEPT ![Clean] = "c_yield_end"]
            /\ UNCHANGED <<destroyedProcs, recvProcs>>
    /\ UNCHANGED schedVars
    /\ UNCHANGED <<deadLock, cvQueue, deadTasks, deadProcs, recvTasks,
                   destroyed>>

CleanStep ==
    \/ CleanLock \/ CleanTest \/ CleanBlock
    \/ CleanUnlock("c_unlock", "c_yield") \/ CleanYield("c_yield")
    \/ CleanUnlock("c_exit_wait", "c_move_tasks")
    \/ CleanMoveTasks \/ CleanClearTasks \/ CleanMoveProcs \/ CleanClearProcs
    \/ CleanUnlock("c_unlock2", "c_destroy_tasks")
    \/ CleanDestroyTask \/ CleanDestroyProc \/ CleanYield("c_yield_end")

ExitStep(t) ==
    \/ ExitMarkDead(t, "w_run") \/ ExitLock(t) \/ ExitAppend(t) \/ ExitNotify(t)
    \/ ExitUnlock(t) \/ ExitSwitch(t)

\* A timer interrupt preempts whatever runs; no statement of the reaper's
\* own changes.
Tick ==
    /\ TimerInterrupt
    /\ UNCHANGED reaperVars
-----------------------------------------------------------------------------
(* The reaper with user threads that exit.  kernel_main_thread queues the  *)
(* clean thread first, then the others, and enables interrupts; a kernel   *)
(* thread starts with interrupts off, a user thread with them on.          *)

ReaperInit ==
    /\ crt = Main
    /\ ready \in {<<Clean>> \o s : s \in SetToSeqs(ExitThreads)}
    /\ status = [t \in Threads |-> "TASK_READY"]
    /\ ticks = [t \in Threads |-> 0]
    /\ needResched = [t \in Threads |-> FALSE]
    /\ intr = TRUE
    /\ resumeIntr = [t \in Threads |-> t # Clean]
    /\ pc = [t \in Threads \ {Main} |-> IF t = Clean THEN "c_lock" ELSE "w_run"]
    /\ deadLock = FALSE
    /\ cvQueue = <<>>
    /\ deadTasks = <<>> /\ recvTasks = <<>>
    /\ deadProcs = <<>> /\ recvProcs = <<>>
    /\ destroyed = {} /\ destroyedProcs = {}

ReaperNext ==
    \/ Tick
    \/ CleanStep
    \/ \E t \in ExitThreads : ExitStep(t)

allVars == <<schedVars, reaperVars>>

ReaperSpec == ReaperInit /\ [][ReaperNext]_allVars

-----------------------------------------------------------------------------
(* Properties.                                                             *)

\* An exiting thread's final do_context_switch always finds a thread in the
\* ready queue: schedule_thread_exit, unlike schedule_thread_yield, does not
\* fall back to Main, so this relies on add_dead_task having woken the clean
\* thread, or on it being queued already.
ExitSwitchHasSuccessor ==
    \A t \in ExitThreads : crt = t /\ pc[t] = "e_switch" => ready # <<>>

\* destroy_thread never frees a TCB that the CPU, the ready queue or the
\* condition variable's queue still refers to.
NoUseAfterFree ==
    destroyed \cap ({crt} \cup ToSet(ready) \cup ToSet(cvQueue)) = {}

\* A thread that has marked itself TASK_DEAD and been switched out is on a
\* dead list or already destroyed: nothing it owns is leaked.
DeadThreadQueuedForReclaim ==
    \A t \in ExitThreads :
        status[t] = "TASK_DEAD" /\ crt # t =>
            t \in ToSet(deadTasks) \cup ToSet(recvTasks) \cup destroyed

\* dead_resource_lock is never left held by a thread that will not run
\* again (a TASK_DEAD thread off the CPU between its lock and unlock).
DeadLockNotOrphaned ==
    \A t \in ExitThreads :
        status[t] = "TASK_DEAD" /\ crt # t => pc[t] \notin {"e_append", "e_notify", "e_unlock"}
=============================================================================
