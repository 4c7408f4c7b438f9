----------------------------- MODULE Scheduler -----------------------------
(***************************************************************************)
(* The scheduler of src/src/task/scheduler.c on its single CPU: the ready  *)
(* queue (ready_tasks), the running thread (crt_thread_node), and the      *)
(* fields of each TCB it reads and writes (status, ticks,                  *)
(* need_reschedule).  Main is the kernel main thread, the idle thread that *)
(* runs when nothing else can (main_thread_node).                          *)
(*                                                                         *)
(* The operations are written as actions on these variables so that the    *)
(* modules of the components built on the scheduler (Reaper, Mutex,        *)
(* Process) can EXTEND this one and take them as parts of their own        *)
(* steps.  The specification at the end is the scheduler on its own: user  *)
(* threads that only compute and are preempted by the timer.               *)
(***************************************************************************)
EXTENDS Naturals, Sequences, SequencesExt, FiniteSets

CONSTANTS
    Threads,    \* every thread the model creates, Main included
    Main,       \* the kernel main (idle) thread
    Priority    \* THREAD_DEFAULT_PRIORITY: the timeslice, in timer ticks

ASSUME Main \in Threads /\ Priority \in Nat \ {0}

VARIABLES
    crt,          \* crt_thread_node: the thread on the CPU
    ready,        \* ready_tasks: the ready queue, head first
    status,       \* tcb_t.status
    ticks,        \* tcb_t.ticks, saturated at Priority (only ticks >= priority is ever read)
    needResched,  \* tcb_t.need_reschedule
    intr,         \* the CPU's interrupt flag (EFLAGS.IF)
    resumeIntr    \* the interrupt flag a thread runs with when it is switched back in

(***************************************************************************)
(* context_switch saves no EFLAGS (switch_stack_t has no slot for it), so  *)
(* a thread switched out by a voluntary yield resumes with interrupts      *)
(* still disabled by the caller of do_context_switch, while one switched   *)
(* out inside an interrupt resumes through iret with IF restored to 1.     *)
(* resumeIntr records which of the two a thread will see.                  *)
(***************************************************************************)

schedVars == <<crt, ready, status, ticks, needResched, intr, resumeIntr>>

Status == {"TASK_RUNNING", "TASK_READY", "TASK_WAITING", "TASK_DEAD"}

SchedTypeOK ==
    /\ crt \in Threads
    /\ ready \in Seq(Threads)
    /\ status \in [Threads -> Status]
    /\ ticks \in [Threads -> 0..Priority]
    /\ needResched \in [Threads -> BOOLEAN]
    /\ intr \in BOOLEAN
    /\ resumeIntr \in [Threads -> BOOLEAN]

-----------------------------------------------------------------------------
(* Ready-queue list operations of src/src/utils/linked_list.c.             *)

\* linked_list_insert_to_head calls linked_list_insert(this, this->head, n),
\* which inserts n AFTER the current head node, not before it.
LinkedListInsertToHead(q, t) ==
    IF q = <<>> THEN <<t>> ELSE <<Head(q), t>> \o Tail(q)

-----------------------------------------------------------------------------
(* Scheduler operations.  Each one is an action on schedVars only.         *)

\* Faulty variant of DoContextSwitchFrom: the outgoing thread is put back
\* at the head of the queue instead of the tail.
DoContextSwitchRequeueHead(q, outIntr) ==
    LET next    == Head(q)
        requeue == status[crt] = "TASK_RUNNING" /\ crt # Main
    IN  /\ q # <<>>
        /\ resumeIntr' = [resumeIntr EXCEPT ![crt] = outIntr]
        /\ intr' = IF next = crt THEN outIntr ELSE resumeIntr[next]
        /\ ready' = IF requeue THEN <<crt>> \o Tail(q) ELSE Tail(q)
        /\ status' = [status EXCEPT ![crt] = IF requeue THEN "TASK_READY" ELSE @,
                                    ![next] = "TASK_RUNNING"]
        /\ ticks' = [ticks EXCEPT ![crt] = 0]
        /\ needResched' = [needResched EXCEPT ![crt] = FALSE]
        /\ crt' = next

\* Faulty variant of DoContextSwitchFrom: the outgoing thread is put back
\* on the ready queue whatever its status (a TASK_DEAD or TASK_WAITING
\* thread included).
DoContextSwitchRequeueAll(q, outIntr) ==
    LET next    == Head(q)
        requeue == crt # Main
    IN  /\ q # <<>>
        /\ resumeIntr' = [resumeIntr EXCEPT ![crt] = outIntr]
        /\ intr' = IF next = crt THEN outIntr ELSE resumeIntr[next]
        /\ ready' = IF requeue THEN Append(Tail(q), crt) ELSE Tail(q)
        /\ status' = [status EXCEPT ![crt] = IF requeue THEN "TASK_READY" ELSE @,
                                    ![next] = "TASK_RUNNING"]
        /\ ticks' = [ticks EXCEPT ![crt] = 0]
        /\ needResched' = [needResched EXCEPT ![crt] = FALSE]
        /\ crt' = next

\* do_context_switch: the head of queue q runs next; the outgoing thread is
\* put back at the tail only when it is still TASK_RUNNING and not Main.
\* q must be non-empty: the code dereferences ready_tasks.head unchecked.
\* outIntr is the interrupt flag the outgoing thread will resume with.
DoContextSwitchFrom(q, outIntr) ==
    LET next    == Head(q)
        requeue == status[crt] = "TASK_RUNNING" /\ crt # Main
    IN  /\ q # <<>>
        /\ resumeIntr' = [resumeIntr EXCEPT ![crt] = outIntr]
        /\ intr' = IF next = crt THEN outIntr ELSE resumeIntr[next]
        /\ ready' = IF requeue THEN Append(Tail(q), crt) ELSE Tail(q)
        /\ status' = [status EXCEPT ![crt] = IF requeue THEN "TASK_READY" ELSE @,
                                    ![next] = "TASK_RUNNING"]
        /\ ticks' = [ticks EXCEPT ![crt] = 0]
        /\ needResched' = [needResched EXCEPT ![crt] = FALSE]
        /\ crt' = next

\* timer_callback: crt_thread->ticks++, and need_reschedule once the
\* timeslice (priority) is used up.
TimerTicks == IF ticks[crt] < Priority THEN ticks[crt] + 1 ELSE Priority

TimerNeedResched == needResched[crt] \/ TimerTicks >= Priority

\* schedule() on the interrupt return path: switch
\* only when a thread is ready and the running one has need_reschedule set,
\* otherwise enable interrupts and return.  (preempt_count is 0 at every
\* interrupt the model takes: no spinlock is held with interrupts enabled.)
\* The preempted thread resumes through iret, with interrupts enabled.
TimerInterrupt ==
    /\ intr
    /\ IF ready # <<>> /\ TimerNeedResched
       THEN DoContextSwitchFrom(ready, TRUE)
       ELSE /\ ticks' = [ticks EXCEPT ![crt] = TimerTicks]
            /\ needResched' = [needResched EXCEPT ![crt] = TimerNeedResched]
            /\ UNCHANGED <<crt, ready, status, intr, resumeIntr>>

\* schedule_thread_yield: with an empty ready queue the idle thread is
\* queued first, then the switch is forced.
\* It runs with interrupts disabled, so the caller resumes with them off.
ScheduleThreadYield ==
    DoContextSwitchFrom(IF ready = <<>> THEN <<Main>> ELSE ready, FALSE)

\* add_thread_node_to_schedule: a DEAD thread keeps its status; it ends
\* with enable_interrupt().
AddThreadNodeToSchedule(t) ==
    /\ ready' = Append(ready, t)
    /\ status' = [status EXCEPT ![t] = IF @ = "TASK_DEAD" THEN @ ELSE "TASK_READY"]
    /\ intr' = TRUE

\* add_thread_node_to_schedule_head (used by the keyboard interrupt).
AddThreadNodeToScheduleHead(t) ==
    /\ ready' = LinkedListInsertToHead(ready, t)
    /\ status' = [status EXCEPT ![t] = "TASK_READY"]
    /\ intr' = TRUE

\* schedule_mark_thread_block
ScheduleMarkThreadBlock ==
    status' = [status EXCEPT ![crt] = "TASK_WAITING"]

-----------------------------------------------------------------------------
(* The scheduler on its own: user threads that only compute, preempted by  *)
(* the timer.  They are created READY and queued in creation order by      *)
(* kernel_main_thread; Main runs first (init_scheduler jumps to it without *)
(* setting its status) and enables interrupts.  A user thread resumes      *)
(* with interrupts enabled (it returns to user mode by iret).              *)

Workers == Threads \ {Main}

SchedInit ==
    /\ crt = Main
    /\ ready \in SetToSeqs(Workers)
    /\ status = [t \in Threads |-> "TASK_READY"]
    /\ ticks = [t \in Threads |-> 0]
    /\ needResched = [t \in Threads |-> FALSE]
    /\ intr = TRUE
    /\ resumeIntr = [t \in Threads |-> TRUE]

SchedNext == TimerInterrupt

\* The timer fires forever while interrupts are enabled.
SchedSpec == SchedInit /\ [][SchedNext]_schedVars /\ WF_schedVars(TimerInterrupt)

-----------------------------------------------------------------------------
(* Properties.                                                             *)

\* A TCB's list node is in the ready queue at most once: linked_list_append
\* of a node that is already linked corrupts ready_tasks.
ReadyNoDuplicate == IsInjective(ready)

\* No thread is lost or duplicated by a context switch: every worker is
\* either on the CPU or queued exactly once (do_context_switch re-queues the
\* outgoing thread).
WorkersConserved ==
    \A t \in Workers : (t = crt) # Contains(ready, t)

\* Round robin: a queued thread is eventually given the CPU, because the
\* timer makes every running thread give way after Priority ticks and the
\* outgoing thread goes to the tail.
ReadyEventuallyRuns ==
    \A t \in Workers : Contains(ready, t) ~> crt = t

\* Spec section 3: "at most one thread is ever in the RUNNING state".
AtMostOneRunning ==
    \A s, t \in Threads :
        status[s] = "TASK_RUNNING" /\ status[t] = "TASK_RUNNING" => s = t
=============================================================================
