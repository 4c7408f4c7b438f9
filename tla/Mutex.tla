------------------------------ MODULE Mutex ------------------------------
(***************************************************************************)
(* The blocking lock of src/src/sync/mutex.c on the scheduler.  Kernel     *)
(* threads loop: mutex_lock, a critical section, mutex_unlock.  The mutex  *)
(* has no caller in the kernel yet; its callers here are kernel threads,   *)
(* which start with interrupts disabled.  They do not stay that way:       *)
(* mutex_unlock wakes a waiter through add_thread_node_to_schedule, which  *)
(* ends with enable_interrupt(), and from then on the timer may preempt    *)
(* the unlocking thread.                                                   *)
(*                                                                         *)
(* As in module Reaper, a step is one statement between two points where   *)
(* the timer may preempt, and yieldlock_lock(&mp->ydlock) is one step that *)
(* takes the lock or yields and retries.  mp->thread_node is only ever     *)
(* written (to NULL) and is left out.                                      *)
(***************************************************************************)
EXTENDS Scheduler

CONSTANT NoHolder   \* no thread holds the mutex

Lockers == Threads \ {Main}

VARIABLES
    pc,       \* the statement each locker executes next
    hold,     \* mp->hold
    ydlock,   \* mp->ydlock.hold
    waitQ     \* mp->waiting_task_queue

mutexVars == <<pc, hold, ydlock, waitQ>>
vars == <<schedVars, mutexVars>>

\* The statements between which a locker holds the mutex: from a
\* successful atomic_exchange in mutex_lock to mp->hold = LOCKED_NO in
\* mutex_unlock.
HoldPcs == {"ml_unlock_out", "cs", "mu_lock", "mu_release"}

Pcs == {"ml_lock", "ml_xchg", "ml_append", "ml_block", "ml_unlock_in",
        "ml_yield"} \cup HoldPcs \cup {"mu_wake", "mu_unlock"}

MutexTypeOK ==
    /\ SchedTypeOK
    /\ pc \in [Lockers -> Pcs]
    /\ hold \in BOOLEAN /\ ydlock \in BOOLEAN
    /\ waitQ \in Seq(Lockers)

\* The running locker t moves from statement from to statement to.
Step(t, from, to) ==
    /\ crt = t /\ pc[t] = from
    /\ pc' = [pc EXCEPT ![t] = to]

-----------------------------------------------------------------------------
(* mutex_lock and mutex_unlock.                                            *)

\* yieldlock_lock(&mp->ydlock) at statement from: take it and go on to
\* statement to, or schedule_thread_yield() and retry.
YdLock(t, from, to) ==
    /\ crt = t /\ pc[t] = from
    /\ IF ~ydlock
       THEN /\ ydlock' = TRUE
            /\ pc' = [pc EXCEPT ![t] = to]
            /\ UNCHANGED schedVars
       ELSE /\ ScheduleThreadYield
            /\ UNCHANGED <<ydlock, pc>>
    /\ UNCHANGED <<hold, waitQ>>

\* Faulty variant of MutexExchange: the old value of hold is not tested.
MutexExchangeIgnoresHold(t) ==
    /\ crt = t /\ pc[t] = "ml_xchg"
    /\ hold' = TRUE
    /\ pc' = [pc EXCEPT ![t] = "ml_unlock_out"]
    /\ UNCHANGED <<schedVars, ydlock, waitQ>>

\* while (atomic_exchange(&mp->hold, LOCKED_YES) != LOCKED_NO): leave the
\* loop with the mutex, or enter the body.
MutexExchange(t) ==
    /\ crt = t /\ pc[t] = "ml_xchg"
    /\ hold' = TRUE
    /\ pc' = [pc EXCEPT ![t] = IF hold THEN "ml_append" ELSE "ml_unlock_out"]
    /\ UNCHANGED <<schedVars, ydlock, waitQ>>

\* linked_list_append(&mp->waiting_task_queue, thread_node)
MutexAppend(t) ==
    /\ Step(t, "ml_append", "ml_block")
    /\ waitQ' = Append(waitQ, t)
    /\ UNCHANGED <<schedVars, hold, ydlock>>

\* schedule_mark_thread_block()
MutexBlock(t) ==
    /\ Step(t, "ml_block", "ml_unlock_in")
    /\ ScheduleMarkThreadBlock
    /\ UNCHANGED <<crt, ready, ticks, needResched, intr, resumeIntr>>
    /\ UNCHANGED <<hold, ydlock, waitQ>>

\* yieldlock_unlock(&mp->ydlock): in the wait loop, after it, and at the
\* end of mutex_unlock (back to the top of the thread's loop).
YdUnlock(t, from, to) ==
    /\ Step(t, from, to)
    /\ ydlock' = FALSE
    /\ UNCHANGED <<schedVars, hold, waitQ>>

\* schedule_thread_yield(), then back to yieldlock_lock at the loop top.
MutexYield(t) ==
    /\ Step(t, "ml_yield", "ml_lock")
    /\ ScheduleThreadYield
    /\ UNCHANGED <<hold, ydlock, waitQ>>

\* The critical section of the caller: it ends, or it gives up the CPU
\* (schedule_thread_yield, as a caller waiting on anything does) and
\* stays in it.
CriticalSection(t) ==
    /\ crt = t /\ pc[t] = "cs"
    /\ \/ pc' = [pc EXCEPT ![t] = "mu_lock"] /\ UNCHANGED schedVars
       \/ ScheduleThreadYield /\ UNCHANGED pc
    /\ UNCHANGED <<hold, ydlock, waitQ>>

\* mp->hold = LOCKED_NO; mp->thread_node = nullptr
MutexRelease(t) ==
    /\ Step(t, "mu_release", "mu_wake")
    /\ hold' = FALSE
    /\ UNCHANGED <<schedVars, ydlock, waitQ>>

\* Faulty variant of MutexWake: the head waiter is dequeued but never
\* handed to the scheduler.
MutexWakeDropsWaiter(t) ==
    /\ Step(t, "mu_wake", "mu_unlock")
    /\ IF waitQ # <<>>
       THEN waitQ' = Tail(waitQ)
       ELSE UNCHANGED waitQ
    /\ UNCHANGED <<schedVars, hold, ydlock>>

\* if (waiting_task_queue.size != 0): remove the head and
\* add_thread_node_to_schedule(head).
MutexWake(t) ==
    /\ Step(t, "mu_wake", "mu_unlock")
    /\ IF waitQ # <<>>
       THEN /\ waitQ' = Tail(waitQ)
            /\ AddThreadNodeToSchedule(Head(waitQ))
            /\ UNCHANGED <<crt, ticks, needResched, resumeIntr>>
       ELSE UNCHANGED <<waitQ, schedVars>>
    /\ UNCHANGED <<hold, ydlock>>

LockerStep(t) ==
    \/ YdLock(t, "ml_lock", "ml_xchg") \/ MutexExchange(t) \/ MutexAppend(t)
    \/ MutexBlock(t) \/ YdUnlock(t, "ml_unlock_in", "ml_yield")
    \/ MutexYield(t) \/ YdUnlock(t, "ml_unlock_out", "cs")
    \/ CriticalSection(t) \/ YdLock(t, "mu_lock", "mu_release")
    \/ MutexRelease(t) \/ MutexWake(t) \/ YdUnlock(t, "mu_unlock", "ml_lock")

-----------------------------------------------------------------------------
(* Kernel threads created by kernel_main_thread, queued in any order; the  *)
(* idle thread runs first with interrupts enabled.                         *)

MutexInit ==
    /\ crt = Main
    /\ ready \in SetToSeqs(Lockers)
    /\ status = [t \in Threads |-> "TASK_READY"]
    /\ ticks = [t \in Threads |-> 0]
    /\ needResched = [t \in Threads |-> FALSE]
    /\ intr = TRUE
    /\ resumeIntr = [t \in Threads |-> t = Main]
    /\ pc = [t \in Lockers |-> "ml_lock"]
    /\ hold = FALSE /\ ydlock = FALSE
    /\ waitQ = <<>>

MutexNext ==
    \/ TimerInterrupt /\ UNCHANGED mutexVars
    \/ \E t \in Lockers : LockerStep(t)

MutexSpec == MutexInit /\ [][MutexNext]_vars

-----------------------------------------------------------------------------
(* Properties.                                                             *)

\* The thread holding the mutex, if any.
Holder ==
    IF \E t \in Lockers : pc[t] \in HoldPcs
    THEN CHOOSE t \in Lockers : pc[t] \in HoldPcs
    ELSE NoHolder

\* mutex_lock/mutex_unlock implement an abstract lock: the holder changes
\* only by taking a free lock or by the holder releasing it.  Checked as
\* the property AbsLock!LockSpec under the mapping holder <- Holder.
AbsLock == INSTANCE AbstractLock WITH Lockers <- Lockers, holder <- Holder

MutexImplementsLock == AbsLock!LockSpec

\* A locker blocked in mutex_lock and switched out is still in the
\* mutex's waiting queue, so a later mutex_unlock can wake it: no waiter
\* is dropped between the dequeue in mutex_unlock and the ready queue.
NoLostWaiter ==
    \A t \in Lockers :
        status[t] = "TASK_WAITING" /\ t # crt =>
            Contains(waitQ, t) \/ Contains(ready, t)

\* A locker that marked itself blocked is never switched out while it
\* still holds mp->ydlock (between schedule_mark_thread_block and
\* yieldlock_unlock): mutex_unlock needs ydlock to wake it.
BlockedLockerReleasedYdlock ==
    \A t \in Lockers :
        status[t] = "TASK_WAITING" /\ t # crt => pc[t] # "ml_unlock_in"
=============================================================================
