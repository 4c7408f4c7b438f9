------------------------------ MODULE Keyboard ------------------------------
(***************************************************************************)
(* The keyboard driver of src/src/driver/keyboard.c on the scheduler.      *)
(* Reader threads loop on the read_char syscall (read_keyboard_char); the  *)
(* keyboard interrupt (keyboard_interrupt_handler) puts a scancode in the  *)
(* ring buffer and wakes every waiting reader to the head of the ready     *)
(* queue; other threads only compute.                                      *)
(*                                                                         *)
(* keyboard_lock is a spinlock, and SINGLE_PROCESSOR is defined            *)
(* (spinlock.h): taking it only raises preempt_count, and the irqsave form *)
(* also clears the interrupt flag and saves it in splock->interrupt_mask.  *)
(* Between spinlock_lock_irqsave and spinlock_unlock_irqrestore nothing    *)
(* can interleave, so a reader's pass from the lock to the unlock is one   *)
(* step.  The handler runs with interrupts disabled up to its first wake:  *)
(* add_thread_node_to_schedule_head ends with enable_interrupt(), so from  *)
(* then on the timer may interrupt the handler, and schedule() may switch  *)
(* the interrupted thread out with the handler's local list of waiters on  *)
(* its stack.  A thread's handler frame is irqPc/irqList; its own code     *)
(* runs only when it has none.                                             *)
(***************************************************************************)
EXTENDS Scheduler

CONSTANTS
    Readers,     \* threads that call read_char
    BufSize,     \* KEYBOARD_BUF_SIZE
    ScanCodes,   \* the scancodes the keyboard sends
    MakeCodes,   \* those process_scancode turns into a character
    MaxKeys      \* keystrokes in a behaviour

ASSUME Readers \subseteq Threads \ {Main} /\ MakeCodes \subseteq ScanCodes

NoCode == "none"   \* a buffer slot never written (memset to 0 by init_keyboard)

VARIABLES
    pc,        \* reader: "user", "rd_yield" or "rd_lock"
    kbBuf,     \* queue.buffer
    kbHead,    \* queue.head
    kbTail,    \* queue.tail
    kbSize,    \* queue.size
    kbMask,    \* keyboard_lock.interrupt_mask
    waiting,   \* waiting_tasks
    irqPc,     \* the keyboard handler frame of each thread: "none", "kb_wake", "kb_ret"
    irqList,   \* its local list waiting_tasks_get
    keys       \* keystrokes so far

kbVars == <<pc, kbBuf, kbHead, kbTail, kbSize, kbMask, waiting, irqPc, irqList, keys>>
vars == <<schedVars, kbVars>>

Slots == 0..(BufSize - 1)

KeyboardTypeOK ==
    /\ SchedTypeOK
    /\ pc \in [Readers -> {"user", "rd_yield", "rd_lock"}]
    /\ kbBuf \in [Slots -> ScanCodes \cup {NoCode}]
    /\ kbHead \in Slots /\ kbTail \in Slots /\ kbSize \in 0..BufSize
    /\ kbMask \in BOOLEAN
    /\ waiting \in Seq(Readers)
    /\ irqPc \in [Threads -> {"none", "kb_wake", "kb_ret"}]
    /\ irqList \in [Threads -> Seq(Readers)]
    /\ keys \in 0..MaxKeys

-----------------------------------------------------------------------------
(* The ring buffer.                                                        *)

\* next_index
NextIndex(i) == (i + 1) % BufSize

\* The i-th scancode from the head, i = 0 .. kbSize - 1.
Slot(i) == (kbHead + i) % BufSize

\* Faulty variant of Enqueue: the full test is off by one, so a scancode
\* is written over the oldest one.
EnqueueOverwrites(code) ==
    IF kbSize > BufSize
    THEN UNCHANGED <<kbBuf, kbTail, kbSize>>
    ELSE /\ kbBuf' = [kbBuf EXCEPT ![kbTail] = code]
         /\ kbTail' = NextIndex(kbTail)
         /\ kbSize' = kbSize + 1

\* enqueue: a full buffer drops the scancode.
Enqueue(code) ==
    IF kbSize = BufSize
    THEN UNCHANGED <<kbBuf, kbTail, kbSize>>
    ELSE /\ kbBuf' = [kbBuf EXCEPT ![kbTail] = code]
         /\ kbTail' = NextIndex(kbTail)
         /\ kbSize' = kbSize + 1

\* read_keyboard_char_impl: dequeue scancodes until one yields a
\* character, or the buffer is empty (-1).  The number dequeued.
Consumed ==
    LET makes == {i \in 0..(kbSize - 1) : kbBuf[Slot(i)] \in MakeCodes}
    IN  IF makes = {} THEN kbSize ELSE Min(makes) + 1

GotChar == \E i \in 0..(kbSize - 1) : kbBuf[Slot(i)] \in MakeCodes

ReadImpl ==
    /\ kbHead' = (kbHead + Consumed) % BufSize
    /\ kbSize' = kbSize - Consumed

-----------------------------------------------------------------------------
(* read_keyboard_char.                                                     *)

\* Faulty variant of FlagAtLock: the syscall enters through a trap gate,
\* which leaves the flag as user mode had it (set).
FlagAtLockTrapGate(t) == intr

\* The interrupt flag when reader t reaches spinlock_lock_irqsave: from
\* user mode the read_char syscall came in through syscall_entry's
\* interrupt gate, which cleared it; after the yield it is the flag the
\* reader was resumed with.
FlagAtLock(t) == pc[t] = "rd_lock" /\ intr

\* spinlock_lock_irqsave: interrupt_mask = the interrupt flag; the flag is
\* cleared (disable_preempt is undone by the unlock before any interrupt).
SpinlockLockIrqsave(t) == kbMask' = FlagAtLock(t)

\* spinlock_unlock_irqrestore: the flag is set again only if it was set
\* when the lock was taken.
SpinlockUnlockIrqrestore == intr' = kbMask'

\* Faulty variant of ReadTry: a reader that finds no character blocks
\* without putting itself on waiting_tasks.
ReadTryNoAppend(t) ==
    /\ crt = t /\ irqPc[t] = "none" /\ pc[t] \in {"user", "rd_lock"}
    /\ ReadImpl
    /\ SpinlockLockIrqsave(t)
    /\ IF GotChar
       THEN /\ pc' = [pc EXCEPT ![t] = "user"]
            /\ intr' = TRUE
            /\ UNCHANGED <<status, waiting>>
       ELSE /\ pc' = [pc EXCEPT ![t] = "rd_yield"]
            /\ ScheduleMarkThreadBlock
            /\ SpinlockUnlockIrqrestore
            /\ UNCHANGED waiting
    /\ UNCHANGED <<crt, ready, ticks, needResched, resumeIntr>>
    /\ UNCHANGED <<kbBuf, kbTail, irqPc, irqList, keys>>

\* From the syscall (pc "user") or after the yield (pc "rd_lock"):
\* spinlock_lock_irqsave saves the interrupt flag in interrupt_mask and
\* clears it (from user mode the gate has already cleared it); read_keyboard_char_impl.  With a character the reader
\* unlocks and returns to user mode (iret sets the flag).  Without one it
\* appends itself to waiting_tasks, schedule_mark_thread_block, and
\* spinlock_unlock_irqrestore sets the flag again only if it was set.
ReadTry(t) ==
    /\ crt = t /\ irqPc[t] = "none" /\ pc[t] \in {"user", "rd_lock"}
    /\ ReadImpl
    /\ SpinlockLockIrqsave(t)
    /\ IF GotChar
       THEN /\ pc' = [pc EXCEPT ![t] = "user"]
            /\ intr' = TRUE
            /\ UNCHANGED <<status, waiting>>
       ELSE /\ pc' = [pc EXCEPT ![t] = "rd_yield"]
            /\ waiting' = Append(waiting, t)
            /\ ScheduleMarkThreadBlock
            /\ SpinlockUnlockIrqrestore
    /\ UNCHANGED <<crt, ready, ticks, needResched, resumeIntr>>
    /\ UNCHANGED <<kbBuf, kbTail, irqPc, irqList, keys>>

\* schedule_thread_yield(), then back to spinlock_lock_irqsave.
ReadYield(t) ==
    /\ crt = t /\ irqPc[t] = "none" /\ pc[t] = "rd_yield"
    /\ ScheduleThreadYield
    /\ pc' = [pc EXCEPT ![t] = "rd_lock"]
    /\ UNCHANGED <<kbBuf, kbHead, kbTail, kbSize, kbMask, waiting, irqPc, irqList, keys>>

-----------------------------------------------------------------------------
(* keyboard_interrupt_handler, on the stack of the interrupted thread.     *)

\* The interrupt (IRQ1, interrupts enabled, no handler frame open on the
\* running thread): under keyboard_lock, enqueue the scancode and move
\* waiting_tasks to the local list.
KeyIrq(code) ==
    /\ intr /\ irqPc[crt] = "none" /\ keys < MaxKeys
    /\ Enqueue(code)
    /\ irqList' = [irqList EXCEPT ![crt] = waiting]
    /\ waiting' = <<>>
    /\ irqPc' = [irqPc EXCEPT ![crt] = IF waiting = <<>> THEN "kb_ret" ELSE "kb_wake"]
    /\ intr' = FALSE
    /\ keys' = keys + 1
    /\ UNCHANGED <<crt, ready, status, ticks, needResched, resumeIntr>>
    /\ UNCHANGED <<pc, kbHead, kbMask>>

\* One turn of the wake loop: linked_list_remove the head of the local list
\* and add_thread_node_to_schedule_head it (which enables interrupts).
KbWake(t) ==
    /\ crt = t /\ irqPc[t] = "kb_wake"
    /\ AddThreadNodeToScheduleHead(Head(irqList[t]))
    /\ irqList' = [irqList EXCEPT ![t] = Tail(@)]
    /\ irqPc' = [irqPc EXCEPT ![t] = IF Tail(irqList[t]) = <<>> THEN "kb_ret" ELSE "kb_wake"]
    /\ UNCHANGED <<crt, ticks, needResched, resumeIntr>>
    /\ UNCHANGED <<pc, kbBuf, kbHead, kbTail, kbSize, kbMask, waiting, keys>>

\* need_reschedule = true, and schedule() on the interrupt return path:
\* with a thread ready, switch (the interrupted thread resumes through
\* iret with interrupts enabled).
KbRet(t) ==
    /\ crt = t /\ irqPc[t] = "kb_ret"
    /\ irqPc' = [irqPc EXCEPT ![t] = "none"]
    /\ IF ready # <<>>
       THEN DoContextSwitchFrom(ready, TRUE)
       ELSE /\ needResched' = [needResched EXCEPT ![t] = TRUE]
            /\ intr' = TRUE
            /\ UNCHANGED <<crt, ready, status, ticks, resumeIntr>>
    /\ UNCHANGED <<pc, kbBuf, kbHead, kbTail, kbSize, kbMask, waiting, irqList, keys>>

-----------------------------------------------------------------------------

\* init_keyboard, and the threads as kernel_main_thread queues them: Main
\* runs first with interrupts enabled; readers start in user mode.
KeyboardInit ==
    /\ crt = Main
    /\ ready \in SetToSeqs(Threads \ {Main})
    /\ status = [t \in Threads |-> "TASK_READY"]
    /\ ticks = [t \in Threads |-> 0]
    /\ needResched = [t \in Threads |-> FALSE]
    /\ intr = TRUE
    /\ resumeIntr = [t \in Threads |-> TRUE]
    /\ pc = [t \in Readers |-> "user"]
    /\ kbBuf = [i \in Slots |-> NoCode]
    /\ kbHead = 0 /\ kbTail = 0 /\ kbSize = 0
    /\ kbMask = FALSE
    /\ waiting = <<>>
    /\ irqPc = [t \in Threads |-> "none"]
    /\ irqList = [t \in Threads |-> <<>>]
    /\ keys = 0

ReaderStep(t) == ReadTry(t) \/ ReadYield(t)

HandlerStep(t) == KbWake(t) \/ KbRet(t)

KeyboardNext ==
    \/ TimerInterrupt /\ UNCHANGED kbVars
    \/ \E c \in ScanCodes : KeyIrq(c)
    \/ \E t \in Readers : ReaderStep(t)
    \/ \E t \in Threads : HandlerStep(t)

\* The timer fires forever while interrupts are enabled, and the CPU goes
\* on executing the running thread (its own code or its handler frame).
KeyboardSpec ==
    /\ KeyboardInit /\ [][KeyboardNext]_vars
    /\ WF_vars(TimerInterrupt /\ UNCHANGED kbVars)
    /\ \A t \in Readers : WF_vars(ReaderStep(t))
    /\ \A t \in Threads : WF_vars(HandlerStep(t))

-----------------------------------------------------------------------------
(* Properties.                                                             *)

\* The scancodes in the ring buffer, oldest first.
BufferContents == [i \in 1..kbSize |-> kbBuf[Slot(i - 1)]]

\* The ring buffer of enqueue, dequeue and read_keyboard_char_impl is a
\* bounded FIFO: scancodes leave it in the order they came, a reader only
\* ever takes from the front, and nothing is put when it is full.
Fifo == INSTANCE KeyFifo WITH Cap <- BufSize, Codes <- ScanCodes, q <- BufferContents

KeyBufferIsFifo == Fifo!FifoSpec

\* A thread that is switched out, or marked blocked, in the middle of a
\* keyboard handler can be resumed: the handler's local list of woken
\* readers lives on its stack.  Every waiting reader is on waiting_tasks
\* or in the local list of a handler frame whose thread is running or
\* ready, so a keystroke can still wake it.
Resumable(u) == u = crt \/ Contains(ready, u)

NoLostReader ==
    \A t \in Readers :
        status[t] = "TASK_WAITING" /\ t # crt =>
            \/ Contains(waiting, t)
            \/ \E u \in Threads : Contains(irqList[u], t) /\ Resumable(u)
=============================================================================
