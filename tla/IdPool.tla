------------------------------- MODULE IdPool -------------------------------
(***************************************************************************)
(* The thread id pool: id_pool_t of src/src/utils/id_pool.c over the       *)
(* bitmap_t of src/src/utils/bitmap.c, as thread.c uses it.  Creator       *)
(* threads (create_thread, fork_crt_thread) call id_pool_allocate_id in    *)
(* kernel mode with interrupts enabled, so the timer may switch between    *)
(* any two of their statements; the pool's yieldlock orders the creators.  *)
(* A created thread that exits is queued for the clean thread, whose       *)
(* destroy_thread calls id_pool_free_id without taking the lock; the clean *)
(* thread runs with interrupts off, so its bitmap_clear_bit is one step.   *)
(*                                                                         *)
(* A bitmap word is the set of its bits that are 1.  `array[idx] |= mask`  *)
(* in bitmap_set_bit races with the unlocked clear; depending on the build *)
(* it is one instruction or a load and a store (SplitRmw).  expand() ends  *)
(* without a return statement on success; what it returns is whatever the *)
(* register holds, a nondeterministic choice here.                         *)
(***************************************************************************)
EXTENDS Integers, FiniteSets

CONSTANTS
    Creators,     \* threads that create threads
    WordBits,     \* bits per bitmap word (32 in the code)
    InitSize,     \* id_pool_init(size): bits at the start
    MaxSize,      \* id_pool_init(max_size)
    SplitRmw,     \* TRUE if |= compiles to a load and a separate store
    NoId, NoHolder

Ids == 0..(MaxSize - 1)
Words == 0..(MaxSize \div WordBits - 1)

Pcs == {"idle", "a_lock", "a_find", "a_store", "a_unlock", "a_expand",
        "a_switch", "a_find2", "a_store2", "live", "failed"}

VARIABLES
    array,     \* the bitmap words; only the first size / WordBits are in use
    size,      \* this->size (and id_map.total_bits)
    lock,      \* the pool's yieldlock: its holder
    pc,        \* per creator
    pick,      \* *id, as bitmap_find_first_free set it
    tmp,       \* the word a split |= loaded
    snap,      \* the words bitmap_expand copied into its new array
    held,      \* the id of the thread each creator created, while it lives
    dead       \* ids of exited threads not yet destroyed by the clean thread

poolVars == <<array, size, lock, pc, pick, tmp, snap, held, dead>>

IdPoolTypeOK ==
    /\ array \in [Words -> SUBSET (0..WordBits - 1)]
    /\ size \in {InitSize, MaxSize} \cup {InitSize * k : k \in 1..MaxSize}
    /\ lock \in Creators \cup {NoHolder}
    /\ pc \in [Creators -> Pcs]
    /\ pick \in [Creators -> Ids \cup {NoId}]
    /\ tmp \in [Creators -> SUBSET (0..WordBits - 1)]
    /\ snap \in [Creators -> [Words -> SUBSET (0..WordBits - 1)]]
    /\ held \in [Creators -> Ids \cup {NoId}]
    /\ dead \subseteq Ids

Idx(b) == b \div WordBits     \* INDEX_FROM_BIT
Off(b) == b % WordBits        \* OFFSET_FROM_BIT

IsSet(b) == Off(b) \in array[Idx(b)]

\* bitmap_find_first_free: the first bit of the first word that is not
\* all ones, over the array_size words in use; NoId if there is none.
FirstFree ==
    LET free == {b \in 0..(size - 1) : ~IsSet(b)}
    IN  IF free = {} THEN NoId ELSE CHOOSE b \in free : \A c \in free : b <= c

Goto(c, from, to) == pc[c] = from /\ pc' = [pc EXCEPT ![c] = to]

\* bitmap_set_bit(*id): in one step, or the load of a split |=.
SetBit(c, b, from, store, next) ==
    IF SplitRmw
    THEN /\ Goto(c, from, store)
         /\ tmp' = [tmp EXCEPT ![c] = array[Idx(b)]]
         /\ UNCHANGED array
    ELSE /\ Goto(c, from, next)
         /\ array' = [array EXCEPT ![Idx(b)] = @ \cup {Off(b)}]
         /\ UNCHANGED tmp

-----------------------------------------------------------------------------
(* id_pool_allocate_id, called by creator c.                               *)

\* create_thread: uint32 id; id_pool_allocate_id(&thread_id_pool, &id).
StartCreate(c) ==
    /\ Goto(c, "idle", "a_lock")
    /\ UNCHANGED <<array, size, lock, pick, tmp, snap, held, dead>>

\* yieldlock_lock: atomic_exchange succeeds when the lock is free (a
\* creator that finds it held yields and tries again).
Lock(c) ==
    /\ lock = NoHolder
    /\ Goto(c, "a_lock", "a_find")
    /\ lock' = c
    /\ UNCHANGED <<array, size, pick, tmp, snap, held, dead>>

\* bitmap_allocate_first_free under the lock.  If no bit is free: a full
\* pool unlocks and returns -1, which the bool result turns into true,
\* and the caller uses its uninitialised id (any value); otherwise expand.
Find(c) ==
    \/ /\ FirstFree # NoId
       /\ pick' = [pick EXCEPT ![c] = FirstFree]
       /\ SetBit(c, FirstFree, "a_find", "a_store", "a_unlock")
       /\ UNCHANGED <<size, lock, snap, held, dead>>
    \/ /\ FirstFree = NoId /\ size = MaxSize
       /\ Goto(c, "a_find", "live")
       /\ lock' = NoHolder
       /\ \E garbage \in Ids : held' = [held EXCEPT ![c] = garbage]
       /\ UNCHANGED <<array, size, pick, tmp, snap, dead>>
    \/ /\ FirstFree = NoId /\ size < MaxSize
       /\ Goto(c, "a_find", "a_expand")
       /\ UNCHANGED <<array, size, lock, pick, tmp, snap, held, dead>>

\* The store of a split |= under the lock: the word as loaded, plus the bit.
Store(c) ==
    /\ Goto(c, "a_store", "a_unlock")
    /\ array' = [array EXCEPT ![Idx(pick[c])] = tmp[c] \cup {Off(pick[c])}]
    /\ UNCHANGED <<size, lock, pick, tmp, snap, held, dead>>

\* yieldlock_unlock; return true: the created thread has the id.
Unlock(c) ==
    /\ Goto(c, "a_unlock", "live")
    /\ lock' = NoHolder
    /\ held' = [held EXCEPT ![c] = pick[c]]
    /\ UNCHANGED <<array, size, pick, tmp, snap, dead>>

\* expand -> bitmap_expand(new_size): kmalloc a new array and copy the
\* words in use into it.
ExpandCopy(c) ==
    /\ Goto(c, "a_expand", "a_switch")
    /\ snap' = [snap EXCEPT ![c] =
                  [w \in Words |-> IF w < size \div WordBits THEN array[w] ELSE {}]]
    /\ UNCHANGED <<array, size, lock, pick, tmp, held, dead>>

\* kfree(this->array); this->array = array; this->size = new_size, and
\* expand's missing return.  false: allocate returns false with the lock
\* still held.  true: unlock, then allocate without the lock.
ExpandSwitch(c) ==
    /\ array' = snap[c]
    /\ size' = IF size + InitSize < MaxSize THEN size + InitSize ELSE MaxSize
    /\ \/ Goto(c, "a_switch", "failed") /\ UNCHANGED lock
       \/ Goto(c, "a_switch", "a_find2") /\ lock' = NoHolder
    /\ UNCHANGED <<pick, tmp, snap, held, dead>>

\* return bitmap_allocate_first_free(&this->id_map, id), unlocked.
Find2(c) ==
    \/ /\ FirstFree # NoId
       /\ pick' = [pick EXCEPT ![c] = FirstFree]
       /\ IF SplitRmw
          THEN Goto(c, "a_find2", "a_store2") /\ tmp' = [tmp EXCEPT ![c] = array[Idx(FirstFree)]]
               /\ UNCHANGED <<array, held>>
          ELSE Goto(c, "a_find2", "live") /\ held' = [held EXCEPT ![c] = FirstFree]
               /\ array' = [array EXCEPT ![Idx(FirstFree)] = @ \cup {Off(FirstFree)}]
               /\ UNCHANGED tmp
       /\ UNCHANGED <<size, lock, snap, dead>>
    \/ /\ FirstFree = NoId
       /\ Goto(c, "a_find2", "failed")
       /\ UNCHANGED <<array, size, lock, pick, tmp, snap, held, dead>>

Store2(c) ==
    /\ Goto(c, "a_store2", "live")
    /\ array' = [array EXCEPT ![Idx(pick[c])] = tmp[c] \cup {Off(pick[c])}]
    /\ held' = [held EXCEPT ![c] = pick[c]]
    /\ UNCHANGED <<size, lock, pick, tmp, snap, dead>>

\* create_thread returned nullptr; the creator may try again later.
Retry(c) ==
    /\ Goto(c, "failed", "idle")
    /\ UNCHANGED <<array, size, lock, pick, tmp, snap, held, dead>>

-----------------------------------------------------------------------------

\* The created thread exits: add_dead_task queues it for the clean thread.
ThreadExit(c) ==
    /\ Goto(c, "live", "idle")
    /\ held[c] # NoId
    /\ dead' = dead \cup {held[c]}
    /\ held' = [held EXCEPT ![c] = NoId]
    /\ UNCHANGED <<array, size, lock, pick, tmp, snap>>

\* kernel_clean_thread: destroy_thread -> id_pool_free_id ->
\* bitmap_clear_bit, without the pool lock.
DestroyThread ==
    \E id \in dead :
        /\ array' = [array EXCEPT ![Idx(id)] = @ \ {Off(id)}]
        /\ dead' = dead \ {id}
        /\ UNCHANGED <<size, lock, pc, pick, tmp, snap, held>>

-----------------------------------------------------------------------------

\* id_pool_init(&thread_id_pool, size, max_size): all bits clear.
IdPoolInit ==
    /\ array = [w \in Words |-> {}]
    /\ size = InitSize
    /\ lock = NoHolder
    /\ pc = [c \in Creators |-> "idle"]
    /\ pick = [c \in Creators |-> NoId]
    /\ tmp = [c \in Creators |-> {}]
    /\ snap = [c \in Creators |-> [w \in Words |-> {}]]
    /\ held = [c \in Creators |-> NoId]
    /\ dead = {}

IdPoolNext ==
    \/ \E c \in Creators :
          \/ StartCreate(c) \/ Lock(c) \/ Find(c) \/ Store(c) \/ Unlock(c)
          \/ ExpandCopy(c) \/ ExpandSwitch(c) \/ Find2(c) \/ Store2(c)
          \/ Retry(c) \/ ThreadExit(c)
    \/ DestroyThread

IdPoolSpec == IdPoolInit /\ [][IdPoolNext]_poolVars

-----------------------------------------------------------------------------
(* Properties.                                                             *)

\* An id whose bit is set belongs to a living thread, to a dead thread not
\* yet destroyed, or to an allocation under way: a thread id freed by the
\* clean thread's destroy_thread is never lost for good, however the free
\* interleaves with a creator's id_pool_allocate_id.
IdPoolNoLeak ==
    \A b \in 0..(size - 1) :
        IsSet(b) =>
            \/ b \in dead
            \/ \E c \in Creators : held[c] = b
            \/ \E c \in Creators :
                  pc[c] \in {"a_store", "a_unlock", "a_store2"} /\ pick[c] = b
=============================================================================
