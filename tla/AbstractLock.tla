--------------------------- MODULE AbstractLock ---------------------------
(***************************************************************************)
(* What a blocking mutual-exclusion lock promises, with no detail of how   *)
(* waiting is done: the lock has at most one holder, it is taken only when *)
(* free and given back only by its holder.  Module Mutex is shown to       *)
(* implement it through a mapping of its state to holder.                  *)
(***************************************************************************)
CONSTANTS
    Lockers,    \* the threads that use the lock
    NoHolder    \* the lock is free

VARIABLE holder

LockTypeOK == holder \in Lockers \cup {NoHolder}

LockInit == holder = NoHolder

Acquire(t) == holder = NoHolder /\ holder' = t

Release(t) == holder = t /\ holder' = NoHolder

LockNext == \E t \in Lockers : Acquire(t) \/ Release(t)

LockSpec == LockInit /\ [][LockNext]_holder
=============================================================================
