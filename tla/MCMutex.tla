------------------------------ MODULE MCMutex ------------------------------
(* Mutex with the idle thread and three kernel threads contending.         *)
EXTENDS Mutex

MCThreads == {"main", "k1", "k2", "k3"}
=============================================================================
