------------------------------ MODULE MCIdPool ------------------------------
(* The thread id pool with two creator threads and the clean thread.       *)
EXTENDS IdPool
=============================================================================
