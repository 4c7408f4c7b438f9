------------------------------ MODULE MCReaper ------------------------------
(* Reaper with the idle thread, the clean thread and two exiting threads.  *)
EXTENDS Reaper

MCThreads == {"main", "clean", "t1", "t2"}
=============================================================================
