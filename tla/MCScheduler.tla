---------------------------- MODULE MCScheduler ----------------------------
(* The scheduler alone: the idle thread and four user threads.             *)
EXTENDS Scheduler

MCThreads == {"main", "w1", "w2", "w3", "w4"}
=============================================================================
