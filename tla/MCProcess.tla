----------------------------- MODULE MCProcess -----------------------------
(* Model values for module Process: the main and clean kernel threads and  *)
(* five user threads: one for init, and one for each fork and each exec.                                                *)
EXTENDS Process

MCThreads == {"main", "clean", "u1", "u2", "u3", "u4"}
=============================================================================
