----------------------------- MODULE MCKeyboard -----------------------------
(* The keyboard driver with the idle thread, two readers and one thread    *)
(* that only computes.                                                     *)
EXTENDS Keyboard

MCThreads == {"main", "r1", "r2", "w1"}

MCReaders == {"r1", "r2"}
=============================================================================
