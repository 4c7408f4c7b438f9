------------------------------- MODULE KeyFifo -------------------------------
(***************************************************************************)
(* What the keyboard buffer of src/src/driver/keyboard.c promises: a       *)
(* first-in first-out queue of scancodes of bounded capacity.  A put to a  *)
(* full queue loses the scancode; a reader takes a prefix of the queue (it *)
(* discards scancodes up to the first that yields a character).            *)
(***************************************************************************)
EXTENDS Naturals, Sequences

CONSTANTS Cap, Codes

VARIABLE q

FifoInit == q = <<>>

FifoPut(c) == Len(q) < Cap /\ q' = Append(q, c)

FifoTake == \E n \in 1..Len(q) : q' = SubSeq(q, n + 1, Len(q))

FifoNext == (\E c \in Codes : FifoPut(c)) \/ FifoTake

FifoSpec == FifoInit /\ [][FifoNext]_q
=============================================================================
