----------------------------- MODULE MCTerminal -----------------------------
(***************************************************************************)
(* The shell on the console, with the lines and strings the configurations *)
(* cannot write: "exit" and "clear" as the one-letter lines "e" and "a",   *)
(* the prompt "$", and a program that prints nothing or "b".               *)
(***************************************************************************)
EXTENDS Terminal

MCExit == <<101>>
MCClear == <<97>>
MCPrompt == <<36>>
MCChildOutputs == {<<>>, <<98>>}
=============================================================================
