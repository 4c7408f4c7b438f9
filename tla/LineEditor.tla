----------------------------- MODULE LineEditor -----------------------------
(***************************************************************************)
(* What the shell's command line promises (src/user/src/shell.c): a line   *)
(* of text with a cursor in it.  A printable key is inserted at the        *)
(* cursor, backspace erases the character before it, the arrows move it,   *)
(* Ctrl-L drops the line, and Enter submits it: the line "exit" ends the   *)
(* shell, the line "clear" only clears the screen, and any other non-empty *)
(* line runs the command made of its words.                                *)
(***************************************************************************)
EXTENDS Naturals, SequencesExt

CONSTANTS
    Chars,      \* the printable characters typed
    Space,      \* the separator of words
    MaxLine,    \* the longest line typed (a model bound)
    ExitLine,   \* the line "exit"
    ClearLine   \* the line "clear"

VARIABLES
    text,       \* the line being edited
    pos,        \* characters before the cursor
    words,      \* the words of the last command run
    done        \* the shell has returned from main

edVars == <<text, pos, words, done>>

\* The words of a line: its maximal runs of characters other than Space,
\* left to right.
WordStarts(s) == {i \in 1..Len(s) : s[i] # Space /\ (i = 1 \/ s[i - 1] = Space)}

WordEnd(s, i) ==
    CHOOSE j \in i..Len(s) :
        /\ \A k \in i..j : s[k] # Space
        /\ j = Len(s) \/ s[j + 1] = Space

Words(s) ==
    LET st == SetToSortSeq(WordStarts(s), <) IN
    [k \in 1..Len(st) |-> SubSeq(s, st[k], WordEnd(s, st[k]))]

EdInit ==
    /\ text = <<>> /\ pos = 0 /\ words = <<>> /\ done = FALSE

Insert(c) ==
    /\ ~done /\ Len(text) < MaxLine
    /\ text' = InsertAt(text, pos + 1, c)
    /\ pos' = pos + 1
    /\ UNCHANGED <<words, done>>

Erase ==
    /\ ~done /\ pos > 0
    /\ text' = RemoveAt(text, pos)
    /\ pos' = pos - 1
    /\ UNCHANGED <<words, done>>

MoveLeft ==
    /\ ~done /\ pos > 0
    /\ pos' = pos - 1
    /\ UNCHANGED <<text, words, done>>

MoveRight ==
    /\ ~done /\ pos < Len(text)
    /\ pos' = pos + 1
    /\ UNCHANGED <<text, words, done>>

\* Ctrl-L, and Enter on "clear": a fresh empty line.
DropLine ==
    /\ ~done
    /\ text' = <<>> /\ pos' = 0
    /\ UNCHANGED <<words, done>>

Submit ==
    /\ ~done /\ text # <<>>
    /\ IF text = ExitLine
       THEN done' = TRUE /\ UNCHANGED <<text, pos, words>>
       ELSE /\ words' = IF text = ClearLine THEN words ELSE Words(text)
            /\ text' = <<>> /\ pos' = 0
            /\ UNCHANGED done

EdNext ==
    \/ \E c \in Chars : Insert(c)
    \/ Erase \/ MoveLeft \/ MoveRight \/ DropLine \/ Submit

EdSpec == EdInit /\ [][EdNext]_edVars
=============================================================================
