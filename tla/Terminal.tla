------------------------------ MODULE Terminal ------------------------------
(***************************************************************************)
(* The shell on the console: every key handler of run_shell (module Shell) *)
(* together with what it prints.  The shell prints through the print      *)
(* syscall, which hands its string to monitor_printf_args as the format,   *)
(* and moves the cursor through the move_cursor syscall (monitor_move_     *)
(* cursor); module Monitor gives both.  A handler's calls are one step:    *)
(* while the shell reads keys no other thread prints (its parent init      *)
(* waits, its children have exited), so nothing comes between them.       *)
(* What a program run by the shell prints is a string of ChildOutputs.     *)
(***************************************************************************)
EXTENDS Shell

CONSTANTS
    Width, Height,      \* the screen (80 x 25)
    Prompt,             \* "duan@luck$ ", as character codes
    ChildOutputs,       \* what a program run from the shell may print
    WordBits            \* the width of the console's int32 and uint32 (32)

VARIABLES cursorX, cursorY, video

Mon == INSTANCE Monitor

termVars == <<cmdBuffer, cmdEndIndex, lineCursorIndex, programGet, program,
              args, shellDone, cursorX, cursorY, video>>

\* No conversion letter (d, u, x, c, s) is typed, so a printf of the line
\* never reads a variadic argument: the shell passes none.
ASSUME Chars \cap {100, 117, 120, 99, 115} = {}

\* printf(s) from user space: the print syscall, s as the format, no
\* arguments.  A string literal is a memory holding it and its '\0'.
Printf(t, mem, i) == Mon!PrintfArgs(t, mem, i, <<>>)
Literal(s) == [k \in 0..Len(s) |-> IF k < Len(s) THEN s[k + 1] ELSE NUL]
PrintLiteral(t, s) == Printf(t, Literal(s), 0)

\* print_shell.
PrintShell(t) == PrintLiteral(t, Prompt)

\* clear_screen: move_cursor(0, -25), 25 times printf(blank_line) (80
\* spaces), move_cursor(0, -25).
BlankLine == [k \in 1..Width |-> Space]
ClearScreen(t) ==
    LET top  == Mon!MoveCursor(t, 0, -Height)
        full == FoldLeft(LAMBDA u, r : PrintLiteral(u, BlankLine), top,
                         [r \in 1..Height |-> r])
    IN  Mon!MoveCursor(full, 0, -Height)

Show(t) == Mon!SetScreen(t)

\* The screen before the first prompt: boot messages have left the cursor
\* at the start of some row.
TermInit ==
    /\ ShellInit
    /\ \E y \in 0..(Height - 1) :
          LET t == PrintShell([x |-> 0, y |-> y, v |-> [i \in Mon!Cells |-> Space]])
          IN  cursorX = t.x /\ cursorY = t.y /\ video = t.v

\* c >= 32: after the insert, printf(cmd_buffer + cursor) echoes the rest of
\* the line from the new character on, line_cursor_index++, and
\* move_cursor(-(cmd_end_index - cursor), 0) goes back to the cursor.
TermTypeChar(c) ==
    /\ TypeChar(c)
    /\ Show(Mon!MoveCursor(Printf(Mon!Now, cmdBuffer', Cur),
                           -(cmdEndIndex' - Cur'), 0))

\* Faulty variant of TermBackspace: without the printf(" "), the last
\* character of the line stays on the screen after it is erased.
TermBackspaceNoBlank ==
    /\ Backspace
    /\ LET t1 == Mon!MoveCursor(Mon!Now, -1, 0)
           t2 == Printf(t1, cmdBuffer', Cur')
       IN  Show(Mon!MoveCursor(t2, -(cmdEndIndex' - Cur'), 0))

\* '\b': move_cursor(-1, 0), printf(cmd_buffer + cursor) redraws the rest
\* of the line, printf(" ") blanks the cell it vacated, and
\* move_cursor(-(cmd_end_index + 1 - cursor), 0) goes back.
TermBackspace ==
    /\ Backspace
    /\ LET t1 == Mon!MoveCursor(Mon!Now, -1, 0)
           t2 == PrintLiteral(Printf(t1, cmdBuffer', Cur'), <<Space>>)
       IN  Show(Mon!MoveCursor(t2, -(cmdEndIndex' + 1 - Cur'), 0))

\* The arrows: move_cursor(-1, 0) and move_cursor(1, 0).
TermArrowKey(c) ==
    /\ ArrowKey(c)
    /\ Show(Mon!MoveCursor(Mon!Now, IF c = ArrowLeft THEN -1 ELSE 1, 0))

\* Ctrl-L: clear_screen, then the outer loop's print_shell.
TermFormFeed ==
    /\ FormFeed
    /\ Show(PrintShell(ClearScreen(Mon!Now)))

\* '\n' on a non-empty line: printf("\n") and return for "exit";
\* clear_screen for "clear"; otherwise run_program's printf("\n") and the
\* program's output.  Then print_shell.
TermEnter ==
    /\ Enter
    /\ LET line == CString(cmdBuffer)
           nl   == PrintLiteral(Mon!Now, <<LF>>)
       IN  IF line = ExitLine THEN Show(nl)
           ELSE IF line = ClearLine THEN Show(PrintShell(ClearScreen(Mon!Now)))
           ELSE \E out \in ChildOutputs : Show(PrintShell(PrintLiteral(nl, out)))

\* '\n' on an empty line: printf("\n") and a new prompt.
TermEnterEmpty ==
    /\ ~shellDone /\ cmdEndIndex = 0
    /\ Show(PrintShell(PrintLiteral(Mon!Now, <<LF>>)))
    /\ UNCHANGED shellVars

TermNext ==
    \/ \E c \in Chars : TermTypeChar(c)
    \/ TermBackspace
    \/ \E c \in {ArrowLeft, ArrowRight} : TermArrowKey(c)
    \/ TermFormFeed
    \/ TermEnter
    \/ TermEnterEmpty
    \/ Terminated /\ UNCHANGED <<cursorX, cursorY, video>>

TermSpec == TermInit /\ [][TermNext]_termVars

-----------------------------------------------------------------------------
(* Properties.                                                             *)

\* The cell under the cursor, counted from the top-left corner.
CursorCell == cursorY * Width + cursorX

\* The cell where the prompt of the line being edited starts.
LineStart == CursorCell - Cur - Len(Prompt)

\* The echo and the relative cursor moves of every handler keep the screen
\* in step with cmd_buffer: the prompt and the line are on the screen, one
\* after the other, nothing but blanks after them, and the hardware cursor
\* stands where the line cursor is -- after inserts and erasures in the middle, wraps at the right edge,
\* scrolling at the bottom, Ctrl-L and "clear".
ScreenShowsLine ==
    ~shellDone =>
        /\ LineStart >= 0
        /\ LineStart + Len(Prompt) + cmdEndIndex <= Width * Height
        /\ \A k \in 1..Len(Prompt) : video[LineStart + k - 1] = Prompt[k]
        /\ \A k \in 1..cmdEndIndex :
              video[LineStart + Len(Prompt) + k - 1] = cmdBuffer[k - 1]
        /\ \A i \in (LineStart + Len(Prompt) + cmdEndIndex)..(Width * Height - 1) :
              video[i] = Space
=============================================================================
