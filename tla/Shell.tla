------------------------------- MODULE Shell -------------------------------
(***************************************************************************)
(* The command line of src/user/src/shell.c: run_shell's key loop over the *)
(* global cmd_buffer, cmd_end_index and line_cursor_index, and             *)
(* run_program's split of the line into the program and its arguments.    *)
(* Keys are the ints read_char returns; the arrow codes (KHE_ARROW_*, from *)
(* keyhelp.h) are constants of 128 and above.  Keys the loop ignores (the  *)
(* up and down arrows, other control keys) change nothing and are left     *)
(* out, as is everything printed (printf, move_cursor, clear_screen).      *)
(* What run_program then does with the words (fork, exec, wait) is        *)
(* module Process.                                                         *)
(***************************************************************************)
EXTENDS Integers, SequencesExt

CONSTANTS
    Chars,          \* printable keys typed (ints from 32 to 127)
    Space,          \* ' '
    MaxLine,        \* the longest line typed (a model bound; the code has none)
    ExitLine,       \* "exit", as the characters strcmp compares
    ClearLine,      \* "clear"
    ArrowLeft,      \* KHE_ARROW_LEFT
    ArrowRight      \* KHE_ARROW_RIGHT

NUL == 0
BS  == 8           \* '\b'
LF  == 10          \* '\n'
FF  == 12          \* Ctrl-L
LINE_CURSOR_INDEX_MIN == 3
NameMax == 127     \* min(length, 127) in run_program

ASSUME Chars \subseteq 32..127 /\ Space \in Chars /\ {ArrowLeft, ArrowRight} \subseteq 128..255

VARIABLES
    cmdBuffer,        \* cmd_buffer[0..MaxLine]
    cmdEndIndex,      \* cmd_end_index
    lineCursorIndex,  \* line_cursor_index (the prompt takes 3 columns)
    programGet,       \* run_program's program_get, for the last command
    program,          \* run_program's program
    args,             \* run_program's args[0..args_index-1]
    shellDone         \* run_shell returned 0

shellVars == <<cmdBuffer, cmdEndIndex, lineCursorIndex, programGet, program,
               args, shellDone>>

\* The cursor as an index into cmd_buffer.
Cur == lineCursorIndex - LINE_CURSOR_INDEX_MIN

\* The C string in a buffer: its characters up to the first NUL.
CString(b) ==
    LET n == CHOOSE i \in DOMAIN b : b[i] = NUL /\ \A j \in 0..(i - 1) : b[j] # NUL
    IN  [k \in 1..n |-> b[k - 1]]

\* run_program's for loop, i from 0 to cmd_end_index, over the line in b:
\* a token starts at a character other than ' ' and '\0' and ends at the
\* next one of them; the first token, cut to 127 characters, is the
\* program, the others are copied into arg_buffer as the arguments.
RECURSIVE SplitLoop(_, _, _, _)
SplitLoop(b, e, i, st) ==
    IF i > e THEN st
    ELSE LET sep == b[i] \in {Space, NUL} IN
         IF ~st.inToken
         THEN SplitLoop(b, e, i + 1,
                        IF sep THEN st ELSE [st EXCEPT !.inToken = TRUE, !.start = i])
         ELSE IF ~sep THEN SplitLoop(b, e, i + 1, st)
         ELSE LET len == Min({i - st.start, NameMax})
                  tok == [k \in 1..len |-> b[st.start + k - 1]]
                  st2 == [st EXCEPT !.inToken = FALSE]
              IN  SplitLoop(b, e, i + 1,
                            IF ~st2.programGet
                            THEN [st2 EXCEPT !.programGet = TRUE, !.program = tok]
                            ELSE [st2 EXCEPT !.args = Append(@, tok)])

SplitInit == [inToken |-> FALSE, start |-> -1, programGet |-> FALSE,
              program |-> <<>>, args |-> <<>>]

\* The global cmd_buffer is zero; run_shell sets cmd_end_index = 0,
\* cmd_buffer[0] = '\0' and line_cursor_index = 3 and prints the prompt.
ShellInit ==
    /\ cmdBuffer = [i \in 0..MaxLine |-> NUL]
    /\ cmdEndIndex = 0
    /\ lineCursorIndex = LINE_CURSOR_INDEX_MIN
    /\ programGet = FALSE /\ program = <<>> /\ args = <<>>
    /\ shellDone = FALSE

\* The break out of the inner loop: the outer loop starts a new line with
\* cmd_end_index = 0 and line_cursor_index = 3; cmd_buffer is not cleared.
NewLine ==
    /\ cmdEndIndex' = 0
    /\ lineCursorIndex' = LINE_CURSOR_INDEX_MIN

\* Faulty variant of TypeChar: without cmd_buffer[cmd_end_index] = '\0',
\* a character left from an earlier, longer line ends up inside the line.
TypeCharNoTerminator(c) ==
    /\ ~shellDone /\ c \in Chars /\ cmdEndIndex < MaxLine
    /\ LET b == [i \in DOMAIN cmdBuffer |->
                   IF Cur < i /\ i <= cmdEndIndex THEN cmdBuffer[i - 1] ELSE cmdBuffer[i]]
       IN  cmdBuffer' = [b EXCEPT ![Cur] = c]
    /\ cmdEndIndex' = cmdEndIndex + 1
    /\ lineCursorIndex' = lineCursorIndex + 1
    /\ UNCHANGED <<programGet, program, args, shellDone>>

\* c >= 32: cmd_buffer[i + 1] = cmd_buffer[i] for i from cmd_end_index - 1
\* down to the cursor, then cmd_buffer[cursor] = c, cmd_end_index++,
\* cmd_buffer[cmd_end_index] = '\0', line_cursor_index++.  Nothing bounds
\* cmd_end_index by the 512 bytes of cmd_buffer; the model stops at MaxLine.
TypeChar(c) ==
    /\ ~shellDone /\ c \in Chars /\ cmdEndIndex < MaxLine
    /\ LET b == [i \in DOMAIN cmdBuffer |->
                   IF Cur < i /\ i <= cmdEndIndex THEN cmdBuffer[i - 1] ELSE cmdBuffer[i]]
       IN  cmdBuffer' = [b EXCEPT ![Cur] = c, ![cmdEndIndex + 1] = NUL]
    /\ cmdEndIndex' = cmdEndIndex + 1
    /\ lineCursorIndex' = lineCursorIndex + 1
    /\ UNCHANGED <<programGet, program, args, shellDone>>

\* '\b' with characters before the cursor (otherwise continue):
\* cmd_buffer[i - 1] = cmd_buffer[i] for i from the cursor to
\* cmd_end_index - 1, cmd_end_index--, cmd_buffer[cmd_end_index] = '\0',
\* line_cursor_index--.
Backspace ==
    /\ ~shellDone /\ Cur > 0
    /\ LET b == [i \in DOMAIN cmdBuffer |->
                   IF Cur - 1 <= i /\ i < cmdEndIndex - 1 THEN cmdBuffer[i + 1] ELSE cmdBuffer[i]]
       IN  cmdBuffer' = [b EXCEPT ![cmdEndIndex - 1] = NUL]
    /\ cmdEndIndex' = cmdEndIndex - 1
    /\ lineCursorIndex' = lineCursorIndex - 1
    /\ UNCHANGED <<programGet, program, args, shellDone>>

\* KHE_ARROW_LEFT unless line_cursor_index == LINE_CURSOR_INDEX_MIN;
\* KHE_ARROW_RIGHT unless line_cursor_index == cmd_end_index + 3.
ArrowKey(c) ==
    /\ ~shellDone
    /\ \/ c = ArrowLeft /\ lineCursorIndex # LINE_CURSOR_INDEX_MIN
          /\ lineCursorIndex' = lineCursorIndex - 1
       \/ c = ArrowRight /\ lineCursorIndex # cmdEndIndex + LINE_CURSOR_INDEX_MIN
          /\ lineCursorIndex' = lineCursorIndex + 1
    /\ UNCHANGED <<cmdBuffer, cmdEndIndex, programGet, program, args, shellDone>>

\* c == 12: clear_screen and break.
FormFeed ==
    /\ ~shellDone
    /\ NewLine
    /\ UNCHANGED <<cmdBuffer, programGet, program, args, shellDone>>

\* '\n' on a non-empty line (an empty one only prints a newline):
\* strcmp with "exit" returns 0 from run_shell; with "clear" clears the
\* screen; otherwise run_program splits the line.  Then break.
Enter ==
    LET line == CString(cmdBuffer)
        st   == SplitLoop(cmdBuffer, cmdEndIndex, 0, SplitInit)
    IN  /\ ~shellDone /\ cmdEndIndex # 0
        /\ IF line = ExitLine
           THEN /\ shellDone' = TRUE
                /\ UNCHANGED <<cmdBuffer, cmdEndIndex, lineCursorIndex,
                               programGet, program, args>>
           ELSE /\ NewLine
                /\ IF line = ClearLine
                   THEN UNCHANGED <<programGet, program, args>>
                   ELSE /\ programGet' = st.programGet
                        /\ program' = st.program
                        /\ args' = st.args
                /\ UNCHANGED <<cmdBuffer, shellDone>>

\* main returns run_shell's 0 and the program exits: the shell takes no
\* more steps.
Terminated ==
    /\ shellDone
    /\ UNCHANGED shellVars

\* One read_char() and its handling.
ShellNext ==
    \/ \E c \in Chars : TypeChar(c)
    \/ Backspace
    \/ \E c \in {ArrowLeft, ArrowRight} : ArrowKey(c)
    \/ FormFeed
    \/ Enter
    \/ Terminated

ShellSpec == ShellInit /\ [][ShellNext]_shellVars

-----------------------------------------------------------------------------
(* Properties.                                                             *)

ShellTypeOK ==
    /\ cmdBuffer \in [0..MaxLine -> Chars \cup {NUL}]
    /\ cmdEndIndex \in 0..MaxLine
    /\ lineCursorIndex \in LINE_CURSOR_INDEX_MIN..(cmdEndIndex + LINE_CURSOR_INDEX_MIN)
    /\ programGet \in BOOLEAN /\ shellDone \in BOOLEAN

Ed == INSTANCE LineEditor WITH
        text  <- [k \in 1..cmdEndIndex |-> cmdBuffer[k - 1]],
        pos   <- Cur,
        words <- IF programGet THEN <<program>> \o args ELSE <<>>,
        done  <- shellDone

\* The in-place shifts of cmd_buffer, the cursor arithmetic and run_program's
\* token loop implement a line editor whose Enter runs the words of the
\* line: every key handled by run_shell is a step of LineEditor, under the
\* mapping of the text to cmd_buffer[0..cmd_end_index-1].
ShellRefinesLineEditor == Ed!EdSpec
=============================================================================
