------------------------------ MODULE Console ------------------------------
(***************************************************************************)
(* Kernel callers of the console: main's monitor_clear, messages printed   *)
(* with monitor_print, and the monitor_printf calls that print one number  *)
(* with %d or %x (interrupt.c's "unknown interrupt: %d", paging.c's        *)
(* "couldn't alloc frame for addr %x", hash_table.c's "key = %d").  The    *)
(* ghost variable printed records the conversion and the number of the    *)
(* last monitor_printf, so that a property can read it back off the        *)
(* screen; calls counts the calls up to the bound MaxCalls.                *)
(***************************************************************************)
EXTENDS Monitor

CONSTANTS
    DecSamples,     \* int32 values printed with %d
    HexSamples,     \* uint32 values printed with %x
    Texts,          \* messages printed with monitor_print
    MaxCalls        \* calls per behaviour (a model bound)

VARIABLES printed, calls

consoleVars == <<cursorX, cursorY, video, printed, calls>>

NoNumber == [conv |-> 0, n |-> 0]

\* The format "%d" or "%x" in memory, with its '\0'.
NumberFormat(conv) == [k \in 0..2 |-> IF k = 0 THEN 37 ELSE IF k = 1 THEN conv ELSE 0]

\* main: monitor_clear() before anything is printed.
ConsoleInit ==
    /\ LET t == Clear(Now) IN cursorX = t.x /\ cursorY = t.y /\ video = t.v
    /\ printed = NoNumber
    /\ calls = 0

ConsoleClear ==
    /\ calls < MaxCalls
    /\ MonitorClear
    /\ printed' = NoNumber
    /\ calls' = calls + 1

ConsolePrint(s) ==
    /\ calls < MaxCalls
    /\ MonitorPrint(s)
    /\ printed' = NoNumber
    /\ calls' = calls + 1

\* monitor_printf("%d", n) or monitor_printf("%x", n).
ConsolePrintNumber(conv, n) ==
    /\ calls < MaxCalls
    /\ MonitorPrintfArgs(NumberFormat(conv), 0, <<n>>)
    /\ printed' = [conv |-> conv, n |-> n]
    /\ calls' = calls + 1

ConsoleNext ==
    \/ ConsoleClear
    \/ \E s \in Texts : ConsolePrint(s)
    \/ \E n \in DecSamples : ConsolePrintNumber(100, n)
    \/ \E n \in HexSamples : ConsolePrintNumber(120, n)
    \/ calls = MaxCalls /\ UNCHANGED consoleVars

ConsoleSpec == ConsoleInit /\ [][ConsoleNext]_consoleVars

-----------------------------------------------------------------------------
(* Properties.                                                             *)

ConsoleCursorCell == cursorY * Width + cursorX

\* The last L cells written before the cursor.
Before(L) == [k \in 1..L |-> video[ConsoleCursorCell - L + k - 1]]

\* What monitor_printf printed last is on the screen just before the cursor,
\* and reads back as the number: %d as its decimal numeral, with '-' for a
\* negative int (INT_MIN included, whose negation wraps), %x as "0x" and the
\* hexadecimal numeral of the uint (zero and the top nibble included) --
\* wherever the cursor stood, so also when the numeral wraps at the right
\* edge and scrolls the screen.
NumbersPrintedExactly ==
    printed.conv # 0 =>
        \E L \in 1..ConsoleCursorCell :
            LET s == Before(L) IN
            IF printed.conv = 100
            THEN IF printed.n < 0 THEN s[1] = 45 /\ IsNumeral(Tail(s), -printed.n, 10)
                                  ELSE IsNumeral(s, printed.n, 10)
            ELSE L > 2 /\ SubSeq(s, 1, 2) = <<48, 120>>
                       /\ IsNumeral(SubSeq(s, 3, L), Uint32(printed.n), 16)
=============================================================================
