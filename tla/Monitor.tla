------------------------------ MODULE Monitor ------------------------------
(***************************************************************************)
(* The text console of src/src/monitor/monitor.c: the VGA text buffer      *)
(* video_memory, a Width x Height grid of cells (80 x 25 in the code, where *)
(* the numbers are written out), and the cursor cursor_x, cursor_y.  A     *)
(* cell holds the character only; the colour attribute is left out.        *)
(*                                                                         *)
(* Every public function takes monitor_lock for its whole body, so each    *)
(* call is one step.  Inside a call, write_char, write_string, the         *)
(* decimal and hexadecimal writers and the format loop of                  *)
(* monitor_printf_args are operators on a screen record [x, y, v], so that *)
(* modules that print several times in one step (the shell) can compose    *)
(* them.  Characters are their codes; the hardware cursor port writes of   *)
(* move_cursor_position are output only and left out.  The int32 and       *)
(* uint32 of the number writers are words of WordBits bits: 32 in the code, *)
(* fewer for TLC, whose integers are 32-bit signed and cannot hold 2^31.    *)
(***************************************************************************)
EXTENDS Integers, SequencesExt

CONSTANTS Width, Height, WordBits

VARIABLES cursorX, cursorY, video

monitorVars == <<cursorX, cursorY, video>>

Cells == 0..(Width * Height - 1)
Blank == 32                              \* 0x20 with the white-on-black attribute

\* int32 and uint32 as the C code sees a word's bit pattern.
Int32(n) == LET m == n % 2^WordBits
            IN  IF m >= 2^(WordBits - 1) THEN m - 2^WordBits ELSE m
Uint32(n) == n % 2^WordBits

\* C division and remainder truncate toward zero.
CDiv(a, b) == IF a >= 0 THEN a \div b ELSE -((-a) \div b)
CMod(a, b) == a - b * CDiv(a, b)

\* math.c: div rounds toward minus infinity, mod is never negative.
div(x, N) == IF x >= 0 THEN CDiv(x, N) ELSE CDiv(x - N + 1, N)
mod(x, N) == CMod(CMod(x, N) + N, N)

Now == [x |-> cursorX, y |-> cursorY, v |-> video]

SetScreen(t) ==
    /\ cursorX' = t.x
    /\ cursorY' = t.y
    /\ video' = t.v

\* scroll: on row Height every row moves up one, the last row is blanked.
Scroll(t) ==
    IF t.y >= Height
    THEN [t EXCEPT !.v = [i \in Cells |-> IF i < (Height - 1) * Width
                                             THEN t.v[i + Width] ELSE Blank],
                   !.y = Height - 1]
    ELSE t

\* monitor_write_char_with_color: backspace (only off column 0), tab to the
\* next multiple of 8, carriage return, newline, or a printable character
\* stored at the cursor; then the wrap at column 80 and the scroll.
WriteChar(t, c) ==
    LET t1 == CASE c = 8 /\ t.x # 0 -> [t EXCEPT !.x = @ - 1]
                [] c = 9  -> [t EXCEPT !.x = ((@ + 8) \div 8) * 8]
                [] c = 13 -> [t EXCEPT !.x = 0]
                [] c = 10 -> [t EXCEPT !.x = 0, !.y = @ + 1]
                [] c >= 32 -> [t EXCEPT !.v[t.y * Width + t.x] = c, !.x = @ + 1]
                [] OTHER  -> t
        t2 == IF t1.x >= Width THEN [t1 EXCEPT !.x = 0, !.y = @ + 1] ELSE t1
    IN  Scroll(t2)

\* monitor_write_string_with_color: write_char for each character.
WriteString(t, s) == FoldLeft(WriteChar, t, s)

\* monitor_write_dec_with_color's first loop: the digits of acc, least
\* significant first (the array c).
RECURSIVE LowDigits(_)
LowDigits(acc) ==
    IF acc = 0 THEN <<>> ELSE <<48 + (acc % 10)>> \o LowDigits(acc \div 10)

\* monitor_write_dec_with_color(n): "0" for 0; otherwise '-' and n = -n
\* (which wraps for INT_MIN), acc = (uint32)n, and c reversed into c2.
DecChars(n) ==
    IF n = 0 THEN <<48>>
    ELSE LET m   == IF n < 0 THEN Int32(-n) ELSE n
         IN  (IF n < 0 THEN <<45>> ELSE <<>>) \o Reverse(LowDigits(Uint32(m)))

HexDigit(d) == IF d >= 10 THEN d - 10 + 97 ELSE d + 48

\* The loop of monitor_write_hex_withc_color over bits 28 (the word's top
\* nibble) down to 4,
\* skipping nibbles while they are leading zeros.
RECURSIVE HexLoop(_, _, _)
HexLoop(n, i, noZeroes) ==
    IF i <= 0 THEN <<>>
    ELSE LET tmp == (n \div 2^i) % 16 IN
         IF tmp = 0 /\ noZeroes THEN HexLoop(n, i - 4, noZeroes)
         ELSE <<HexDigit(tmp)>> \o HexLoop(n, i - 4, FALSE)

\* Faulty variant of HexChars: the loop starts a nibble too low and the
\* top hexadecimal digit is never printed.
HexCharsShort(n) == <<48, 120>> \o HexLoop(n, WordBits - 8, TRUE) \o <<HexDigit(n % 16)>>

\* monitor_write_hex_withc_color(n): "0x", the loop, then the low nibble.
HexChars(n) == <<48, 120>> \o HexLoop(n, WordBits - 4, TRUE) \o <<HexDigit(n % 16)>>

\* The character at address i of memory mem (a function from addresses),
\* '\0' past the memory the model holds.
At(mem, i) == IF i \in DOMAIN mem THEN mem[i] ELSE 0

\* The loop of monitor_printf_args over the format at address i: the
\* characters it hands to write_char.  A '%' consumes the next character:
\* d, u, x, c and s take the next 4-byte argument (args[k]; for s, the
\* string it points to), any other character, '\0' included, is skipped,
\* and the loop goes on after it (the check for the end tests c, the '%',
\* instead of next).
RECURSIVE FormatLoop(_, _, _, _)
FormatLoop(mem, i, args, k) ==
    LET c == At(mem, i)
        next == At(mem, i + 1)
    IN  IF c = 0 THEN <<>>
        ELSE IF c # 37 THEN <<c>> \o FormatLoop(mem, i + 1, args, k)
        ELSE IF next \notin {100, 117, 120, 99, 115}
        THEN FormatLoop(mem, i + 2, args, k)
        ELSE LET out == CASE next = 100 -> DecChars(args[k])
                          [] next = 117 -> DecChars(Int32(args[k]))
                          [] next = 120 -> HexChars(Uint32(args[k]))
                          [] next = 99  -> <<args[k]>>
                          [] next = 115 -> args[k]
             IN  out \o FormatLoop(mem, i + 2, args, k + 1)

\* monitor_printf_args(str, arg_ptr) on a screen.
PrintfArgs(t, mem, i, args) == WriteString(t, FormatLoop(mem, i, args, 1))

\* monitor_move_cursor(delta_x, delta_y): the cursor moves by delta_x
\* columns, carrying whole rows into y; above the screen it goes to the
\* top-left corner, below it to the bottom-right one.
MoveCursor(t, dx, dy) ==
    LET x1 == t.x + dx
        y1 == t.y + dy + div(x1, Width)
    IN  CASE y1 < 0        -> [t EXCEPT !.x = 0, !.y = 0]
          [] y1 >= Height  -> [t EXCEPT !.x = Width - 1, !.y = Height - 1]
          [] OTHER         -> [t EXCEPT !.x = mod(x1, Width), !.y = y1]

\* monitor_clear: every cell blank, the cursor at the top-left corner.
Clear(t) == [x |-> 0, y |-> 0, v |-> [i \in Cells |-> Blank]]

-----------------------------------------------------------------------------
(* The public calls, each one step under monitor_lock.                     *)

MonitorClear == SetScreen(Clear(Now))

MonitorMoveCursor(dx, dy) == SetScreen(MoveCursor(Now, dx, dy))

MonitorPrint(s) == SetScreen(WriteString(Now, s))

MonitorPrintfArgs(mem, i, args) == SetScreen(PrintfArgs(Now, mem, i, args))

MonitorPrintln(s) == SetScreen(WriteString(WriteString(Now, s), <<10>>))

\* monitor_print_with_color: the colour is only the attribute byte.
MonitorPrintWithColor(s) == MonitorPrint(s)

-----------------------------------------------------------------------------
(* Reference definitions and properties.                                   *)

\* The number a string of digits denotes in a base.
DigitValue(c) == IF c >= 97 THEN c - 97 + 10 ELSE c - 48

RECURSIVE ValueOf(_, _)
ValueOf(s, base) ==
    IF s = <<>> THEN 0
    ELSE ValueOf(SubSeq(s, 1, Len(s) - 1), base) * base + DigitValue(s[Len(s)])

\* s is the shortest numeral of v in the base: digits of the base only, no
\* leading zero unless v is 0.
IsNumeral(s, v, base) ==
    /\ s # <<>>
    /\ \A k \in 1..Len(s) : s[k] \in (48..57 \cup 97..102) /\ DigitValue(s[k]) < base
    /\ (Len(s) = 1 \/ s[1] # 48)
    /\ ValueOf(s, base) = v

MonitorTypeOK ==
    /\ cursorX \in 0..(Width - 1)
    /\ cursorY \in 0..(Height - 1)
    /\ video \in [Cells -> Int]
=============================================================================
