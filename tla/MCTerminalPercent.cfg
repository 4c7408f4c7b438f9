\* The user types '%' (37) among ' ' and 'a'; the echo printf(cmd_buffer +
\* cursor) reads it as the start of a conversion.
CONSTANTS
    Chars = {32, 37, 97}
    Space = 32
    MaxLine = 3
    ArrowLeft = 130
    ArrowRight = 131
    ExitLine <- MCExit
    ClearLine <- MCClear
    Prompt <- MCPrompt
    ChildOutputs <- MCChildOutputs
    Width = 4
    Height = 2
    WordBits = 16
SPECIFICATION TermSpec
INVARIANT ScreenShowsLine
