SPECIFICATION Spec
CONSTANTS
    Chars = {}
    Digits = {"1"}
    Shifted <- Specials
    MaxLen = 2
    BufSize = 4
    Msecs = {15, 200}
    IntMax = 127
    TickWord = 2
    MaxBuf = 4
INVARIANTS
    BufferNeverOverflows
