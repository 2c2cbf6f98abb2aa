SPECIFICATION ShellSpec
CONSTANTS
    BlockSize = 684
    Sizes = {150}
    Word = 2600
    FirstPrev = {0}
    Files = {"text", "empty", "large"}
    Length <- MCLength
    BufferSize = 80
    ShellSize = 12
    InputSize = 5
    Chars = {"a", "b"}
    Lines <- MCLines
    Programs <- MCPrograms
    ShellName <- MCShellName
    FileOrder <- MCFileOrder
    Leftover <- MCLeftover
    MaxLines = 2
    MaxHeld = 2
    MaxCalls = 3
INVARIANTS
    ShellTypeOK
    SplitExact
    StoresOwned
    HeapKept
    BufferAvailable
    ListsAll
CHECK_DEADLOCK FALSE
