SPECIFICATION Spec
CONSTANTS
    Files = {"owshell", "small", "large", "runner", "huge", "empty"}
    Length <- FileLengths
    Extent <- FileExtents
    BufferSize = 4
    Room = 5
    Autostart = {"owshell", "huge", "empty", "mtp", "absent", "none"}
    Asked = {"owshell", "small", "large", "runner", "huge", "empty", "mtp", "absent"}
    Callers = {"owshell", "runner"}
    Endless = {"owshell"}
    MaxDepth = 5
INVARIANTS
    TooLargeRefused
