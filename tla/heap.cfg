SPECIFICATION MCSpec
CONSTANTS
    BlockSize = 116
    Sizes = {9, 24}
    Word = 65536
    FirstPrev = {0, 7}
    MaxDrift = 24
INVARIANTS
    TypeOK
    Tiling
    OwnedChunks
    PayloadsClear
    PrecheckSound
    BackLinksReach
    WalkMeetsHeaders
PROPERTIES
    Allocates
