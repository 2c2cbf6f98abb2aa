SPECIFICATION Spec
CONSTANTS
    Starts <- MCStarts
    MaxTicks = 2
    Drives = {"absent", "silent", "packet", "disk"}
    Words = 2
    Machines <- MCMachines
INVARIANTS
    TypeOK
    NowRight
    TodayRight
    TransfersWhole
PROPERTIES
    DiskAnswers
