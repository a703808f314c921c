\* The tool's two uses; amplitudes and retries scaled down.
SPECIFICATION FairSpec
CONSTANTS
    Cmds <- ToolCmds
    NoCmd <- NoCommand
    Values <- ToolValues
    Empty <- Zero
    MaxFails = 1
    Indices = {0, 1, 2, 6, 7, 100, 101, 102, 103, 104, 105, 106, 107, 108}
    Rates = {2, 3}
    SeAmp = 3
    DeAmp = 2
    Floor = 1
    AmpSpan = 4
    ByteSpan = 8
    CheckTries = 2
    LockTries = 2
INVARIANTS
    ToolHolds
    LinksSetUp
PROPERTY ToolEnds
CHECK_DEADLOCK FALSE
