CONSTANTS
    SourceSpace = 6
    SourceBlocks <- McSourceBlocks
    LastDst = 2
    MaxLength = 3
    BlockStall = 4
    CpuCycle = 2
    StallCycle = 2
    InstrCycles = 2
    VisibleLines = 2
    TotalLines = 3
SPECIFICATION HdmaSpec
INVARIANTS
    AtMostOneBlockPerHblank
