CONSTANTS
    SourceSpace = 6
    SourceBlocks <- McSourceBlocks
    LastDst = 2
    MaxLength = 3
    BlockStall = 4
    CpuCycle = 2
    StallCycle = 2
    InstrCycles = 2
    VisibleLines = 2
    TotalLines = 3
    Length = 2
    Bytes <- McBytes
    OpenBus = "ff"
    Zero = "00"
    NoWrite = NoWrite
    Games <- McGames
    Values <- McValues
    Fill = "ff"
    Faults <- BeforeCommit
    NoGame = NoGame
    NoFile = NoFile
    Partial = Partial
SPECIFICATION McSpec
INVARIANTS
    CopiedIsPrefix
    TimeIsAccounted
PROPERTIES
    StallEnds
    OamIsSnapshot
    IsDurable
    LeftGameIsSaved
