CONSTANTS
    Channels = {1, 3}
    LengthSize <- McLengthSize
    VolumeSize = 2
    PeriodSize = 2
    FallbackPeriod = 2
    who = 1
    LowSize = 4
    HighSize = 2
    ShiftSize = 3
    SweepPeriods = 3
    Capacity = 3
    Batches = {1, 2, 4}
    Samples = {s1, s2}
    Silence = silence
    MaxDropped = 4
    DividerSize = 32
    TimaSize = 3
    TriggerMask <- McTriggerMask
    ApuMask = 4
    ReloadDelay = 4
    TickCycles = {2, 4}
    TacValues = {0, 5, 6}
    MaxLost = 2
    Mode2Dots = 2
    Mode3Dots = {2, 3}
    ScanlineDots = 7
    VisibleScanlines = 2
    TotalScanlines = 4
    TickDots = {1, 2}
SPECIFICATION McSpec
INVARIANTS
    DevicesTypeOK
    DividerLagsByReloads
    ActiveMeansDriven
    NoteLasts
    SoundsOnlyInRange
    OnSchedule
    StatAsksOnRises
PROPERTIES
    NoteNeverTurns
    InterruptFollowsOverflow
    ApuRateIsFixed
    EnabledTimerInterrupts
    IsDropOldest
    IsPpuModes
