SPECIFICATION TimerHSpec
CONSTANTS
    DividerSize = 1024
    TimaSize = 3
    TriggerMask <- RealTriggerMask
    ApuMask = 16
    ReloadDelay = 4
    TickCycles = {2, 4}
    TacValues = {0, 5}
    MaxLost = 2
PROPERTIES FrameSequencerAt512
