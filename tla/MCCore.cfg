CONSTANTS
    Sources <- McSources
    PcSize = 4
    Vector <- McVector
    WordCount = 2
    StackSize = 4
    Operands = {0, 1, 9, 10, 16, 57, 80, 89, 144, 153, 200, 255}
    HostPerCycle = 2
    MaxElapsed = 10
    MaxBudget = 4
    MaxBatch = 2
    InstrTimes = {1, 3}
    Speeds = {1}
    MaxLag = 11
SPECIFICATION McSpec
INVARIANTS
    CoreTypeOK
    TimeAgrees
    ReturnsToCaller
    BcdExact
    KeepsPace
    PauseTakesHold
PROPERTIES
    EiDelaysOneInstruction
    RequestsAreKept
    EntersAcknowledgedVector
    HaltWakes
    EventsServed
