CONSTANTS
    HostPerCycle = 2
    MaxElapsed = 10
    MaxBudget = 4
    MaxBatch = 2
    InstrTimes = {1, 3}
    Speeds = {1, 2}
    MaxLag = 11
SPECIFICATION HostSpec
INVARIANTS
    KeepsPace
