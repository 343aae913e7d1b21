CONSTANTS
    Length = 2
    Bytes <- McBytes
    OpenBus = "ff"
    Zero = "00"
    NoWrite = NoWrite
SPECIFICATION OamDmaSpec
INVARIANTS
    RestartTakesEffect
