CONSTANTS
    Games <- McGames
    Values <- McValues
    Fill = "ff"
    Faults <- AllFaults
    NoGame = NoGame
    NoFile = NoFile
    Partial = Partial
    LowSize = 4
    Mbc2Size = 4
    Mbc3Size = 8
    Mbc5Size = 8
    ByteSize = 16
    RomSizes = {2, 4, 6, 16}
    RamSizes = {0, 4}
    SecondLength = 2
    Sizes <- McSizes
    TickLengths = {1, 2}
    Bytes = {0, 1, 2}
SPECIFICATION McSpec
INVARIANTS
    CartridgeTypeOK
    DiskNeverTorn
    CleanMeansSaved
    BanksAreTheFile
PROPERTIES
    IsRealTimeClock
