CONSTANTS
    LowSize = 4
    Mbc2Size = 4
    Mbc3Size = 8
    Mbc5Size = 8
    ByteSize = 16
    RomSizes = {2, 4, 6, 16}
    RamSizes = {0, 4}
SPECIFICATION MapperSpec
INVARIANTS
    DirectlyMapped
