------------------------------- MODULE Mapper -------------------------------
(* The ROM loader and the bank registers of gb_cartridge.c. A ROM file is    *)
(* what its header says and how many banks it really has; the registers of   *)
(* the five supported mappers are never in use together, so they share       *)
(* romBank and bank2 here. Sizes are constants: LowSize stands for the 32    *)
(* values of the five low bits of MBC1, and so on.                           *)
EXTENDS Integers, FiniteSets

CONSTANTS
    LowSize,            \* values of MBC1's low ROM bits; it has four high ones
    Mbc2Size, Mbc3Size, \* values of the ROM bits of MBC2 and MBC3
    Mbc5Size,           \* values of the low ROM bits of MBC5, which has a high one
    ByteSize,           \* values of what a game writes into a register
    RomSizes,           \* bank counts a header can declare
    RamSizes            \* RAM bank counts a header can declare

\* A byte is wide enough for every register, and the largest ROM a header can
\* declare (512 banks) is what MBC5 addresses.
ASSUME MapperAssumption ==
    /\ ByteSize \in Nat /\ ByteSize >= 16
    /\ {LowSize, Mbc2Size, Mbc3Size, Mbc5Size} \subseteq 1 .. ByteSize
    /\ RomSizes \subseteq 1 .. (2 * Mbc5Size)
    /\ RamSizes \subseteq Nat

Mappers == {"none", "MBC1", "MBC2", "MBC3", "MBC5", "unsupported"}

Files == [mapper : Mappers, rumble : BOOLEAN, declared : RomSizes, ram : RamSizes,
          banks : RomSizes, valid : BOOLEAN]

VARIABLES
    cart,       \* the file in the slot, or Empty
    enabled,    \* ram_enabled
    romBank,    \* mbc1_rom_bank_low5, mbc2_, mbc3_ or mbc5_rom_bank
    bank2,      \* mbc1_bank_high2, mbc3_ram_rtc_select or mbc5_ram_bank
    mode,       \* mbc1_banking_mode
    rumbling    \* mbc5_rumble_active

registers == <<enabled, romBank, bank2, mode, rumbling>>
mapperVars == <<cart, registers>>

Empty == [mapper |-> "empty"]

-----------------------------------------------------------------------------

\* prepare_metadata. f.valid: logo and header checksum are right.
Accepted(f) ==
    /\ f.mapper # "unsupported" /\ f.valid
    /\ f.mapper = "MBC2" => f.declared <= Mbc2Size /\ f.ram = 0
    /\ f.mapper = "MBC1" => f.declared <= LowSize * 4
    /\ f.mapper = "MBC3" => f.declared <= Mbc3Size
    /\ f.banks = f.declared
    /\ f.mapper = "none" => f.declared = 2 /\ f.ram \in {0, 1}

OneForZero(v) == IF v = 0 THEN 1 ELSE v

\* The bank in 0000-3FFF: only MBC1 moves it, in its second mode.
LowerBank(f, high, m) ==
    IF f.mapper = "MBC1" /\ m = 1 THEN (high * LowSize) % f.declared ELSE 0

\* The bank in 4000-7FFF.
UpperBank(f, rom, high) ==
    CASE f.mapper = "none" -> 0
      [] f.mapper = "MBC1" -> (high * LowSize + OneForZero(rom)) % f.declared
      [] f.mapper \in {"MBC2", "MBC3"} -> OneForZero(rom) % f.declared
      [] f.mapper = "MBC5" -> rom % f.declared

\* The bank in A000-BFFF.
RamBank(f, high, m) ==
    IF f.ram = 0 \/ f.mapper \in {"none", "MBC2"} \/ (f.mapper = "MBC1" /\ m = 0) THEN 0
    ELSE IF f.mapper = "MBC3" THEN (high % 4) % f.ram
    ELSE high % f.ram

-----------------------------------------------------------------------------
(* What a write leaves in a register: mbc_write_control.                     *)

\* 2000-3FFF, or 2000-2FFF with MBC5, which keeps its ninth bit.
RomWritten(f, old, v) ==
    CASE f.mapper = "MBC1" -> OneForZero(v % LowSize)
      [] f.mapper = "MBC2" -> OneForZero(v % Mbc2Size)
      [] f.mapper = "MBC3" -> OneForZero(v % Mbc3Size)
      [] f.mapper = "MBC5" -> (old \div Mbc5Size) * Mbc5Size + (v % Mbc5Size)
      [] OTHER -> old

\* Mutant: the ninth bit replaces the other eight.
HighRomWrittenAlone(f, old, v) == IF f.mapper = "MBC5" THEN (v % 2) * Mbc5Size ELSE old

\* 3000-3FFF with MBC5: the ninth bit.
HighRomWritten(f, old, v) ==
    IF f.mapper = "MBC5" THEN (old % Mbc5Size) + (v % 2) * Mbc5Size ELSE old

Bank2Written(f, old, v) ==
    CASE f.mapper = "MBC1" -> v % 4
      [] f.mapper = "MBC3" -> v
      [] f.mapper = "MBC5" -> IF f.rumble THEN v % 8 ELSE v % 16
      [] OTHER -> old

Plugged == cart # Empty

WriteEnable(v) ==
    /\ Plugged /\ cart.mapper # "none"
    /\ enabled' = (v % 16 = 10)
    /\ UNCHANGED <<cart, romBank, bank2, mode, rumbling>>

WriteRom(v) ==
    /\ Plugged
    /\ romBank' \in {RomWritten(cart, romBank, v), HighRomWritten(cart, romBank, v)}
    /\ UNCHANGED <<cart, enabled, bank2, mode, rumbling>>

WriteBank2(v) ==
    /\ Plugged
    /\ bank2' = Bank2Written(cart, bank2, v)
    /\ rumbling' = (cart.mapper = "MBC5" /\ cart.rumble /\ (v \div 8) % 2 = 1)
    /\ UNCHANGED <<cart, enabled, romBank, mode>>

WriteMode(v) ==
    /\ Plugged /\ cart.mapper = "MBC1"
    /\ mode' = v % 2
    /\ UNCHANGED <<cart, enabled, romBank, bank2, rumbling>>

\* gb_cartridge_load after the emulator unloaded the game before.
Insert(f) ==
    /\ cart' = IF Accepted(f) THEN f ELSE Empty
    /\ enabled' = FALSE /\ romBank' = 1 /\ bank2' = 0 /\ mode' = 0 /\ rumbling' = FALSE

MapperInit ==
    /\ cart = Empty
    /\ enabled = FALSE /\ romBank = 1 /\ bank2 = 0 /\ mode = 0 /\ rumbling = FALSE

\* The value a game writes.
WrittenValues == 0..(ByteSize - 1)

MapperNext ==
    \/ \E v \in WrittenValues : WriteEnable(v) \/ WriteRom(v) \/ WriteBank2(v) \/ WriteMode(v)
    \/ \E f \in Files : Insert(f)

MapperSpec == MapperInit /\ [][MapperNext]_mapperVars

-----------------------------------------------------------------------------

(* The registers keep the widths of the code, and a motor runs in rumble     *)
(* cartridges only (reset_mbc_state, mbc_write_control).                     *)
MapperTypeOK ==
    /\ cart \in Files \union {Empty}
    /\ enabled \in BOOLEAN /\ mode \in {0, 1} /\ bank2 \in WrittenValues
    /\ romBank \in 0..(LowSize + Mbc2Size + Mbc3Size + 2 * Mbc5Size)
    /\ rumbling => Plugged /\ cart.rumble

\* The banks a game can bring into view by writing every register once.
InReach(f) ==
    LET roms == {HighRomWritten(f, RomWritten(f, romBank, v), w) : v \in WrittenValues, w \in {0, 1}}
        highs == {Bank2Written(f, bank2, v) : v \in WrittenValues}
    IN  {LowerBank(f, h, m) : h \in highs, m \in {0, 1}}
            \union {UpperBank(f, r, h) : r \in roms, h \in highs}

(* With a mapper, whatever its registers hold, the banks a game can bring    *)
(* into view are those of its file, all of them and no other, and the RAM    *)
(* bank in view is one it has: the adjustment of zero, the wrapping to the   *)
(* ROM, the banks only one window of MBC1 shows and the limits the loader    *)
(* puts on headers fit together (prepare_metadata, current_rom_bank,         *)
(* current_ram_bank).                                                        *)
BanksAreTheFile ==
    (Plugged /\ cart.mapper # "none") =>
        /\ InReach(cart) = 0..(cart.banks - 1)
        /\ {LowerBank(cart, bank2, mode), UpperBank(cart, romBank, bank2)}
              \subseteq 0..(cart.banks - 1)
        /\ RamBank(cart, bank2, mode) \in 0..(cart.ram - 1) \union {0}

(* Without a mapper the game sees its file as it is, the first bank in       *)
(* 0000-3FFF and the second in 4000-7FFF: "directly mapped without an MBC"   *)
(* (gb_cartridge.c:363).                                                     *)
DirectlyMapped ==
    (Plugged /\ cart.mapper = "none") =>
        /\ LowerBank(cart, bank2, mode) = 0
        /\ UpperBank(cart, romBank, bank2) = 1
=============================================================================
