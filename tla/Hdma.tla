-------------------------------- MODULE Hdma --------------------------------
(* VRAM DMA of the Game Boy Color (cgb/gb_cgb.c): general-purpose transfers, *)
(* which the write to HDMA5 completes, and HBlank transfers, which           *)
(* gb_cgb_tick advances when it sees the PPU in HBlank.  Both stall the CPU: *)
(* gb_emulator_step lets the hardware alone run until the stall is used up.  *)
(*                                                                           *)
(* Addresses are counted in 16-byte blocks and the content of a block is     *)
(* left out.  The PPU is PpuModes, its mode and line at the end of a tick,   *)
(* which Ppu implements.                                                     *)
EXTENDS Naturals

CONSTANTS
    SourceSpace,   \* the number of blocks of the address space
    SourceBlocks,  \* those that lie in cartridge, cartridge RAM or WRAM
    LastDst,       \* the last destination block in VRAM
    MaxLength,     \* the longest transfer
    BlockStall,    \* GB_CGB_HDMA_BLOCK_T_CYCLES
    CpuCycle,      \* hardware cycles of a CPU machine cycle: 4, or 2 in
                   \* double speed
    StallCycle,    \* hardware cycles of a stalled step: 4
    InstrCycles,   \* the most machine cycles of an instruction
    VisibleLines, TotalLines

\* The last block holds registers, so that no transfer wraps the address.
ASSUME SourceAssumption == SourceSpace \in Nat \ {0} /\ SourceBlocks \subseteq 0 .. SourceSpace - 2
ASSUME LengthAssumption == LastDst \in Nat /\ MaxLength \in Nat \ {0}
ASSUME TimeAssumption ==
    /\ BlockStall \in Nat \ {0} /\ CpuCycle \in Nat \ {0} /\ StallCycle \in Nat \ {0}
    /\ InstrCycles \in Nat \ {0}
ASSUME LinesAssumption ==
    VisibleLines \in Nat \ {0} /\ TotalLines \in Nat /\ VisibleLines < TotalLines

VARIABLES
    lcdOn, mode, ly,   \* the PPU
    cpu,           \* "between" instructions, "executing" a machine cycle, which
                   \* has "written" or not, or "halted"
    cycles,        \* the machine cycles the instruction still has
    failed,        \* a bus access returned an error, which ends the emulation
    hdma_active,        \* hdma_active
    hblank,        \* hdma_hblank_mode
    src, dst, left,    \* hdma_source, hdma_destination, hdma_blocks_remaining
    srcReg, dstReg,    \* HDMA1/HDMA2 and HDMA3/HDMA4
    prev,          \* previous_ppu_mode, or "none" while it is not valid
    stall,         \* cpu_stall_t_cycles
    job,           \* history: the HBlank transfer being served
    burst          \* history: blocks copied in this HBlank, 2 for any more

Lcd == INSTANCE PpuModes

ppuVars == <<lcdOn, mode, ly>>
xferVars == <<hdma_active, hblank, src, dst, left>>
cpuVars == <<cpu, cycles>>
hdmaVars == <<ppuVars, cpuVars, failed, xferVars, srcReg, dstReg, prev, stall, job, burst>>

Modes == Lcd!Modes
Jobs == [src : 0 .. SourceSpace - 1, dst : 0 .. LastDst, len : 1 .. MaxLength]

NoJob == [src |-> 0, dst |-> 0, len |-> 1]

HdmaTypeOK ==
    /\ lcdOn \in BOOLEAN /\ mode \in Modes /\ ly \in 0 .. TotalLines - 1
    /\ cpu \in {"between", "executing", "written", "halted"} /\ cycles \in 0 .. InstrCycles
    /\ failed \in BOOLEAN /\ hdma_active \in BOOLEAN /\ hblank \in BOOLEAN
    /\ src \in 0 .. SourceSpace - 1 /\ dst \in 0 .. LastDst + 1
    /\ left \in 0 .. MaxLength
    /\ srcReg \in 0 .. SourceSpace - 1 /\ dstReg \in 0 .. LastDst
    /\ prev \in Modes \union {"none"}
    /\ stall \in Nat
    /\ job \in Jobs /\ burst \in 0 .. 2

HdmaInit ==
    /\ Lcd!Init
    /\ cpu = "between" /\ cycles = 0 /\ failed = FALSE
    /\ hdma_active = FALSE /\ hblank = FALSE /\ src = 0 /\ dst = 0 /\ left = 0
    /\ srcReg = 0 /\ dstReg = 0
    /\ prev = "none" /\ stall = 0
    /\ job = NoJob /\ burst = 0

-----------------------------------------------------------------------------
Least(a, b) == IF a < b THEN a ELSE b

\* Mutant: the next block comes from where the registers point.
CopyBlocksFromRegisters(n) ==
    LET ends == left = n \/ dst + n > LastDst
    IN  /\ src' = srcReg + n /\ srcReg' = srcReg + n
        /\ dst' = dst + n /\ dstReg' = (dst + n) % (LastDst + 1)
        /\ left' = IF ends THEN 0 ELSE left - n
        /\ hdma_active' = ~ends /\ hblank' = (hblank /\ ~ends)

\* n blocks are copied; a transfer ends with its last block or that of VRAM.
CopyBlocks(n) ==
    LET ends == left = n \/ dst + n > LastDst
    IN  /\ src' = src + n /\ srcReg' = src + n
        /\ dst' = dst + n /\ dstReg' = (dst + n) % (LastDst + 1)
        /\ left' = IF ends THEN 0 ELSE left - n
        /\ hdma_active' = ~ends /\ hblank' = (hblank /\ ~ends)

-----------------------------------------------------------------------------
(* One hardware tick: the PPU first, then the CGB unit sees its mode.        *)

\* What has to happen for a block to be copied at this tick.
WantsBlock ==
    /\ hdma_active /\ hblank
    /\ mode' = "hblank" /\ ly' < VisibleLines
    /\ prev # "hblank"
    /\ cpu # "halted"

CopyOneBlock ==
    IF src \in SourceBlocks
    THEN /\ CopyBlocks(1)
         /\ burst' = IF mode = "hblank" THEN Least(burst + 1, 2) ELSE 1
         /\ UNCHANGED failed
    ELSE /\ failed' = TRUE
         /\ burst' = IF mode = "hblank" THEN burst ELSE 0
         /\ UNCHANGED <<xferVars, srcReg, dstReg>>

\* gb_cgb_tick: the stall first, then cgb_tick_hblank, which remembers the
\* mode it saw unless it copied or no HBlank transfer was waiting.
CgbTick(t) ==
    LET rest == stall - Least(t, stall) IN
    IF WantsBlock
    THEN /\ CopyOneBlock
         /\ stall' = rest + (IF src \in SourceBlocks THEN BlockStall ELSE 0)
         /\ UNCHANGED prev
    ELSE /\ stall' = rest
         /\ prev' = IF hdma_active /\ hblank THEN mode' ELSE prev
         /\ burst' = IF mode' = "hblank" /\ mode = "hblank" THEN burst ELSE 0
         /\ UNCHANGED <<xferVars, srcReg, dstReg, failed>>

HdmaTick(t) ==
    /\ Lcd!Tick
    /\ CgbTick(t)
    /\ job' = IF hdma_active' THEN job ELSE NoJob

-----------------------------------------------------------------------------
(* The emulator loop and the CPU. *)

InInstruction == cpu \in {"executing", "written"}

\* Mutant: the last cycle of a stall is never run.
StalledStepShort ==
    /\ ~failed /\ ~InInstruction /\ stall > StallCycle
    /\ HdmaTick(StallCycle)
    /\ UNCHANGED cpuVars

\* gb_emulator_step while the CPU is stalled.
StalledStep ==
    /\ ~failed /\ ~InInstruction /\ stall # 0
    /\ HdmaTick(StallCycle)
    /\ UNCHANGED cpuVars

BeginInstruction ==
    /\ ~failed /\ ~InInstruction /\ stall = 0
    /\ cpu' = "executing" /\ cycles' \in 1 .. InstrCycles
    /\ UNCHANGED <<ppuVars, failed, xferVars, srcReg, dstReg, prev, stall, job, burst>>

HaltedStep ==
    /\ ~failed /\ cpu = "halted" /\ stall = 0
    /\ HdmaTick(CpuCycle)
    /\ UNCHANGED cpuVars

\* The bus access of a machine cycle comes before its tick (cpu_bus_write8).
MachineCycle ==
    /\ ~failed /\ InInstruction /\ cycles # 0
    /\ HdmaTick(CpuCycle)
    /\ cpu' = "executing" /\ cycles' = cycles - 1

\* HALT ends with the CPU halted, every other instruction does not.
EndInstruction ==
    /\ ~failed /\ cpu = "executing" /\ cycles = 0
    /\ cpu' \in {"between", "halted"}
    /\ UNCHANGED <<ppuVars, cycles, failed, xferVars, srcReg, dstReg, prev, stall, job, burst>>

\* A register write of the running instruction.
Writes ==
    /\ ~failed /\ cpu = "executing" /\ cycles # 0
    /\ cpu' = "written" /\ UNCHANGED cycles

\* Writes to HDMA1-HDMA4.
WriteAddress ==
    /\ Writes
    /\ \/ srcReg' \in 0 .. SourceSpace - 1 /\ UNCHANGED dstReg
       \/ dstReg' \in 0 .. LastDst /\ UNCHANGED srcReg
    /\ UNCHANGED <<ppuVars, failed, xferVars, prev, stall, job, burst>>

\* A write to HDMA5 with bit 7 clear ends a waiting HBlank transfer.
CancelHdma ==
    /\ Writes
    /\ hdma_active /\ hblank
    /\ hdma_active' = FALSE /\ hblank' = FALSE
    /\ job' = NoJob
    /\ UNCHANGED <<ppuVars, failed, src, dst, left, srcReg, dstReg, prev, stall, burst>>

\* start_hdma: the transfer waits for HBlank.
StartHblank ==
    /\ Writes /\ ~hdma_active
    /\ srcReg \in SourceBlocks
    /\ \E len \in 1 .. MaxLength :
          left' = len /\ job' = [src |-> srcReg, dst |-> dstReg, len |-> len]
    /\ hdma_active' = TRUE /\ hblank' = TRUE /\ src' = srcReg /\ dst' = dstReg
    /\ UNCHANGED <<ppuVars, failed, srcReg, dstReg, prev, stall, burst>>

\* start_hdma: every block at once, up to the end of VRAM, or to the first
\* source block outside the valid ranges, where the transfer is left half done.
StartGeneral ==
    /\ Writes /\ ~hdma_active
    /\ srcReg \in SourceBlocks
    /\ \E len, n \in 1 .. MaxLength :
         LET wanted == Least(len, LastDst + 1 - dstReg)
             stuck == n < wanted
         IN  /\ n <= wanted /\ \A k \in 1 .. n - 1 : srcReg + k \in SourceBlocks
             /\ stuck => srcReg + n \notin SourceBlocks
             /\ src' = srcReg + n /\ srcReg' = srcReg + n
             /\ dst' = dstReg + n /\ dstReg' = (dstReg + n) % (LastDst + 1)
             /\ left' = IF stuck THEN len - n ELSE 0
             /\ hdma_active' = stuck /\ failed' = stuck
             /\ stall' = stall + n * BlockStall
    /\ hblank' = FALSE
    /\ UNCHANGED <<ppuVars, prev, job, burst>>

StartFails ==
    /\ Writes /\ ~hdma_active
    /\ srcReg \notin SourceBlocks
    /\ failed' = TRUE
    /\ UNCHANGED <<ppuVars, xferVars, srcReg, dstReg, prev, stall, job, burst>>

SwitchLcd ==
    /\ Writes
    /\ Lcd!SwitchLcd
    /\ burst' = 0
    /\ UNCHANGED <<failed, xferVars, srcReg, dstReg, prev, stall, job>>

\* gb_ppu_reset, gb_cgb_reset and gb_cpu_reset, called by gb_emulator_reset.
ResetHdma ==
    /\ ~InInstruction \/ failed
    /\ Lcd!Reset
    /\ cpu' = "between" /\ cycles' = 0 /\ failed' = FALSE
    /\ hdma_active' = FALSE /\ hblank' = FALSE /\ src' = 0 /\ dst' = 0 /\ left' = 0
    /\ srcReg' = 0 /\ dstReg' = 0 /\ prev' = "none" /\ stall' = 0
    /\ burst' = 0 /\ job' = NoJob

Steps == StalledStep \/ HaltedStep \/ BeginInstruction \/ MachineCycle \/ EndInstruction
RegisterWrites ==
    WriteAddress \/ CancelHdma \/ StartHblank \/ StartGeneral \/ StartFails \/ SwitchLcd

HdmaNext == Steps \/ RegisterWrites \/ ResetHdma

HdmaSpec == HdmaInit /\ [][HdmaNext]_hdmaVars

-----------------------------------------------------------------------------
(* A transfer in progress has copied a prefix of what was asked: no block is *)
(* skipped, copied twice or taken from the wrong place, however its blocks   *)
(* are spread over lines and whatever the program writes to HDMA1-4 in       *)
(* between, and the next block fits in VRAM.  A general-purpose transfer     *)
(* never survives the write that started it, or HDMA5 would ignore every     *)
(* later write.                                                              *)
CopiedIsPrefix ==
    hdma_active /\ ~failed =>
        LET done == job.len - left IN
        /\ hblank
        /\ left \in 1 .. job.len
        /\ src = job.src + done
        /\ dst = job.dst + done /\ dst <= LastDst

(* The CPU always gets out of a stall, although HBlank transfers prolong it  *)
(* while it lasts, unless an HDMA source error ends the emulation.           *)
StallEnds == stall # 0 ~> (stall = 0 \/ failed)

(* "HBlank DMA transfers one 16-byte block per visible-line HBlank"          *)
(* (README.md): never a second block in the same HBlank of a running LCD.    *)
AtMostOneBlockPerHblank == lcdOn => burst <= 1
=============================================================================
