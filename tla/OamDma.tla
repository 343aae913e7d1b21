------------------------------- MODULE OamDma -------------------------------
(* OAM DMA (dma/gb_dma.c) and the CPU accesses it shuts out, which           *)
(* gb_memory_read8 and gb_memory_write8 ask dma_cpu_access_allowed about     *)
(* (memory/gb_memory.c).  Memory is the page a transfer reads in each        *)
(* region: what CPU writes, bank switches and HBlank DMA change while the    *)
(* transfer walks through it is the question.                                *)
EXTENDS Integers

CONSTANTS
    Length,        \* GB_DMA_TRANSFER_BYTES
    Bytes,         \* the values of a byte
    OpenBus,       \* what a source above $DFFF reads as: $FF
    Zero,
    NoWrite

ASSUME TransferAssumption == Length \in Nat \ {0}
ASSUME BytesAssumption == {OpenBus, Zero} \subseteq Bytes

\* Where a source page can lie; "cart" is ROM and cartridge RAM.
Regions == {"cart", "wram", "vram"}
Sources == Regions \union {"high"}

\* What the CPU can address, by what a write there can change.
Targets == {"cart", "wram", "vram", "oam", "io", "dma", "hram"}

Index == 0 .. Length - 1
Page == [Index -> Bytes]

VARIABLES
    cgb,           \* memory->mode
    mem, oam,
    active, double,    \* active, cgb_double_speed
    source,        \* source_high, by region
    index, delay, acc, \* transfer_index, startup_delay, cycle_accumulator
    snap,          \* history: the source page when the transfer started
    elapsed,       \* history: cycles since then, 0 when idle
    steady,        \* history: the speed has not changed since then
    wrote          \* history: the value the program last wrote to $FF46

dmaVars == <<active, source, index, delay, acc>>
histVars == <<snap, elapsed, steady>>
oamDmaVars == <<cgb, mem, oam, dmaVars, double, histVars, wrote>>

CyclesPerByte == IF double THEN 2 ELSE 4
StartDelay == IF double THEN 2 ELSE 4

\* Bounds the history; a transfer that ends in time never gets there.
MaxElapsed == 4 * (Length + 1)

OamDmaTypeOK ==
    /\ cgb \in BOOLEAN /\ active \in BOOLEAN /\ double \in BOOLEAN /\ steady \in BOOLEAN
    /\ mem \in [Regions -> Page] /\ oam \in Page /\ snap \in Page
    /\ source \in Sources
    /\ index \in 0 .. Length /\ delay \in 0 .. 4 /\ acc \in 0 .. 3
    /\ elapsed \in 0 .. MaxElapsed
    /\ wrote \in Sources \union {NoWrite}

OamDmaInit ==
    /\ cgb \in BOOLEAN
    /\ mem \in [Regions -> Page] /\ oam \in Page /\ snap = oam
    /\ active = FALSE /\ double = FALSE /\ steady = TRUE
    /\ source = "cart" /\ index = 0 /\ delay = 0 /\ acc = 0
    /\ elapsed = 0 /\ wrote = NoWrite

-----------------------------------------------------------------------------
\* Mutant: I/O registers open to the CPU in CGB mode.
AllowedIo(target) ==
    \/ ~active \/ target = "hram"
    \/ cgb /\ target = "io"

\* dma_cpu_access_allowed; the source keeps its bus, and with it the banks it
\* is read through.
Allowed(target) ==
    \/ ~active
    \/ target = "hram"
    \/ cgb /\ source = "cart" /\ target = "wram"
    \/ cgb /\ source = "wram" /\ target = "cart"

SourcePage(s) == IF s \in Regions THEN mem[s] ELSE [i \in Index |-> OpenBus]

SetByte(r, i, v) == mem' = [mem EXCEPT ![r][i] = v]
SetBank(r, p) == mem' = [mem EXCEPT ![r] = p]

\* A write to cartridge space writes a byte of its RAM or moves its banks, one
\* to an I/O register may move the WRAM or the VRAM bank.
CpuWrite(target) ==
    /\ Allowed(target)
    /\ \/ /\ target \in Regions /\ UNCHANGED oam
          /\ \E i \in Index, v \in Bytes : SetByte(target, i, v)
       \/ /\ target = "cart" /\ UNCHANGED oam
          /\ \E p \in Page : SetBank("cart", p)
       \/ /\ target = "io" /\ cgb /\ UNCHANGED oam
          /\ \E r \in {"wram", "vram"}, p \in Page : SetBank(r, p)
       \/ /\ target = "oam" /\ UNCHANGED mem
          /\ \E i \in Index, v \in Bytes : oam' = [oam EXCEPT ![i] = v]
    /\ UNCHANGED <<cgb, dmaVars, double, histVars, wrote>>

\* Mutant: a new transfer inherits the remainder of the one before it.
CpuWriteDmaKeepsAcc(s) ==
    /\ wrote' = s
    /\ IF Allowed("dma")
       THEN /\ active' = TRUE /\ source' = s
            /\ index' = 0 /\ delay' = StartDelay /\ acc' = acc
            /\ snap' = SourcePage(s) /\ elapsed' = 0 /\ steady' = TRUE
       ELSE UNCHANGED <<dmaVars, histVars>>
    /\ UNCHANGED <<cgb, mem, oam, double>>

\* A write to $FF46: gb_dma_write8 starts a transfer, if the write gets there.
CpuWriteDma(s) ==
    /\ wrote' = s
    /\ IF Allowed("dma")
       THEN /\ active' = TRUE /\ source' = s
            /\ index' = 0 /\ delay' = StartDelay /\ acc' = 0
            /\ snap' = SourcePage(s) /\ elapsed' = 0 /\ steady' = TRUE
       ELSE UNCHANGED <<dmaVars, histVars>>
    /\ UNCHANGED <<cgb, mem, oam, double>>

\* gb_memory_dma_write_vram8: HBlank DMA goes on during OAM DMA.
HdmaWritesVram ==
    /\ cgb
    /\ \E i \in Index, v \in Bytes : SetByte("vram", i, v)
    /\ UNCHANGED <<cgb, oam, dmaVars, double, histVars, wrote>>

\* gb_dma_set_cgb_double_speed, reached by STOP with a speed switch prepared.
SwitchSpeed ==
    /\ cgb
    /\ double' = ~double
    /\ steady' = FALSE
    /\ UNCHANGED <<cgb, mem, oam, dmaVars, snap, elapsed, wrote>>

Smaller(a, b) == IF a < b THEN a ELSE b

\* gb_dma_tick: first the startup delay, then as many bytes as are due.
OamDmaTick(t) ==
    LET rest == t - Smaller(t, delay)
        due == (acc + rest) \div CyclesPerByte
        last == Smaller(index + due, Length)
        page == SourcePage(source)
    IN  /\ active
        /\ delay' = delay - Smaller(t, delay)
        /\ IF rest = 0
           THEN UNCHANGED <<active, index, acc, oam>>
           ELSE /\ acc' = (acc + rest) % CyclesPerByte
                /\ oam' = [i \in Index |-> IF i \in index .. last - 1 THEN page[i]
                                           ELSE oam[i]]
                /\ index' = last
                /\ active' = (last < Length)
        /\ elapsed' = IF active' THEN Smaller(elapsed + t, MaxElapsed) ELSE 0
        /\ UNCHANGED <<cgb, mem, double, source, snap, steady, wrote>>

\* A CPU machine cycle is 4 hardware cycles, or 2 in double speed; a stalled
\* step of gb_emulator_step is always 4.
TickSizes == IF double THEN {2, 4} ELSE {4}
TickSome == \E t \in TickSizes : OamDmaTick(t)

\* gb_dma_reset and gb_memory_reset, which clears WRAM, VRAM and OAM.
Cleared == [i \in Index |-> Zero]

ResetOamDma ==
    /\ active' = FALSE /\ double' = FALSE /\ source' = "cart"
    /\ index' = 0 /\ delay' = 0 /\ acc' = 0
    /\ mem' = [mem EXCEPT !["wram"] = Cleared, !["vram"] = Cleared] /\ oam' = Cleared
    /\ elapsed' = 0 /\ steady' = TRUE /\ wrote' = NoWrite
    /\ UNCHANGED <<cgb, snap>>

OamDmaNext ==
    \/ \E target \in Targets : CpuWrite(target)
    \/ \E s \in Sources : CpuWriteDma(s)
    \/ HdmaWritesVram \/ SwitchSpeed \/ TickSome \/ ResetOamDma

OamDmaSpec == OamDmaInit /\ [][OamDmaNext]_oamDmaVars

-----------------------------------------------------------------------------
(* A transfer is as good as one that copies the page in an instant: whatever *)
(* the CPU does during it, OAM ends up with the page as it was at the start, *)
(* because the source keeps its bus and its banks.  VRAM is the exception,   *)
(* HBlank DMA may be rewriting it.                                           *)
OamIsSnapshot ==
    [][active /\ ~active' /\ source # "vram" /\ ~ResetOamDma => oam' = snap]_oamDmaVars

(* While it runs, the bytes copied are those of the snapshot and the others  *)
(* still hold it.                                                            *)
TransferIsSnapshot ==
    active /\ source # "vram" =>
        /\ \A i \in 0 .. index - 1 : oam[i] = snap[i]
        /\ \A i \in index .. Length - 1 : SourcePage(source)[i] = snap[i]

(* Time is accounted to the cycle: what has passed since the start is the    *)
(* delay served, the bytes copied and the remainder kept for the next tick   *)
(* (README.md: 640 T-cycles, or 320 in double speed).                        *)
TimeIsAccounted ==
    active /\ steady => elapsed = (StartDelay - delay) + index * CyclesPerByte + acc

(* "The DMA subsystem supports restart by writing $FF46 again" (README.md):  *)
(* the transfer in progress is the one the program asked for last.           *)
RestartTakesEffect == active => source = wrote
=============================================================================
