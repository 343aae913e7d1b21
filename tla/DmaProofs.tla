------------------------------ MODULE DmaProofs ------------------------------
(* OAM DMA for every length of a transfer and every byte, and VRAM DMA for   *)
(* any address space, transfer length, stall and screen, whatever the        *)
(* program writes meanwhile.                                                 *)
EXTENDS Hdma, OamDma, TLAPS

-----------------------------------------------------------------------------
(* Bytes due and remainder, at either speed.                                 *)
LEMMA Division ==
    ASSUME NEW a \in Nat, NEW c \in {2, 4}
    PROVE  /\ a \div c \in Nat /\ a % c \in 0 .. 3
           /\ (a \div c) * c + (a % c) = a
<1>1. CASE c = 2
    BY <1>1, SMT
<1>2. CASE c = 4
    BY <1>2, SMT
<1> QED BY <1>1, <1>2

LEMMA BytesTime ==
    ASSUME NEW i \in Nat, NEW c \in {2, 4}
    PROVE  i * c \in Nat /\ i * c <= 4 * i
<1>1. CASE c = 2
    BY <1>1
<1>2. CASE c = 4
    BY <1>2
<1> QED BY <1>1, <1>2

(* A transfer that has not ended has run for less than MaxElapsed. *)
LEMMA ElapsedBound ==
    ASSUME NEW len \in Nat, NEW i \in Nat, i < len, NEW c \in {2, 4},
           NEW s \in {2, 4}, NEW d \in 0 .. 4, NEW a \in 0 .. 3
    PROVE  (s - d) + i * c + a < 4 * (len + 1)
<1>1. i * c \in Nat /\ i * c <= 4 * i
    BY BytesTime
<1>2. s - d <= 4 /\ s - d \in Int
    OBVIOUS
<1> QED BY <1>1, <1>2

(* What is in the page a transfer reads. *)
LEMMA SourcePageType ==
    ASSUME OamDmaTypeOK, NEW s \in Sources
    PROVE  SourcePage(s) \in Page
BY BytesAssumption DEF OamDmaTypeOK, SourcePage, Page, Sources

(* A running transfer has bytes left to copy. *)
IndexInRange == active => index < Length

DmaInv == OamDmaTypeOK /\ IndexInRange /\ TransferIsSnapshot /\ TimeIsAccounted

(* The arithmetic of one tick: the delay served and the bytes due.           *)
LEMMA TickArithmetic ==
    ASSUME OamDmaTypeOK, NEW t \in {2, 4},
           NEW rest, rest = t - Smaller(t, delay),
           NEW due, due = (acc + rest) \div CyclesPerByte
    PROVE  /\ rest \in 0 .. 4 /\ due \in Nat
           /\ delay - Smaller(t, delay) \in 0 .. 4
           /\ delay - Smaller(t, delay) = (delay + rest) - t
           /\ (acc + rest) % CyclesPerByte \in 0 .. 3
           /\ due * CyclesPerByte + ((acc + rest) % CyclesPerByte) = acc + rest
<1>1. CyclesPerByte \in {2, 4}
    BY DEF CyclesPerByte
<1>2. rest \in 0 .. 4 /\ delay - Smaller(t, delay) \in 0 .. 4
      /\ delay - Smaller(t, delay) = (delay + rest) - t
    BY DEF OamDmaTypeOK, Smaller
<1>3. acc + rest \in Nat
    <2>1. acc \in 0 .. 3
        BY DEF OamDmaTypeOK
    <2> QED BY <1>2, <2>1, SMTT(30)
<1> QED BY <1>1, <1>2, <1>3, Division

(* One tick keeps the types, copies bytes of the page and accounts for its   *)
(* cycles.                                                                   *)
LEMMA TickKeepsInv ==
    ASSUME DmaInv, NEW t \in {2, 4}, OamDmaTick(t)
    PROVE  DmaInv'
<1> DEFINE rest == t - Smaller(t, delay)
           due == (acc + rest) \div CyclesPerByte
           last == Smaller(index + due, Length)
           page == SourcePage(source)
<1>0. OamDmaTypeOK /\ IndexInRange /\ TransferIsSnapshot /\ TimeIsAccounted
    BY DEF DmaInv
<1>1. /\ rest \in 0 .. 4 /\ due \in Nat
      /\ delay - Smaller(t, delay) \in 0 .. 4
      /\ delay - Smaller(t, delay) = (delay + rest) - t
      /\ (acc + rest) % CyclesPerByte \in 0 .. 3
      /\ due * CyclesPerByte + ((acc + rest) % CyclesPerByte) = acc + rest
    BY <1>0, TickArithmetic
<1>2. /\ active
      /\ delay' = delay - Smaller(t, delay)
      /\ \/ rest = 0 /\ UNCHANGED <<active, index, acc, oam>>
         \/ /\ rest # 0
            /\ acc' = (acc + rest) % CyclesPerByte
            /\ oam' = [i \in Index |-> IF i \in index .. last - 1 THEN page[i]
                                       ELSE oam[i]]
            /\ index' = last
            /\ active' = (last < Length)
      /\ elapsed' = IF active' THEN Smaller(elapsed + t, MaxElapsed) ELSE 0
      /\ UNCHANGED <<cgb, mem, double, source, snap, steady, wrote>>
    BY DEF OamDmaTick
<1>3. index \in 0 .. Length /\ index < Length /\ delay \in 0 .. 4 /\ acc \in 0 .. 3
      /\ elapsed \in 0 .. MaxElapsed /\ Length \in Nat \ {0}
    BY <1>0, <1>2, TransferAssumption DEF OamDmaTypeOK, IndexInRange
<1>4. page \in Page
    BY <1>0, SourcePageType DEF OamDmaTypeOK
<1>5. last \in 0 .. Length /\ last >= index /\ (last < Length => last = index + due)
    BY <1>1, <1>3 DEF Smaller
<1> HIDE DEF rest, due, last, page
<1>6. index' \in 0 .. Length /\ (active' => index' < Length) /\ active' \in BOOLEAN
    <2>1. CASE rest = 0
        BY <2>1, <1>2, <1>3
    <2>2. CASE rest # 0
        <3>1. index' = last
            BY <2>2, <1>2
        <3>2. index' \in 0 .. Length
            BY <3>1, <1>5
        <3>3. active' = (last < Length)
            BY <2>2, <1>2, Zenon
        <3>4. CASE last < Length
            BY <3>1, <3>2, <3>3, <3>4, Zenon
        <3>5. CASE ~(last < Length)
            <4>1. (last < Length) = FALSE
                BY <3>5
            <4>2. active' = FALSE
                BY <3>3, <4>1, Zenon
            <4> QED BY <3>2, <4>2, Zenon
        <3> QED BY <3>4, <3>5, Zenon
    <2> QED BY <2>1, <2>2
<1>7. oam' \in Page
    <2>1. oam \in Page
        BY <1>0 DEF OamDmaTypeOK
    <2> QED BY <2>1, <1>2, <1>4 DEF Page
<1>8. delay' \in 0 .. 4 /\ acc' \in 0 .. 3
    BY <1>1, <1>2, <1>3
<1>9. elapsed' \in 0 .. MaxElapsed
    <2>1. MaxElapsed \in Nat
        BY <1>3 DEF MaxElapsed
    <2>2. Smaller(elapsed + t, MaxElapsed) \in 0 .. MaxElapsed
        BY <2>1, <1>3 DEF Smaller
    <2> QED BY <2>1, <2>2, <1>2
<1>10. OamDmaTypeOK'
    BY <1>0, <1>2, <1>6, <1>7, <1>8, <1>9 DEF OamDmaTypeOK, Page
<1>11. TransferIsSnapshot'
    <2> SUFFICES ASSUME active', source # "vram"
                 PROVE  /\ \A i \in 0 .. index' - 1 : oam'[i] = snap[i]
                        /\ \A i \in index' .. Length - 1 : page[i] = snap[i]
        BY <1>2 DEF TransferIsSnapshot, page, SourcePage
    <2>1. /\ \A i \in 0 .. index - 1 : oam[i] = snap[i]
          /\ \A i \in index .. Length - 1 : page[i] = snap[i]
        BY <1>0, <1>2 DEF TransferIsSnapshot, page
    <2>2. CASE rest = 0
        BY <2>1, <2>2, <1>2
    <2>3. CASE rest # 0
        <3>1. index' = last
              /\ oam' = [i \in Index |-> IF i \in index .. last - 1 THEN page[i]
                                         ELSE oam[i]]
            BY <2>3, <1>2
        <3>2. ASSUME NEW i \in 0 .. last - 1 PROVE oam'[i] = snap[i]
            BY <3>1, <2>1, <1>3, <1>5 DEF Index
        <3>3. ASSUME NEW i \in last .. Length - 1 PROVE page[i] = snap[i]
            BY <2>1, <1>3, <1>5
        <3> QED BY <3>1, <3>2, <3>3
    <2> QED BY <2>2, <2>3
<1>12. TimeIsAccounted'
    <2> SUFFICES ASSUME active', steady
                 PROVE  elapsed' = (StartDelay - delay') + index' * CyclesPerByte + acc'
        BY <1>2 DEF TimeIsAccounted, StartDelay, CyclesPerByte
    <2>1. elapsed = (StartDelay - delay) + index * CyclesPerByte + acc
        BY <1>0, <1>2 DEF TimeIsAccounted
    <2>2. StartDelay \in {2, 4} /\ CyclesPerByte \in {2, 4}
        BY DEF StartDelay, CyclesPerByte
    <2>3. index' * CyclesPerByte + acc' = index * CyclesPerByte + acc + rest
        <3>1. CASE rest = 0
            BY <3>1, <2>2, <1>2, <1>3
        <3>2. CASE rest # 0
            <4>1. index' = index + due /\ acc' = (acc + rest) % CyclesPerByte
                BY <3>2, <1>2, <1>5
            <4>2. acc' + due * CyclesPerByte = acc + rest /\ acc' \in 0 .. 3
                BY <4>1, <1>1, <2>2
            <4>3. (index + due) * CyclesPerByte = index * CyclesPerByte + due * CyclesPerByte
                BY <1>1, <1>3, <2>2
            <4>4. index * CyclesPerByte \in Nat /\ due * CyclesPerByte \in Nat
                BY <1>1, <1>3, <2>2
            <4> QED BY <4>1, <4>2, <4>3, <4>4, <1>1, <1>3
        <3> QED BY <3>1, <3>2
    <2>4. elapsed + t = (StartDelay - delay') + index' * CyclesPerByte + acc'
        <3>1. delay' = (delay + rest) - t
            BY <1>1, <1>2
        <3>2. index * CyclesPerByte \in Nat /\ index' * CyclesPerByte \in Nat
            <4>1. index \in Nat /\ index' \in Nat
                BY <1>3, <1>6
            <4> QED BY <4>1, <2>2, BytesTime
        <3> QED BY <3>1, <3>2, <2>1, <2>2, <2>3, <1>1, <1>3, <1>8
    <2>5. elapsed + t < MaxElapsed
        <3>1. index' \in Nat /\ index' < Length /\ Length \in Nat
            BY <1>3, <1>6
        <3> QED BY <3>1, <2>2, <2>4, <1>8, ElapsedBound DEF MaxElapsed
    <2>6. Smaller(elapsed + t, MaxElapsed) = elapsed + t
        BY <2>5 DEF Smaller
    <2> QED BY <2>4, <2>6, <1>2, Zenon
<1> QED BY <1>6, <1>10, <1>11, <1>12 DEF DmaInv, IndexInRange

(* Whatever the CPU and HBlank DMA may reach during a transfer is not what   *)
(* it reads.                                                                 *)
LEMMA StepKeepsInv ==
    ASSUME DmaInv, [OamDmaNext]_oamDmaVars
    PROVE  DmaInv'
<1>0. OamDmaTypeOK /\ IndexInRange /\ TransferIsSnapshot /\ TimeIsAccounted
    BY DEF DmaInv
<1>1. ASSUME NEW target \in Targets, CpuWrite(target) PROVE DmaInv'
    <2>1. /\ Allowed(target)
          /\ UNCHANGED <<cgb, active, source, index, delay, acc, double, snap, elapsed,
                         steady, wrote>>
        BY <1>1 DEF CpuWrite, dmaVars, histVars
    <2>2. mem' \in [Regions -> Page] /\ oam' \in Page
        BY <1>0, <1>1 DEF CpuWrite, SetByte, SetBank, OamDmaTypeOK, Page
    <2>3. active /\ source # "vram" => oam' = oam /\ SourcePage(source)' = SourcePage(source)
        BY <1>0, <1>1, <2>1
           DEF CpuWrite, Allowed, SetByte, SetBank, SourcePage, OamDmaTypeOK, Sources, Regions
    <2>4. OamDmaTypeOK'
        BY <1>0, <2>1, <2>2 DEF OamDmaTypeOK, Page, MaxElapsed
    <2>5. TransferIsSnapshot'
        BY <1>0, <2>1, <2>3 DEF TransferIsSnapshot
    <2>6. TimeIsAccounted' /\ IndexInRange'
        BY <1>0, <2>1 DEF TimeIsAccounted, IndexInRange, StartDelay, CyclesPerByte
    <2> QED BY <2>4, <2>5, <2>6 DEF DmaInv
<1>2. ASSUME NEW s \in Sources, CpuWriteDma(s) PROVE DmaInv'
    <2>1. CASE Allowed("dma")
        <3>1. /\ active' = TRUE /\ source' = s /\ index' = 0 /\ delay' = StartDelay
              /\ acc' = 0 /\ snap' = SourcePage(s) /\ elapsed' = 0 /\ steady' = TRUE
              /\ wrote' = s /\ UNCHANGED <<cgb, mem, oam, double>>
            BY <1>2, <2>1 DEF CpuWriteDma
        <3>2. SourcePage(s) \in Page
            BY <1>0, SourcePageType
        <3>3. StartDelay \in 0 .. 4 /\ 0 \in 0 .. Length /\ 0 \in 0 .. 3
              /\ 0 \in 0 .. MaxElapsed /\ 0 < Length
            BY TransferAssumption DEF StartDelay, MaxElapsed
        <3>4. OamDmaTypeOK'
            BY <1>0, <3>1, <3>2, <3>3 DEF OamDmaTypeOK, Page, MaxElapsed
        <3>5. TransferIsSnapshot'
            BY <3>1 DEF TransferIsSnapshot, SourcePage
        <3>6. TimeIsAccounted'
            <4>1. 0 = (StartDelay - StartDelay) + 0 * CyclesPerByte + 0
                BY DEF StartDelay, CyclesPerByte
            <4>2. UNCHANGED <<StartDelay, CyclesPerByte>>
                BY <3>1 DEF StartDelay, CyclesPerByte
            <4> QED BY <3>1, <4>1, <4>2 DEF TimeIsAccounted
        <3>7. IndexInRange'
            BY <3>1, <3>3 DEF IndexInRange
        <3> QED BY <3>4, <3>5, <3>6, <3>7 DEF DmaInv
    <2>2. CASE ~Allowed("dma")
        <3>1. UNCHANGED <<cgb, mem, oam, active, source, index, delay, acc, double, snap,
                          elapsed, steady>> /\ wrote' \in Sources
            BY <1>2, <2>2 DEF CpuWriteDma, dmaVars, histVars
        <3> QED BY <1>0, <3>1 DEF DmaInv, OamDmaTypeOK, TransferIsSnapshot, TimeIsAccounted,
                   IndexInRange, SourcePage, StartDelay, CyclesPerByte, Page, MaxElapsed
    <2> QED BY <2>1, <2>2
<1>3. CASE HdmaWritesVram
    <2>1. UNCHANGED <<cgb, oam, active, source, index, delay, acc, double, snap, elapsed,
                      steady, wrote>>
        BY <1>3 DEF HdmaWritesVram, dmaVars, histVars
    <2>2. mem' \in [Regions -> Page]
        <3>1. PICK i \in Index, v \in Bytes : mem' = [mem EXCEPT !["vram"][i] = v]
            BY <1>3 DEF HdmaWritesVram, SetByte
        <3>2. mem \in [Regions -> Page]
            BY <1>0 DEF OamDmaTypeOK
        <3> QED BY <3>1, <3>2 DEF Page
    <2>3. source # "vram" => SourcePage(source)' = SourcePage(source)
        BY <1>0, <1>3, <2>1 DEF HdmaWritesVram, SetByte, SourcePage, OamDmaTypeOK, Sources, Regions
    <2>4. OamDmaTypeOK'
        BY <1>0, <2>1, <2>2 DEF OamDmaTypeOK, Page, MaxElapsed
    <2> QED BY <1>0, <2>1, <2>3, <2>4
        DEF DmaInv, TransferIsSnapshot, TimeIsAccounted, IndexInRange, StartDelay,
            CyclesPerByte
<1>4. CASE SwitchSpeed
    BY <1>0, <1>4 DEF SwitchSpeed, dmaVars, DmaInv, OamDmaTypeOK, TransferIsSnapshot,
       TimeIsAccounted, IndexInRange, SourcePage, Page, MaxElapsed
<1>5. CASE TickSome
    <2>1. PICK t \in {2, 4} : OamDmaTick(t)
        BY <1>5 DEF TickSome, TickSizes
    <2> QED BY <2>1, TickKeepsInv
<1>6. CASE ResetOamDma
    <2>1. Cleared \in Page
        BY BytesAssumption DEF Cleared, Page
    <2>2. 0 \in 0 .. Length /\ 0 \in 0 .. 3 /\ 0 \in 0 .. 4 /\ 0 \in 0 .. MaxElapsed
        BY TransferAssumption DEF MaxElapsed
    <2>3. OamDmaTypeOK'
        BY <1>0, <1>6, <2>1, <2>2 DEF ResetOamDma, OamDmaTypeOK, Page, Sources, Regions, MaxElapsed
    <2> QED BY <1>6, <2>3
        DEF ResetOamDma, DmaInv, TransferIsSnapshot, TimeIsAccounted, IndexInRange
<1>7. CASE UNCHANGED oamDmaVars
    BY <1>0, <1>7 DEF oamDmaVars, dmaVars, histVars, DmaInv, OamDmaTypeOK, TransferIsSnapshot,
       TimeIsAccounted, IndexInRange, SourcePage, StartDelay, CyclesPerByte, Page, MaxElapsed
<1> QED BY <1>1, <1>2, <1>3, <1>4, <1>5, <1>6, <1>7 DEF OamDmaNext

LEMMA InitHasInv == OamDmaInit => DmaInv
<1> SUFFICES ASSUME OamDmaInit PROVE DmaInv
    OBVIOUS
<1>1. 0 \in 0 .. Length /\ 0 \in 0 .. 3 /\ 0 \in 0 .. 4 /\ 0 \in 0 .. MaxElapsed
    BY TransferAssumption DEF MaxElapsed
<1> QED BY <1>1 DEF OamDmaInit, DmaInv, OamDmaTypeOK, TransferIsSnapshot, TimeIsAccounted, IndexInRange,
       Sources, Regions

LEMMA DmaInvariant == OamDmaSpec => []DmaInv
BY InitHasInv, StepKeepsInv, PTL DEF OamDmaSpec

(* The registers stay within the transfer, whatever its length.              *)
THEOREM DmaTypeCorrect == OamDmaSpec => []OamDmaTypeOK
BY DmaInvariant, PTL DEF DmaInv

(* What the CPU, a bank switch or HBlank DMA does during a transfer cannot   *)
(* be seen in the bytes it has copied, nor in those it still has to read.    *)
THEOREM TransferHoldsSnapshot == OamDmaSpec => []TransferIsSnapshot
BY DmaInvariant, PTL DEF DmaInv

(* No cycle is lost or counted twice between two ticks.                      *)
THEOREM TimeAccounted == OamDmaSpec => []TimeIsAccounted
BY DmaInvariant, PTL DEF DmaInv

(* A transfer that ends leaves in OAM the page as it was when it started.    *)
LEMMA LastByte ==
    ASSUME DmaInv, [OamDmaNext]_oamDmaVars, active, ~active', source # "vram", ~ResetOamDma
    PROVE  oam' = snap
<1>0. OamDmaTypeOK /\ IndexInRange /\ TransferIsSnapshot
    BY DEF DmaInv
<1>1. PICK t \in {2, 4} : OamDmaTick(t)
    BY DEF OamDmaNext, oamDmaVars, dmaVars, CpuWrite, CpuWriteDma, HdmaWritesVram, SwitchSpeed, TickSome,
           TickSizes
<1> DEFINE last == Smaller(index + ((acc + (t - Smaller(t, delay))) \div CyclesPerByte), Length)
           page == SourcePage(source)
<1>2. active' = (last < Length) /\ oam' = [i \in Index |-> IF i \in index .. last - 1
                                                           THEN page[i] ELSE oam[i]]
    BY <1>1 DEF OamDmaTick
<1>3. index \in 0 .. Length /\ index < Length /\ Length \in Nat
    BY <1>0, TransferAssumption DEF OamDmaTypeOK, IndexInRange
<1>4. last = Length
    BY <1>0, <1>1, <1>2, <1>3, TickArithmetic DEF Smaller
<1> HIDE DEF last
<1>5. ASSUME NEW i \in Index PROVE oam'[i] = snap[i]
    BY <1>0, <1>2, <1>3, <1>4, <1>5 DEF TransferIsSnapshot, Index
<1> QED BY <1>0, <1>2, <1>5 DEF OamDmaTypeOK, Page

(* DMA looks instantaneous to the program, for sources outside VRAM.         *)
THEOREM OamHoldsSnapshot == OamDmaSpec => OamIsSnapshot
<1>1. DmaInv /\ [OamDmaNext]_oamDmaVars
        => [active /\ ~active' /\ source # "vram" /\ ~ResetOamDma => oam' = snap]_oamDmaVars
    BY LastByte
<1> QED BY <1>1, DmaInvariant, PTL DEF OamDmaSpec, OamIsSnapshot

-----------------------------------------------------------------------------
(* VRAM DMA copies what it was asked for.                                    *)

(* What each mode of the PPU says of its line. *)
LinesInv ==
    /\ lcdOn \in BOOLEAN /\ mode \in Modes /\ ly \in 0 .. TotalLines - 1
    /\ mode # "vblank" => ly < VisibleLines

(* CopiedIsPrefix also needs to know that only a running HBlank transfer     *)
(* waits for HBlank.                                                         *)
HdmaInv == HdmaTypeOK /\ LinesInv /\ CopiedIsPrefix

LEMMA NoJobType ==
    NoJob \in Jobs /\ 0 \in 0 .. SourceSpace - 1 /\ 0 \in 0 .. LastDst /\ 0 \in 0 .. MaxLength
BY SourceAssumption, LengthAssumption DEF NoJob, Jobs

(* Every step of the PPU keeps its line on the screen.                       *)
LEMMA LinesStep ==
    ASSUME LinesInv, Lcd!Tick \/ Lcd!SwitchLcd \/ Lcd!Reset
    PROVE  LinesInv'
<1> USE LinesAssumption DEF LinesInv, Modes, Lcd!Modes
<1>1. CASE Lcd!Tick /\ mode = "vblank"
    BY <1>1 DEF Lcd!Tick, Lcd!NextLine
<1>2. CASE Lcd!Tick /\ mode = "hblank"
    BY <1>2 DEF Lcd!Tick
<1>3. CASE Lcd!Tick /\ mode \notin {"hblank", "vblank"}
    BY <1>3 DEF Lcd!Tick
<1>4. CASE Lcd!SwitchLcd
    BY <1>4 DEF Lcd!SwitchLcd
<1>5. CASE Lcd!Reset
    BY <1>5 DEF Lcd!Reset
<1> QED BY <1>1, <1>2, <1>3, <1>4, <1>5

(* A block more: the transfer ends, or its next block is the one after.      *)
LEMMA BlockStep ==
    ASSUME HdmaTypeOK, CopiedIsPrefix, hdma_active, ~failed, src \in SourceBlocks, CopyBlocks(1)
    PROVE  /\ src' \in 0 .. SourceSpace - 1 /\ dst' \in 0 .. LastDst + 1
           /\ srcReg' \in 0 .. SourceSpace - 1 /\ dstReg' \in 0 .. LastDst
           /\ left' \in 0 .. MaxLength
           /\ hdma_active' \in BOOLEAN /\ hblank' \in BOOLEAN
           /\ hdma_active' => /\ hblank'
                              /\ left' \in 1 .. job.len
                              /\ src' = job.src + (job.len - left')
                              /\ dst' = job.dst + (job.len - left') /\ dst' <= LastDst
<1> USE SourceAssumption, LengthAssumption
<1>1. /\ src \in 0 .. SourceSpace - 2 /\ dst \in 0 .. LastDst
      /\ left \in 1 .. job.len /\ job.len \in 1 .. MaxLength
      /\ job.src \in Nat /\ job.dst \in Nat
      /\ src = job.src + (job.len - left) /\ dst = job.dst + (job.len - left) /\ hblank = TRUE
    BY DEF CopiedIsPrefix, HdmaTypeOK, Jobs
<1>2. /\ src' = src + 1 /\ srcReg' = src + 1 /\ dst' = dst + 1
      /\ dstReg' = (dst + 1) % (LastDst + 1)
      /\ left' = IF left = 1 \/ dst + 1 > LastDst THEN 0 ELSE left - 1
      /\ hdma_active' = ~(left = 1 \/ dst + 1 > LastDst)
      /\ hblank' = (hblank /\ ~(left = 1 \/ dst + 1 > LastDst))
    BY DEF CopyBlocks
<1>3. dstReg' \in 0 .. LastDst
    BY <1>1, <1>2
<1>4. CASE left = 1 \/ dst + 1 > LastDst
    <2>1. hdma_active' = FALSE /\ hblank' = FALSE /\ left' = 0
        BY <1>2, <1>4, Zenon
    <2> QED BY <1>1, <1>2, <1>3, <2>1
<1>5. CASE ~(left = 1 \/ dst + 1 > LastDst)
    <2>1. hdma_active' = TRUE /\ hblank' = TRUE /\ left' = left - 1
        BY <1>1, <1>2, <1>5, Zenon
    <2> QED BY <1>1, <1>2, <1>3, <1>5, <2>1
<1> QED BY <1>4, <1>5

(* A tick of the hardware keeps the invariant, whatever the length.          *)
LEMMA TickStep ==
    ASSUME HdmaInv, ~failed, NEW t \in Nat, HdmaTick(t)
    PROVE  /\ LinesInv' /\ CopiedIsPrefix'
           /\ failed' \in BOOLEAN /\ hdma_active' \in BOOLEAN /\ hblank' \in BOOLEAN
           /\ src' \in 0 .. SourceSpace - 1 /\ dst' \in 0 .. LastDst + 1
           /\ left' \in 0 .. MaxLength
           /\ srcReg' \in 0 .. SourceSpace - 1 /\ dstReg' \in 0 .. LastDst
           /\ prev' \in Modes \union {"none"} /\ stall' \in Nat
           /\ job' \in Jobs /\ burst' \in 0 .. 2
<1> USE SourceAssumption, LengthAssumption, TimeAssumption DEF HdmaInv
<1>1. LinesInv'
    BY LinesStep DEF HdmaTick
<1>2. job' \in Jobs /\ (hdma_active' => job' = job)
    BY DEF HdmaTick, HdmaTypeOK, Jobs, NoJob
<1>3. stall - Least(t, stall) \in Nat
    BY DEF HdmaTypeOK, Least
<1>4. CASE WantsBlock /\ src \in SourceBlocks
    <2>1. CopyBlocks(1) /\ UNCHANGED <<failed, prev>> /\ stall' = stall - Least(t, stall) + BlockStall
        BY <1>4 DEF HdmaTick, CgbTick, CopyOneBlock
    <2>2. burst' \in 0 .. 2
        BY <1>4 DEF HdmaTick, CgbTick, CopyOneBlock, Least, HdmaTypeOK
    <2>3. stall' \in Nat
        BY <2>1, <1>3
    <2>4. hdma_active
        BY <1>4 DEF WantsBlock
    <2>5. CopiedIsPrefix'
        BY <1>2, <1>4, <2>1, <2>4, BlockStep DEF CopiedIsPrefix
    <2> QED BY <1>1, <1>2, <1>4, <2>1, <2>2, <2>3, <2>4, <2>5, BlockStep DEF HdmaTypeOK
<1>5. CASE WantsBlock /\ src \notin SourceBlocks
    <2>1. failed' = TRUE /\ UNCHANGED <<xferVars, srcReg, dstReg, prev>>
        BY <1>5 DEF HdmaTick, CgbTick, CopyOneBlock
    <2>2. stall' \in Nat /\ burst' \in 0 .. 2
        BY <1>3, <1>5 DEF HdmaTick, CgbTick, CopyOneBlock, HdmaTypeOK
    <2> QED BY <1>1, <1>2, <2>1, <2>2 DEF CopiedIsPrefix, HdmaTypeOK, xferVars
<1>6. CASE ~WantsBlock
    <2>1. UNCHANGED <<xferVars, srcReg, dstReg, failed>>
        BY <1>6 DEF HdmaTick, CgbTick
    <2>2. stall' \in Nat /\ burst' \in 0 .. 2 /\ prev' \in Modes \union {"none"}
        BY <1>1, <1>3, <1>6 DEF HdmaTick, CgbTick, HdmaTypeOK, LinesInv
    <2> QED BY <1>1, <1>2, <2>1, <2>2 DEF CopiedIsPrefix, HdmaTypeOK, xferVars
<1> QED BY <1>4, <1>5, <1>6

(* Every step of the emulator and every register write keeps the invariant.  *)
LEMMA HdmaInductive ==
    ASSUME HdmaInv, [HdmaNext]_hdmaVars
    PROVE  HdmaInv'
<1> USE SourceAssumption, LengthAssumption, TimeAssumption DEF HdmaInv
<1>1. CASE StalledStep
    <2>1. ~failed /\ HdmaTick(StallCycle) /\ UNCHANGED cpuVars /\ StallCycle \in Nat
        BY <1>1 DEF StalledStep
    <2> QED BY <2>1, TickStep DEF HdmaTypeOK, cpuVars, LinesInv
<1>2. CASE HaltedStep
    <2>1. ~failed /\ HdmaTick(CpuCycle) /\ UNCHANGED cpuVars /\ CpuCycle \in Nat
        BY <1>2 DEF HaltedStep
    <2> QED BY <2>1, TickStep DEF HdmaTypeOK, cpuVars, LinesInv
<1>3. CASE MachineCycle
    <2>1. ~failed /\ HdmaTick(CpuCycle) /\ CpuCycle \in Nat
        BY <1>3 DEF MachineCycle
    <2>2. cpu' = "executing" /\ cycles' \in 0 .. InstrCycles
        BY <1>3 DEF MachineCycle, HdmaTypeOK
    <2> QED BY <2>1, <2>2, TickStep DEF HdmaTypeOK, LinesInv
<1>4. CASE BeginInstruction
    BY <1>4 DEF BeginInstruction, HdmaTypeOK, LinesInv, CopiedIsPrefix, ppuVars, xferVars
<1>5. CASE EndInstruction
    BY <1>5 DEF EndInstruction, HdmaTypeOK, LinesInv, CopiedIsPrefix, ppuVars, xferVars
<1>6. CASE WriteAddress
    BY <1>6 DEF WriteAddress, Writes, HdmaTypeOK, LinesInv, CopiedIsPrefix, ppuVars, xferVars
<1>7. CASE CancelHdma
    BY <1>7, NoJobType
    DEF CancelHdma, Writes, HdmaTypeOK, LinesInv, CopiedIsPrefix, ppuVars
<1>8. CASE StartHblank
    <2>1. PICK len \in 1 .. MaxLength :
              left' = len /\ job' = [src |-> srcReg, dst |-> dstReg, len |-> len]
        BY <1>8 DEF StartHblank
    <2>2. /\ job' \in Jobs /\ left' = job'.len
          /\ src' = job'.src /\ dst' = job'.dst /\ job'.len \in 1 .. MaxLength
        BY <1>8, <2>1 DEF StartHblank, Jobs, HdmaTypeOK
    <2>3. src' \in 0 .. SourceSpace - 1 /\ dst' \in 0 .. LastDst
        BY <1>8 DEF StartHblank, HdmaTypeOK
    <2>4. CopiedIsPrefix'
        BY <1>8, <2>2, <2>3 DEF StartHblank, CopiedIsPrefix
    <2> QED BY <1>8, <2>2, <2>3, <2>4 DEF StartHblank, Writes, HdmaTypeOK, LinesInv, ppuVars
<1>9. CASE StartGeneral
    <2>1. PICK len \in 1 .. MaxLength, n \in 1 .. MaxLength :
              /\ n <= Least(len, LastDst + 1 - dstReg)
              /\ \A k \in 1 .. n - 1 : srcReg + k \in SourceBlocks
              /\ src' = srcReg + n /\ srcReg' = srcReg + n
              /\ dst' = dstReg + n /\ dstReg' = (dstReg + n) % (LastDst + 1)
              /\ left' = (IF n < Least(len, LastDst + 1 - dstReg) THEN len - n ELSE 0)
              /\ hdma_active' = (n < Least(len, LastDst + 1 - dstReg))
              /\ failed' = (n < Least(len, LastDst + 1 - dstReg))
              /\ stall' = stall + n * BlockStall
        BY <1>9 DEF StartGeneral
    <2>2. n <= len /\ dstReg + n <= LastDst + 1 /\ dstReg \in 0 .. LastDst
        BY <2>1 DEF Least, HdmaTypeOK
    <2>3. srcReg + (n - 1) \in SourceBlocks
        <3>1. CASE n = 1
            BY <1>9, <3>1 DEF StartGeneral, HdmaTypeOK
        <3>2. CASE n # 1
            <4>1. n - 1 \in 1 .. n - 1
                BY <2>1, <3>2
            <4> QED BY <2>1, <4>1
        <3> QED BY <3>1, <3>2
    <2>4. src' \in 0 .. SourceSpace - 1 /\ srcReg' \in 0 .. SourceSpace - 1
        BY <2>1, <2>3 DEF HdmaTypeOK
    <2>5. /\ dst' \in 0 .. LastDst + 1 /\ dstReg' \in 0 .. LastDst
          /\ left' \in 0 .. MaxLength
        BY <2>1, <2>2
    <2>6. stall' \in Nat
        <3>1. n * BlockStall \in Nat
            BY <2>1
        <3> QED BY <2>1, <3>1 DEF HdmaTypeOK
    <2>7. CopiedIsPrefix'
        BY <2>1, Zenon DEF CopiedIsPrefix
    <2>8. failed' \in BOOLEAN /\ hdma_active' \in BOOLEAN
        BY <2>1, SMT
    <2> QED BY <1>9, <2>1, <2>4, <2>5, <2>6, <2>7, <2>8
            DEF StartGeneral, Writes, HdmaTypeOK, LinesInv, ppuVars
<1>10. CASE StartFails
    BY <1>10 DEF StartFails, Writes, HdmaTypeOK, LinesInv, CopiedIsPrefix, ppuVars, xferVars
<1>11. CASE SwitchLcd
    <2>1. LinesInv'
        BY <1>11, LinesStep DEF SwitchLcd
    <2> QED BY <1>11, <2>1
            DEF SwitchLcd, Writes, HdmaTypeOK, LinesInv, CopiedIsPrefix, xferVars
<1>12. CASE ResetHdma
    <2>1. LinesInv'
        BY <1>12, LinesStep DEF ResetHdma
    <2>2. CopiedIsPrefix'
        BY <1>12 DEF ResetHdma, CopiedIsPrefix
    <2>3. /\ src' \in 0 .. SourceSpace - 1 /\ dst' \in 0 .. LastDst + 1
          /\ srcReg' \in 0 .. SourceSpace - 1 /\ dstReg' \in 0 .. LastDst
          /\ left' \in 0 .. MaxLength /\ cycles' \in 0 .. InstrCycles
        BY <1>12, NoJobType DEF ResetHdma
    <2>4. /\ cpu' = "between" /\ failed' \in BOOLEAN
          /\ hdma_active' \in BOOLEAN /\ hblank' \in BOOLEAN
          /\ prev' = "none" /\ job' \in Jobs
        BY <1>12, NoJobType, Zenon DEF ResetHdma
    <2>5. stall' \in Nat /\ burst' \in 0 .. 2
        BY <1>12 DEF ResetHdma
    <2> QED BY <2>1, <2>2, <2>3, <2>4, <2>5 DEF HdmaTypeOK, LinesInv
<1>13. CASE UNCHANGED hdmaVars
    BY <1>13 DEF hdmaVars, ppuVars, cpuVars, xferVars, HdmaTypeOK, LinesInv, CopiedIsPrefix
<1> QED
    BY <1>1, <1>2, <1>3, <1>4, <1>5, <1>6, <1>7, <1>8, <1>9, <1>10, <1>11, <1>12, <1>13
    DEF HdmaNext, Steps, RegisterWrites

(* The invariant of VRAM DMA holds in every reachable state.                 *)
LEMMA HdmaInvariant == HdmaSpec => []HdmaInv
<1>1. HdmaInit => HdmaInv
    <2>1. HdmaInit => LinesInv
        BY LinesAssumption DEF HdmaInit, LinesInv, Lcd!Init, Modes, Lcd!Modes
    <2>2. HdmaInit => CopiedIsPrefix
        BY DEF HdmaInit, CopiedIsPrefix
    <2>3. HdmaInit => /\ src \in 0 .. SourceSpace - 1 /\ dst \in 0 .. LastDst + 1
                      /\ srcReg \in 0 .. SourceSpace - 1 /\ dstReg \in 0 .. LastDst
                      /\ left \in 0 .. MaxLength /\ cycles \in 0 .. InstrCycles
        BY NoJobType, LengthAssumption, TimeAssumption DEF HdmaInit
    <2>4. HdmaInit => /\ cpu = "between" /\ failed \in BOOLEAN
                      /\ hdma_active \in BOOLEAN /\ hblank \in BOOLEAN
                      /\ prev = "none" /\ job \in Jobs
        BY NoJobType, Zenon DEF HdmaInit
    <2>5. HdmaInit => stall \in Nat /\ burst \in 0 .. 2
        BY DEF HdmaInit
    <2> QED BY <2>1, <2>2, <2>3, <2>4, <2>5 DEF HdmaInv, HdmaTypeOK, LinesInv
<1>2. HdmaInv /\ [HdmaNext]_hdmaVars => HdmaInv'
    BY HdmaInductive
<1> QED BY <1>1, <1>2, PTL DEF HdmaSpec

(* No address leaves its space, no transfer is longer than asked for.        *)
THEOREM HdmaTypeCorrect == HdmaSpec => []HdmaTypeOK
<1>1. HdmaInv => HdmaTypeOK
    BY DEF HdmaInv
<1> QED BY <1>1, HdmaInvariant, PTL

(* A transfer in progress has copied a prefix of what was asked for.         *)
THEOREM CopiesPrefix == HdmaSpec => []CopiedIsPrefix
<1>1. HdmaInv => CopiedIsPrefix
    BY DEF HdmaInv
<1> QED BY <1>1, HdmaInvariant, PTL

-----------------------------------------------------------------------------
(* Why a stall ends, although blocks copied while it lasts prolong it.       *)

\* An instruction comes nearer to its end: one machine cycle less, or the one
\* register write of its cycle done.
InstructionNears ==
    \/ ~InInstruction'
    \/ cycles' < cycles
    \/ cycles' = cycles /\ cpu = "executing" /\ cpu' = "written"

\* The stall comes nearer to its end: another block copied, or time passed.
StallNears == left' < left \/ (left' = left /\ stall' < stall)

StallProgress ==
    stall # 0 /\ stall' # 0 /\ ~failed /\ ~failed' =>
        IF InInstruction THEN InstructionNears ELSE UNCHANGED cpuVars /\ StallNears

(* A tick that neither fails nor ends a stall drains it, or copies one of    *)
(* the blocks the transfer still has.                                        *)
LEMMA TickDrains ==
    ASSUME HdmaInv, ~failed, stall # 0, NEW t \in Nat \ {0}, HdmaTick(t), ~failed'
    PROVE  StallNears
<1>1. stall - Least(t, stall) < stall
    BY DEF HdmaInv, HdmaTypeOK, Least
<1>2. CASE WantsBlock
    <2>1. src \in SourceBlocks /\ CopyBlocks(1)
        BY <1>2 DEF HdmaTick, CgbTick, CopyOneBlock
    <2>2. left \in Nat \ {0}
        BY <1>2 DEF HdmaInv, CopiedIsPrefix, WantsBlock, HdmaTypeOK, Jobs
    <2>3. left' = 0 \/ left' = left - 1
        BY <2>1 DEF CopyBlocks
    <2> QED BY <2>2, <2>3 DEF StallNears
<1>3. CASE ~WantsBlock
    <2>1. stall' = stall - Least(t, stall) /\ left' = left
        BY <1>3 DEF HdmaTick, CgbTick, xferVars
    <2> QED BY <1>1, <2>1 DEF StallNears
<1> QED BY <1>2, <1>3

(* The CPU gets out of a stall: as long as one lasts, every step brings the  *)
(* instruction that ran into it nearer to its end, which has only so many    *)
(* cycles, or, between two instructions, keeps the CPU where it is and       *)
(* copies a block of the one transfer that may be waiting, or drains the     *)
(* stall. Neither can go on for ever, so a fair emulator loop meets          *)
(* StallEnds.                                                                *)
THEOREM StallDrains == HdmaSpec => [][StallProgress]_hdmaVars
<1>1. HdmaInv /\ [HdmaNext]_hdmaVars => [StallProgress]_hdmaVars
    <2> SUFFICES ASSUME HdmaInv, HdmaNext, stall # 0, stall' # 0, ~failed, ~failed'
                 PROVE  IF InInstruction THEN InstructionNears
                                         ELSE UNCHANGED cpuVars /\ StallNears
        BY DEF StallProgress
    <2>1. CASE StalledStep
        BY <2>1, TickDrains, TimeAssumption DEF StalledStep
    <2>2. CASE HaltedStep \/ BeginInstruction
        BY <2>2 DEF HaltedStep, BeginInstruction
    <2>3. CASE MachineCycle
        <3>1. InInstruction /\ cycles' < cycles
            BY <2>3 DEF MachineCycle, HdmaInv, HdmaTypeOK
        <3> QED BY <3>1 DEF InstructionNears
    <2>4. CASE EndInstruction
        BY <2>4 DEF EndInstruction, InstructionNears, InInstruction
    <2>5. CASE RegisterWrites
        <3>1. Writes
            BY <2>5 DEF RegisterWrites, WriteAddress, CancelHdma, StartHblank, StartGeneral,
                        StartFails, SwitchLcd
        <3> QED BY <3>1 DEF Writes, InstructionNears, InInstruction
    <2>6. CASE ResetHdma
        BY <2>6 DEF ResetHdma
    <2> QED BY <2>1, <2>2, <2>3, <2>4, <2>5, <2>6 DEF HdmaNext, Steps
<1> QED BY <1>1, HdmaInvariant, PTL DEF HdmaSpec
=============================================================================
