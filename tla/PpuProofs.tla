----------------------------- MODULE PpuProofs -----------------------------
(* The scan position of Ppu against elapsed time, and its STAT line, for     *)
(* scanlines, frames, modes and ticks of any length.                         *)
EXTENDS PpuHistory, TLAPS

\* The most lines of this frame the window can have been drawn on.
WindowLimit ==
    CASE mode = "oam" -> ly
      [] mode = "vblank" -> VisibleScanlines
      [] OTHER -> ly + 1

\* What the scan position keeps: which lines belong to which modes, that a
\* mode ends in time, and what LCD off looks like.
ScanInv ==
    /\ PpuTypeOK
    /\ mode = "vblank" <=> ly >= VisibleScanlines
    /\ window_line <= WindowLimit
    /\ dot < ModeDots
    /\ ~lcd_on => left = 0

TimeInv == frameAge \in Nat /\ OnSchedule

-----------------------------------------------------------------------------
(* Lemmas. *)

LEMMA NextLineLater ==
    ASSUME NEW a \in Nat, NEW s \in Nat
    PROVE  (a + 1) * s = a * s + s /\ a * s \in Nat /\ 0 * s = 0
OBVIOUS

\* A line that is not the last ends before the frame does.
LEMMA LineFits ==
    ASSUME NEW a \in Nat, NEW b \in Nat, NEW s \in Nat, a + 1 < b
    PROVE  a * s + s + s <= b * s
<1> DEFINE k == b - a - 2
<1>1. k \in Nat /\ b = a + 2 + k
    OBVIOUS
<1>2. b * s = a * s + s + s + k * s
    BY <1>1
<1>3. k * s \in Nat
    BY <1>1
<1> QED BY <1>2, <1>3

LEMMA StatLineTypes ==
    ASSUME NEW before, NEW requests \in SUBSET {"vblank"},
           UpdateStatIrqLine(before, requests)
    PROVE  stat_irq_line' \in BOOLEAN /\ raised' \in SUBSET {"vblank", "stat"}
<1>1. Condition' \in BOOLEAN
    BY Zenon DEF Condition
<1> QED BY <1>1 DEF UpdateStatIrqLine

-----------------------------------------------------------------------------
(* The modes keep their lines, their lengths and the window.                 *)
LEMMA ScanInit == PpuHInit => ScanInv
<1> SUFFICES ASSUME PpuHInit PROVE ScanInv
    OBVIOUS
<1>1. PICK d \in Mode3Dots : mode3_dots = d
    BY DEF PpuHInit, PpuInit
<1>2. lcd_on \in BOOLEAN /\ stat_irq_line \in BOOLEAN /\ frame_ready \in BOOLEAN
    BY Zenon DEF PpuHInit, PpuInit
<1>3. /\ ly \in 0 .. TotalScanlines - 1 /\ lyc \in 0 .. TotalScanlines
      /\ dot \in 0 .. ScanlineDots - 1 /\ window_line \in 0 .. VisibleScanlines
      /\ left \in Nat
    BY <1>1, DotsAssumption, ScanlinesAssumption DEF PpuHInit, PpuInit
<1>4. stat_select \subseteq StatSources /\ raised \subseteq {"vblank", "stat"} /\ mode \in Modes
    BY DEF PpuHInit, PpuInit, Modes
<1>5. PpuTypeOK
    BY <1>1, <1>2, <1>3, <1>4 DEF PpuTypeOK
<1> QED
    BY <1>1, <1>5, DotsAssumption, ScanlinesAssumption
    DEF PpuHInit, PpuInit, ScanInv, WindowLimit, ModeDots

LEMMA ScanDot == ASSUME ScanInv, Dot PROVE ScanInv'
<1> USE DotsAssumption, ScanlinesAssumption
<1>1. stat_irq_line' \in BOOLEAN /\ raised' \in SUBSET {"vblank", "stat"}
    BY StatLineTypes DEF Dot, StayInMode, EndOam, EndXfer, EndHblank, EndVblankLine
<1>2. /\ lcd_on' \in BOOLEAN /\ stat_select' \in SUBSET StatSources
      /\ lyc' \in 0 .. TotalScanlines /\ left' \in Nat /\ (~lcd_on' => left' = 0)
    BY DEF ScanInv, PpuTypeOK, Dot, lcdRegisters
<1>3. CASE StayInMode
    <2>1. PpuTypeOK'
        BY <1>1, <1>2, <1>3 DEF ScanInv, PpuTypeOK, StayInMode, ModeDots, Modes
    <2> QED BY <1>2, <1>3, <2>1 DEF ScanInv, PpuTypeOK, StayInMode, WindowLimit, ModeDots
<1>4. CASE EndOam
    <2>1. PpuTypeOK'
        BY <1>1, <1>2, <1>4 DEF ScanInv, PpuTypeOK, EndOam, WindowLimit, Modes
    <2> QED BY <1>2, <1>4, <2>1 DEF ScanInv, PpuTypeOK, EndOam, WindowLimit, ModeDots
<1>5. CASE EndXfer
    <2>1. PpuTypeOK'
        BY <1>1, <1>2, <1>5 DEF ScanInv, PpuTypeOK, EndXfer, Modes
    <2> QED BY <1>2, <1>5, <2>1 DEF ScanInv, PpuTypeOK, EndXfer, WindowLimit, ModeDots
<1>6. CASE EndHblank
    <2>1. frame_ready' \in BOOLEAN
        BY <1>6, Zenon DEF ScanInv, PpuTypeOK, EndHblank
    <2>2. /\ ly' \in 0 .. TotalScanlines - 1 /\ dot' \in 0 .. ScanlineDots - 1
          /\ UNCHANGED <<mode3_dots, window_line>> /\ mode' \in Modes
        BY <1>6 DEF ScanInv, PpuTypeOK, EndHblank, Modes
    <2>3. PpuTypeOK'
        BY <1>1, <1>2, <2>1, <2>2 DEF ScanInv, PpuTypeOK
    <2> QED BY <1>2, <1>6, <2>3 DEF ScanInv, PpuTypeOK, EndHblank, WindowLimit, ModeDots
<1>7. CASE EndVblankLine
    <2>1. PpuTypeOK'
        BY <1>1, <1>2, <1>7 DEF ScanInv, PpuTypeOK, EndVblankLine, Modes
    <2> QED BY <1>2, <1>7, <2>1 DEF ScanInv, PpuTypeOK, EndVblankLine, WindowLimit, ModeDots
<1> QED BY <1>3, <1>4, <1>5, <1>6, <1>7 DEF Dot

\* The LCD switch and the reset start a frame.
LEMMA ScanRestart ==
    ASSUME ScanInv, SwitchOn \/ SwitchOff \/ ResetPpu
    PROVE  ScanInv'
<1> USE DotsAssumption, ScanlinesAssumption
<1>1. stat_irq_line' \in BOOLEAN /\ raised' \in SUBSET {"vblank", "stat"}
    BY StatLineTypes DEF SwitchOn, SwitchOff, ResetPpu
<1>2. /\ stat_select' \in SUBSET StatSources
      /\ lyc' \in 0 .. TotalScanlines /\ left' = 0
    <2>1. /\ stat_select' = stat_select \/ stat_select' = {}
          /\ lyc' = lyc \/ lyc' = 0
          /\ left' = 0
        BY Zenon DEF SwitchOn, SwitchOff, ResetPpu
    <2> QED BY <2>1 DEF ScanInv, PpuTypeOK
<1>6. lcd_on' \in BOOLEAN /\ frame_ready' \in BOOLEAN
    BY Zenon DEF ScanInv, PpuTypeOK, SwitchOn, SwitchOff, ResetPpu
<1>3. mode3_dots' \in Mode3Dots
    BY DEF ScanInv, PpuTypeOK, SwitchOn, SwitchOff, ResetPpu
<1>4. ly' = 0 /\ dot' = 0 /\ window_line' = 0 /\ mode' \in {"oam", "hblank"}
    BY DEF SwitchOn, SwitchOff, ResetPpu
<1>5. PpuTypeOK'
    BY <1>1, <1>2, <1>3, <1>4, <1>6 DEF PpuTypeOK, Modes
<1> QED
    BY <1>2, <1>3, <1>4, <1>5 DEF ScanInv, WindowLimit, ModeDots

\* Everything else leaves the scan position alone.
LEMMA ScanElse ==
    ASSUME ScanInv, StartPpuTick \/ WriteStat \/ WriteLyc \/ ClearFrameReady
    PROVE  ScanInv'
<1>1. stat_irq_line' \in BOOLEAN /\ raised' \in SUBSET {"vblank", "stat"}
    BY StatLineTypes DEF StartPpuTick, WriteStat, WriteLyc, ClearFrameReady, ScanInv, PpuTypeOK
<1>2. /\ lcd_on' \in BOOLEAN /\ stat_select' \in SUBSET StatSources
      /\ lyc' \in 0 .. TotalScanlines /\ frame_ready' \in BOOLEAN
      /\ left' \in Nat /\ (~lcd_on' => left' = 0)
    BY TickAssumption
    DEF ScanInv, PpuTypeOK, StartPpuTick, WriteStat, WriteLyc, ClearFrameReady, lcdRegisters
<1>3. UNCHANGED scan
    BY DEF StartPpuTick, WriteStat, WriteLyc, ClearFrameReady
<1> QED BY <1>1, <1>2, <1>3 DEF ScanInv, PpuTypeOK, scan, WindowLimit, ModeDots

LEMMA ScanKept == ScanInv /\ [PpuHNext]_ppuAll => ScanInv'
<1> SUFFICES ASSUME ScanInv, [PpuHNext]_ppuAll PROVE ScanInv'
    OBVIOUS
<1>1. CASE PpuHNext
    <2>1. PpuNext
        BY <1>1 DEF PpuHNext
    <2> QED BY <2>1, ScanDot, ScanRestart, ScanElse DEF PpuNext, PpuTick, PpuProgram
<1>2. CASE UNCHANGED ppuAll
    <2>1. UNCHANGED ppuVars
        BY <1>2 DEF ppuAll
    <2> QED BY <2>1
        DEF ScanInv, PpuTypeOK, WindowLimit, ModeDots, ppuVars, lcdRegisters, scan
<1> QED BY <1>1, <1>2

(* The registers and positions of the PPU keep their ranges, and the window  *)
(* never moves further than the visible lines of one frame.                  *)
THEOREM PpuTypeCorrect == PpuHSpec => []PpuTypeOK
<1>1. ScanInv => PpuTypeOK
    BY DEF ScanInv
<1> QED BY <1>1, ScanInit, ScanKept, PTL DEF PpuHSpec

-----------------------------------------------------------------------------
(* Time. *)

\* A line is shorter than its dots, and only its last dot ends it.
LEMMA LineDotsInLine ==
    ASSUME ScanInv
    PROVE  LineDots \in 0 .. ScanlineDots - 1
BY DotsAssumption DEF ScanInv, PpuTypeOK, Modes, ModeDots, LineDots

\* One dot moves the position on by one dot, or ends the line.
LEMMA DotMoves ==
    ASSUME ScanInv, Dot
    PROVE  \/ ly' = ly /\ LineDots' = LineDots + 1
           \/ ly' = ly + 1 /\ LineDots + 1 = ScanlineDots /\ LineDots' = 0
           \/ /\ ly + 1 = TotalScanlines /\ ly' = 0
              /\ LineDots + 1 = ScanlineDots /\ LineDots' = 0
<1> USE DotsAssumption, ScanlinesAssumption
<1>1. CASE StayInMode
    BY <1>1 DEF ScanInv, PpuTypeOK, Modes, StayInMode, LineDots
<1>2. CASE EndOam
    BY <1>2 DEF ScanInv, PpuTypeOK, EndOam, ModeDots, LineDots
<1>3. CASE EndXfer
    BY <1>3 DEF ScanInv, PpuTypeOK, EndXfer, ModeDots, LineDots
<1>4. CASE EndHblank
    BY <1>4 DEF ScanInv, PpuTypeOK, EndHblank, ModeDots, LineDots
<1>5. CASE EndVblankLine
    BY <1>5 DEF ScanInv, PpuTypeOK, EndVblankLine, ModeDots, LineDots
<1> QED BY <1>1, <1>2, <1>3, <1>4, <1>5 DEF Dot

\* Where in the frame a line and a dot of it are.
LEMMA PositionInFrame ==
    ASSUME NEW y \in 0 .. TotalScanlines - 1, NEW d \in 0 .. ScanlineDots - 1
    PROVE  /\ y * ScanlineDots + d \in Nat
           /\ y * ScanlineDots + d < FrameDots
           /\ (y + 1 = TotalScanlines /\ d + 1 = ScanlineDots)
                <=> (y * ScanlineDots + d + 1 = FrameDots)
<1> USE DotsAssumption, ScanlinesAssumption
<1>1. (y + 1) * ScanlineDots = y * ScanlineDots + ScanlineDots /\ y * ScanlineDots \in Nat
    BY NextLineLater
<1>2. CASE y + 1 = TotalScanlines
    BY <1>1, <1>2 DEF FrameDots
<1>3. CASE y + 1 # TotalScanlines
    <2>1. y * ScanlineDots + ScanlineDots + ScanlineDots <= TotalScanlines * ScanlineDots
        BY <1>3, LineFits
    <2> QED BY <1>1, <1>3, <2>1 DEF FrameDots
<1> QED BY <1>2, <1>3

LEMMA TimeInit == PpuHInit => TimeInv
<1> SUFFICES ASSUME PpuHInit PROVE TimeInv
    OBVIOUS
<1>1. frameAge = 0 /\ ly = 0 /\ LineDots = 0
    BY DEF PpuHInit, PpuInit, LineDots
<1>2. 0 * ScanlineDots = 0
    BY DotsAssumption
<1> QED BY <1>1, <1>2 DEF TimeInv, OnSchedule

LEMMA TimeDot ==
    ASSUME ScanInv, TimeInv, PpuHNext, Dot
    PROVE  TimeInv'
<1> USE DotsAssumption, ScanlinesAssumption
<1>1. left > 0 /\ lcd_on /\ lcd_on'
    BY DEF Dot, ScanInv, PpuTypeOK, lcdRegisters
<1>2. frameAge' = IF frameAge + 1 = FrameDots THEN 0 ELSE frameAge + 1
    <2>1. ~ResetPpu
        <3>1. left # 0
            BY <1>1 DEF ScanInv, PpuTypeOK
        <3>2. ResetPpu => left = 0
            BY Zenon DEF ResetPpu
        <3> QED BY <3>1, <3>2
    <2> QED BY <1>1, <2>1, Zenon DEF PpuHNext
<1>3. PICK d \in 0 .. ScanlineDots - 1 : LineDots = d
    BY LineDotsInLine
<1>4. ly \in 0 .. TotalScanlines - 1 /\ frameAge = ly * ScanlineDots + d
    BY <1>1, <1>3 DEF ScanInv, PpuTypeOK, TimeInv, OnSchedule
<1>5. /\ frameAge \in Nat
      /\ (ly + 1 = TotalScanlines /\ d + 1 = ScanlineDots) <=> (frameAge + 1 = FrameDots)
    BY <1>4, PositionInFrame
<1>6. (ly + 1) * ScanlineDots = ly * ScanlineDots + ScanlineDots /\ 0 * ScanlineDots = 0
    BY <1>4, NextLineLater
<1>7. ScanInv'
    BY ScanDot
<1>8. PICK e \in 0 .. ScanlineDots - 1 : LineDots' = e
    <2>1. (LineDots \in 0 .. ScanlineDots - 1)'
        BY <1>7, LineDotsInLine, PTL
    <2> QED BY <2>1
<1>9. frameAge' = ly' * ScanlineDots + e
    <2>1. ly * ScanlineDots \in Nat
        BY <1>4, NextLineLater
    <2>2. CASE ly' = ly /\ e = d + 1
        BY <1>2, <1>4, <1>5, <2>1, <2>2
    <2>3. CASE ly' = ly + 1 /\ d + 1 = ScanlineDots /\ e = 0
        <3>1. ly + 1 # TotalScanlines
            BY <1>7, <2>3 DEF ScanInv, PpuTypeOK
        <3> QED BY <1>2, <1>4, <1>5, <1>6, <2>1, <2>3, <3>1
    <2>4. CASE ly + 1 = TotalScanlines /\ ly' = 0 /\ d + 1 = ScanlineDots /\ e = 0
        BY <1>2, <1>4, <1>5, <1>6, <2>4
    <2> QED BY <1>3, <1>8, <2>2, <2>3, <2>4, DotMoves
<1>10. frameAge' \in Nat
    BY <1>2, <1>5
<1> QED BY <1>8, <1>9, <1>10 DEF TimeInv, OnSchedule

LEMMA TimeRestart ==
    ASSUME ScanInv, TimeInv, PpuHNext, SwitchOn \/ SwitchOff \/ ResetPpu
    PROVE  TimeInv'
<1>1. frameAge' = 0
    BY DEF PpuHNext, SwitchOn, SwitchOff
<1>2. ly' = 0 /\ dot' = 0 /\ (lcd_on' => mode' = "oam")
    BY DEF SwitchOn, SwitchOff, ResetPpu
<1>3. 0 * ScanlineDots = 0
    BY DotsAssumption
<1>4. lcd_on' => LineDots' = 0
    BY <1>2 DEF LineDots
<1> QED BY <1>1, <1>2, <1>3, <1>4 DEF TimeInv, OnSchedule

LEMMA TimeElse ==
    ASSUME ScanInv, TimeInv, PpuHNext, StartPpuTick \/ WriteStat \/ WriteLyc \/ ClearFrameReady,
           ~ResetPpu
    PROVE  TimeInv'
<1>1. UNCHANGED <<scan, lcd_on>>
    BY DEF StartPpuTick, WriteStat, WriteLyc, ClearFrameReady, lcdRegisters
<1>2. ~Dot
    BY DEF StartPpuTick, WriteStat, WriteLyc, ClearFrameReady, Dot
<1>3. lcd_on => frameAge' = frameAge
    BY <1>1, <1>2 DEF PpuHNext
<1>4. frameAge' \in Nat
    BY <1>1, <1>2 DEF PpuHNext, TimeInv
<1> QED BY <1>1, <1>3, <1>4 DEF TimeInv, OnSchedule, LineDots, scan

LEMMA TimeKept == ScanInv /\ TimeInv /\ [PpuHNext]_ppuAll => TimeInv'
<1> SUFFICES ASSUME ScanInv, TimeInv, [PpuHNext]_ppuAll PROVE TimeInv'
    OBVIOUS
<1>1. CASE PpuHNext
    <2>1. PpuNext
        BY <1>1 DEF PpuHNext
    <2> QED BY <1>1, <2>1, TimeDot, TimeRestart, TimeElse DEF PpuNext, PpuTick, PpuProgram
<1>2. CASE UNCHANGED ppuAll
    BY <1>2 DEF TimeInv, OnSchedule, LineDots, ppuAll, ppuHistVars, ppuVars, lcdRegisters, scan
<1> QED BY <1>1, <1>2

(* Line and dot are the time since the LCD was switched on, whatever mode 3  *)
(* takes on each line and whatever the program writes meanwhile.             *)
THEOREM FramesOnSchedule == PpuHSpec => []OnSchedule
<1>1. TimeInv => OnSchedule
    BY DEF TimeInv
<1> QED BY <1>1, ScanInit, ScanKept, TimeInit, TimeKept, PTL DEF PpuHSpec

-----------------------------------------------------------------------------
(* The STAT line. *)

LineInv == stat_irq_line = Condition

\* A change of the line requests what it should, when it starts from `before`.
LEMMA LineRises ==
    ASSUME NEW before, NEW requests, requests = {} \/ requests = {"vblank"},
           UpdateStatIrqLine(before, requests)
    PROVE  stat_irq_line' = Condition' /\ ("stat" \in raised' <=> Condition' /\ ~before)
<1>1. "stat" \notin requests
    OBVIOUS
<1> QED BY <1>1, Zenon DEF UpdateStatIrqLine

LEMMA DotEvaluates ==
    ASSUME Dot
    PROVE  /\ lcd_on' = lcd_on
           /\ \E requests \in {{}, {"vblank"}} : UpdateStatIrqLine(stat_irq_line, requests)
<1>1. \E requests \in {{}, {"vblank"}} : UpdateStatIrqLine(stat_irq_line, requests)
    <2>1. CASE EndHblank
        <3>1. \/ UpdateStatIrqLine(stat_irq_line, {})
              \/ UpdateStatIrqLine(stat_irq_line, {"vblank"})
            BY <2>1, Zenon DEF EndHblank
        <3> QED BY <3>1, Zenon
    <2>2. CASE StayInMode \/ EndOam \/ EndXfer \/ EndVblankLine
        <3>1. UpdateStatIrqLine(stat_irq_line, {})
            BY <2>2, Zenon DEF StayInMode, EndOam, EndXfer, EndVblankLine
        <3> QED BY <3>1, Zenon
    <2> QED BY <2>1, <2>2, Zenon DEF Dot
<1> QED BY <1>1, Zenon DEF Dot, lcdRegisters

\* What a step does to the line and requests, by the line as it was.
LEMMA StepEvaluates ==
    ASSUME LineInv, PpuNext
    PROVE  /\ LineInv'
           /\ "stat" \in raised' <=> Condition' /\ ~(Condition /\ ~(lcd_on /\ ~lcd_on'))
<1>1. CASE Dot
    <2>1. lcd_on' = lcd_on
        BY <1>1, DotEvaluates, Zenon
    <2>2. PICK requests \in {{}, {"vblank"}} : UpdateStatIrqLine(stat_irq_line, requests)
        BY <1>1, DotEvaluates, Zenon
    <2>3. stat_irq_line' = Condition' /\ ("stat" \in raised' <=> Condition' /\ ~stat_irq_line)
        BY <2>2, LineRises, Zenon
    <2> QED BY <2>1, <2>3, Zenon DEF LineInv
<1>2. CASE SwitchOn \/ WriteStat \/ WriteLyc
    <2>1. UpdateStatIrqLine(stat_irq_line, {}) /\ (~lcd_on \/ lcd_on' = lcd_on)
        BY <1>2, Zenon DEF SwitchOn, WriteStat, WriteLyc
    <2>2. stat_irq_line' = Condition' /\ ("stat" \in raised' <=> Condition' /\ ~stat_irq_line)
        BY <2>1, LineRises, Zenon
    <2>3. ~(lcd_on /\ ~lcd_on')
        BY <2>1
    <2> QED BY <2>2, <2>3, Zenon DEF LineInv
<1>3. CASE SwitchOff
    <2>1. UpdateStatIrqLine(FALSE, {}) /\ lcd_on /\ ~lcd_on'
        BY <1>3, Zenon DEF SwitchOff
    <2>2. stat_irq_line' = Condition' /\ ("stat" \in raised' <=> Condition' /\ ~FALSE)
        BY <2>1, LineRises, Zenon
    <2>3. "stat" \in raised' <=> Condition'
        BY <2>2
    <2>4. lcd_on /\ ~lcd_on'
        BY <2>1
    <2> QED BY <2>2, <2>3, <2>4, Zenon DEF LineInv
<1>4. CASE ResetPpu
    <2>1. UpdateStatIrqLine(FALSE, {}) /\ stat_select' = {}
        BY <1>4, Zenon DEF ResetPpu
    <2>2. ~Condition'
        BY <2>1 DEF Condition
    <2>3. stat_irq_line' = Condition' /\ ("stat" \in raised' <=> Condition' /\ ~FALSE)
        BY <2>1, LineRises, Zenon
    <2> QED BY <2>2, <2>3, Zenon DEF LineInv
<1>5. CASE StartPpuTick \/ ClearFrameReady
    <2>1. UNCHANGED <<lcdRegisters, scan, stat_irq_line>> /\ raised' = {}
        BY <1>5, Zenon DEF StartPpuTick, ClearFrameReady
    <2>2. /\ lcd_on' = lcd_on /\ stat_select' = stat_select /\ lyc' = lyc
          /\ mode' = mode /\ ly' = ly
        BY <2>1, Zenon DEF lcdRegisters, scan
    <2>3. Condition' <=> Condition
        BY <2>2, Zenon DEF Condition
    <2>4. Condition' = Condition
        BY <2>2, Zenon DEF Condition
    <2>5. "stat" \notin raised'
        BY <2>1
    <2> QED BY <2>1, <2>2, <2>3, <2>4, <2>5, Zenon DEF LineInv
<1> QED BY <1>1, <1>2, <1>3, <1>4, <1>5, Zenon DEF PpuNext, PpuTick, PpuProgram

LEMMA LineInit == PpuHInit => LineInv
<1> SUFFICES ASSUME PpuHInit PROVE LineInv
    OBVIOUS
<1>1. stat_select = {} /\ stat_irq_line = FALSE
    BY DEF PpuHInit, PpuInit
<1>2. ~Condition
    BY <1>1 DEF Condition
<1>3. Condition \in BOOLEAN
    BY Zenon DEF Condition
<1> QED BY <1>1, <1>2, <1>3, Zenon DEF LineInv

LEMMA LineKept == LineInv /\ [PpuHNext]_ppuAll => LineInv'
<1> SUFFICES ASSUME LineInv, [PpuHNext]_ppuAll PROVE LineInv'
    OBVIOUS
<1>1. CASE PpuHNext
    BY <1>1, StepEvaluates, Zenon DEF PpuHNext
<1>2. CASE UNCHANGED ppuAll
    <2>1. /\ stat_irq_line' = stat_irq_line /\ stat_select' = stat_select /\ lyc' = lyc
          /\ mode' = mode /\ ly' = ly
        BY <1>2, Zenon DEF ppuAll, ppuVars, lcdRegisters, scan
    <2> QED BY <2>1, Zenon DEF LineInv, Condition
<1> QED BY <1>1, <1>2

(* A STAT interrupt is requested exactly when the condition of the line      *)
(* becomes true, whether time or the program makes it so.                    *)
THEOREM StatRequestsAreRises == PpuHSpec => StatOnRise
<1>1. LineInv /\ [PpuHNext]_ppuAll =>
        [LET before == Condition /\ ~(lcd_on /\ ~lcd_on')
         IN  "stat" \in raised' <=> Condition' /\ ~before]_ppuVars
    <2> SUFFICES ASSUME LineInv, [PpuHNext]_ppuAll, ~(UNCHANGED ppuVars)
                 PROVE  "stat" \in raised' <=>
                            Condition' /\ ~(Condition /\ ~(lcd_on /\ ~lcd_on'))
        OBVIOUS
    <2>1. PpuHNext
        BY Zenon DEF ppuAll
    <2> QED BY <2>1, StepEvaluates, Zenon DEF PpuHNext
<1> QED BY <1>1, LineInit, LineKept, PTL DEF PpuHSpec, StatOnRise

-----------------------------------------------------------------------------
(* The STAT interrupts of a frame. *)

\* What a passage is, and where it stands in the frame.
LEMMA PassageParts ==
    ASSUME NEW p \in Passages
    PROVE  /\ p[1] \in 0 .. TotalScanlines - 1 /\ p[2] \in Modes /\ p = <<p[1], p[2]>>
           /\ p[2] = "vblank" <=> p[1] >= VisibleScanlines
BY ScanlinesAssumption DEF Passages, Modes

LEMMA PlaceOf ==
    ASSUME NEW y \in Nat, NEW m \in Modes
    PROVE  Place(<<y, m>>) = IF m = "xfer" THEN 3 * y + 1
                             ELSE IF m = "hblank" THEN 3 * y + 2 ELSE 3 * y
BY DEF Place, Modes

\* The mode y2, m2 comes right after y, m, which may have been the last of the frame.
ComesAfter(y, m, y2, m2) ==
    \/ m = "oam" /\ m2 = "xfer" /\ y2 = y
    \/ m = "xfer" /\ m2 = "hblank" /\ y2 = y
    \/ m = "hblank" /\ y2 = y + 1 /\ m2 = (IF y2 = VisibleScanlines THEN "vblank" ELSE "oam")
    \/ m = "vblank" /\ y + 1 < TotalScanlines /\ y2 = y + 1 /\ m2 = "vblank"
    \/ m = "vblank" /\ y + 1 = TotalScanlines /\ y2 = 0 /\ m2 = "oam"

\* The mode that comes next is a passage, the one before it is the one that
\* ends, and no other passage is reached with it.
LEMMA NextPassage ==
    ASSUME NEW y \in 0 .. TotalScanlines - 1, NEW m \in Modes, m = "vblank" <=> y >= VisibleScanlines,
           NEW y2, NEW m2, ComesAfter(y, m, y2, m2)
    PROVE  /\ y2 \in 0 .. TotalScanlines - 1 /\ m2 \in Modes
           /\ m2 = "vblank" <=> y2 >= VisibleScanlines
           /\ Previous(<<y2, m2>>) = <<y, m>>
           /\ \A p \in Passages : Place(p) <= Place(<<y2, m2>>) <=>
                  \/ p = <<y2, m2>>
                  \/ Place(p) <= Place(<<y, m>>) /\ ~(y # 0 /\ y2 = 0)
<1> USE ScanlinesAssumption
<1>1. y2 \in 0 .. TotalScanlines - 1 /\ m2 \in Modes /\ (m2 = "vblank" <=> y2 >= VisibleScanlines)
    BY DEF ComesAfter, Modes
<1>2. Previous(<<y2, m2>>) = <<y, m>>
    <2>1. Previous(<<y2, m2>>) =
              IF m2 = "xfer" THEN <<y2, "oam">> ELSE IF m2 = "hblank" THEN <<y2, "xfer">>
              ELSE IF y2 = 0 /\ m2 = "oam" THEN <<TotalScanlines - 1, "vblank">>
              ELSE <<y2 - 1, IF y2 > VisibleScanlines THEN "vblank" ELSE "hblank">>
        BY <1>1 DEF Previous, Modes
    <2>2. CASE m \in {"oam", "xfer"}
        BY <2>1, <2>2 DEF ComesAfter
    <2>3. CASE m = "hblank"
        <3>1. y2 = y + 1 /\ ~(y2 > VisibleScanlines) /\ m2 \in {"oam", "vblank"}
            BY <2>3 DEF ComesAfter
        <3> QED BY <2>1, <2>3, <3>1
    <2>4. CASE m = "vblank" /\ y + 1 < TotalScanlines
        <3>1. y2 = y + 1 /\ y2 > VisibleScanlines /\ m2 = "vblank"
            BY <2>4 DEF ComesAfter
        <3> QED BY <2>1, <2>4, <3>1
    <2>5. CASE m = "vblank" /\ y + 1 = TotalScanlines
        <3>1. y2 = 0 /\ m2 = "oam" /\ y = TotalScanlines - 1
            BY <2>5 DEF ComesAfter
        <3> QED BY <2>1, <2>5, <3>1
    <2> QED BY <2>2, <2>3, <2>4, <2>5 DEF Modes
<1>3. ASSUME NEW p \in Passages
      PROVE  Place(p) <= Place(<<y2, m2>>) <=>
                 \/ p = <<y2, m2>>
                 \/ Place(p) <= Place(<<y, m>>) /\ ~(y # 0 /\ y2 = 0)
    <2>1. PICK x \in 0 .. TotalScanlines - 1, k \in Modes :
              p = <<x, k>> /\ (k = "vblank" <=> x >= VisibleScanlines)
        BY PassageParts
    <2>2. /\ Place(p) = IF k = "xfer" THEN 3 * x + 1 ELSE IF k = "hblank" THEN 3 * x + 2 ELSE 3 * x
          /\ Place(<<y, m>>) = IF m = "xfer" THEN 3 * y + 1
                               ELSE IF m = "hblank" THEN 3 * y + 2 ELSE 3 * y
          /\ Place(<<y2, m2>>) = IF m2 = "xfer" THEN 3 * y2 + 1
                                 ELSE IF m2 = "hblank" THEN 3 * y2 + 2 ELSE 3 * y2
        BY <1>1, <2>1, PlaceOf
    <2>3. p = <<y2, m2>> <=> x = y2 /\ k = m2
        BY <2>1
    <2> QED BY <1>1, <2>1, <2>2, <2>3 DEF ComesAfter, Modes
<1> QED BY <1>1, <1>2, <1>3

\* A dot that ends a mode begins the next one.
LEMMA DotEnters ==
    ASSUME ScanInv, Dot
    PROVE  \/ UNCHANGED <<ly, mode>>
           \/ ComesAfter(ly, mode, ly', mode') /\ dot' = 0
<1> USE DotsAssumption, ScanlinesAssumption
<1>1. CASE StayInMode
    BY <1>1 DEF StayInMode
<1>2. CASE EndOam
    BY <1>2 DEF EndOam, ComesAfter
<1>3. CASE EndXfer
    BY <1>3 DEF EndXfer, ComesAfter
<1>4. CASE EndHblank
    BY <1>4 DEF EndHblank, ComesAfter
<1>5. CASE EndVblankLine
    BY <1>5 DEF EndVblankLine, ComesAfter, ScanInv, PpuTypeOK
<1> QED BY <1>1, <1>2, <1>3, <1>4, <1>5 DEF Dot

\* Where the requests of a frame up to a place belong, for what is enabled.
Belong(n) == {<<p[1], p[2], 0>> : p \in {q \in Passages : Rises(q) /\ Place(q) <= n}}

\* The requests of the frame so far that still count when a mode begins.
LEMMA BelongNext ==
    ASSUME NEW y, NEW m, NEW y2, NEW m2, NEW n, NEW n2, NEW again \in BOOLEAN,
           <<y2, m2>> \in Passages, Previous(<<y2, m2>>) = <<y, m>>,
           \A p \in Passages : Place(p) <= n2 <=> \/ p = <<y2, m2>>
                                                  \/ Place(p) <= n /\ ~again
    PROVE  Belong(n2) = (IF again THEN {} ELSE Belong(n))
                        \union (IF Holds(<<y2, m2>>) /\ ~Holds(<<y, m>>)
                                THEN {<<y2, m2, 0>>} ELSE {})
<1>1. Rises(<<y2, m2>>) <=> Holds(<<y2, m2>>) /\ ~Holds(<<y, m>>)
    BY Zenon DEF Rises
<1> DEFINE entry == <<y2, m2>>
           In(p, k) == p \in Passages /\ Rises(p) /\ Place(p) <= k
<1>2. ASSUME NEW p PROVE In(p, n2) <=> \/ p = entry /\ Rises(entry)
                                       \/ In(p, n) /\ ~again
    BY Zenon
<1>3. ASSUME NEW k, NEW f PROVE f \in Belong(k) <=> \E p : In(p, k) /\ f = <<p[1], p[2], 0>>
    BY Zenon DEF Belong
<1>4. entry[1] = y2 /\ entry[2] = m2
    OBVIOUS
<1> HIDE DEF entry, In
<1>5. ASSUME NEW e
      PROVE  e \in Belong(n2) <=> \/ ~again /\ e \in Belong(n)
                                  \/ Rises(entry) /\ e = <<y2, m2, 0>>
    <2>1. <<entry[1], entry[2], 0>> = <<y2, m2, 0>>
        BY <1>4
    <2>2. e \in Belong(n2) <=> \E p : In(p, n2) /\ e = <<p[1], p[2], 0>>
        BY <1>3, Zenon
    <2>3. e \in Belong(n) <=> \E p : In(p, n) /\ e = <<p[1], p[2], 0>>
        BY <1>3, Zenon
    <2>4. CASE e \in Belong(n2)
        <3>1. PICK p : In(p, n2) /\ e = <<p[1], p[2], 0>>
            BY <2>2, <2>4, Zenon
        <3>2. CASE p = entry /\ Rises(entry)
            BY <2>1, <2>4, <3>1, <3>2, Zenon
        <3>3. CASE In(p, n) /\ ~again
            BY <2>3, <2>4, <3>1, <3>3, Zenon
        <3> QED BY <1>2, <3>1, <3>2, <3>3, Zenon
    <2>5. CASE ~again /\ e \in Belong(n)
        BY <1>2, <2>2, <2>3, <2>5, Zenon
    <2>6. CASE Rises(entry) /\ e = <<y2, m2, 0>>
        BY <1>2, <2>1, <2>2, <2>6, Zenon
    <2> QED BY <2>4, <2>5, <2>6, Zenon
<1>6. Rises(entry) <=> Holds(<<y2, m2>>) /\ ~Holds(<<y, m>>)
    BY <1>1 DEF entry
<1> QED BY <1>5, <1>6

\* A dot asks for what the mode it enters, if any, gives rise to.
LEMMA AsksDot ==
    ASSUME ScanInv, LineInv, StatAsksOnRises, PpuHNext, Dot, calm'
    PROVE  StatAsksOnRises'
<1>1. PICK y, m, y2, m2 : ly = y /\ mode = m /\ ly' = y2 /\ mode' = m2
    OBVIOUS
<1>2. UNCHANGED <<stat_select, lyc, lcd_on>>
    BY DEF Dot, lcdRegisters
<1>3. \A p : Holds(p)' = Holds(p)
    BY <1>2 DEF Holds
<1>4. \A n : Belong(n)' = Belong(n)
    BY <1>3, Zenon DEF Belong, Rises
<1>5. Condition = Holds(<<y, m>>) /\ Condition' = Holds(<<y2, m2>>)
    BY <1>1, <1>2 DEF Condition, Holds
<1>6. "stat" \in raised' <=> Holds(<<y2, m2>>) /\ ~Holds(<<y, m>>)
    <2>1. "stat" \in raised' <=> Condition' /\ ~(Condition /\ ~(lcd_on /\ ~lcd_on'))
        BY StepEvaluates, Zenon DEF PpuHNext
    <2> QED BY <1>2, <1>5, <2>1
<1>7. /\ ly \in 0 .. TotalScanlines - 1 /\ mode \in Modes
      /\ mode = "vblank" <=> ly >= VisibleScanlines
    BY DEF ScanInv, PpuTypeOK
<1>8. FrameBegins <=> y # 0 /\ y2 = 0
    BY <1>1 DEF FrameBegins
<1>9. asked' = (IF FrameBegins THEN {} ELSE asked)
               \union (IF "stat" \in raised' THEN {<<y2, m2, dot'>>} ELSE {})
    BY <1>1, Zenon DEF PpuHNext
<1>10. FrameBegins \/ calm
    BY Zenon DEF PpuHNext
<1>11. calm => asked = Belong(Place(<<y, m>>))
    BY <1>1, Zenon DEF StatAsksOnRises, Belong
<1>12. SUFFICES asked' = Belong(Place(<<y2, m2>>))
    BY <1>1, <1>4, Zenon DEF StatAsksOnRises, Belong
<1>13. CASE UNCHANGED <<ly, mode>>
    <2>1. y2 = y /\ m2 = m /\ ~FrameBegins
        BY <1>1, <1>8, <1>13
    <2>2. asked' = asked
        BY <1>6, <1>9, <2>1
    <2> QED BY <1>10, <1>11, <2>1, <2>2
<1>14. CASE ComesAfter(ly, mode, ly', mode') /\ dot' = 0
    <2>1. ComesAfter(y, m, y2, m2)
        BY <1>1, <1>14
    <2>2. /\ y2 \in 0 .. TotalScanlines - 1 /\ m2 \in Modes
          /\ m2 = "vblank" <=> y2 >= VisibleScanlines
          /\ Previous(<<y2, m2>>) = <<y, m>>
          /\ \A p \in Passages : Place(p) <= Place(<<y2, m2>>) <=>
                 \/ p = <<y2, m2>>
                 \/ Place(p) <= Place(<<y, m>>) /\ ~(y # 0 /\ y2 = 0)
        BY <1>1, <1>7, <2>1, NextPassage
    <2>3. <<y2, m2>> \in Passages
        BY <2>2, ScanlinesAssumption DEF Passages, Modes
    <2>4. Belong(Place(<<y2, m2>>)) =
              (IF FrameBegins THEN {} ELSE Belong(Place(<<y, m>>)))
              \union (IF Holds(<<y2, m2>>) /\ ~Holds(<<y, m>>) THEN {<<y2, m2, 0>>} ELSE {})
        <3>1. FrameBegins \in BOOLEAN
            BY Zenon DEF FrameBegins
        <3> QED BY <1>8, <2>2, <2>3, <3>1, BelongNext
    <2> QED BY <1>6, <1>9, <1>10, <1>11, <1>14, <2>4
<1> QED BY <1>13, <1>14, DotEnters

\* The steps that end no mode and write no register ask for nothing.
LEMMA AsksElse ==
    ASSUME StatAsksOnRises, PpuHNext, ~Dot, calm'
    PROVE  StatAsksOnRises'
<1>1. calm /\ ~PpuProgram /\ ~ResetPpu
    BY DEF PpuHNext, FrameBegins
<1>2. StartPpuTick \/ ClearFrameReady
    BY <1>1 DEF PpuHNext, PpuNext, PpuTick
<1>3. raised' = {} /\ UNCHANGED <<stat_select, lyc, ly, mode>>
    BY <1>2 DEF StartPpuTick, ClearFrameReady, lcdRegisters, scan
<1>4. asked' = asked
    BY <1>3 DEF PpuHNext, FrameBegins
<1> QED BY <1>1, <1>3, <1>4 DEF StatAsksOnRises, Rises, Holds

(* In a frame the program leaves alone, the STAT interrupts come at the      *)
(* first dot of exactly those modes of those lines where an enabled source   *)
(* holds and none did before, for every length of modes, lines and ticks and *)
(* whatever happened to the line in earlier frames.                          *)
THEOREM StatInterruptsOfFrame == PpuHSpec => []StatAsksOnRises
<1>1. PpuHInit => StatAsksOnRises
    BY DEF PpuHInit, StatAsksOnRises
<1>2. ScanInv /\ LineInv /\ StatAsksOnRises /\ [PpuHNext]_ppuAll => StatAsksOnRises'
    <2> SUFFICES ASSUME ScanInv, LineInv, StatAsksOnRises, [PpuHNext]_ppuAll
                 PROVE  StatAsksOnRises'
        OBVIOUS
    <2>1. CASE PpuHNext /\ calm'
        BY <2>1, AsksDot, AsksElse
    <2>2. CASE ~calm'
        BY <2>2 DEF StatAsksOnRises
    <2>3. CASE UNCHANGED ppuAll
        BY <2>3 DEF ppuAll, ppuHistVars, ppuVars, lcdRegisters, scan, StatAsksOnRises, Rises, Holds
    <2> QED BY <2>1, <2>2, <2>3
<1> QED BY <1>1, <1>2, ScanInit, ScanKept, LineInit, LineKept, PTL DEF PpuHSpec

-----------------------------------------------------------------------------
(* The PPU as the rest of the hardware sees it. *)

\* n dots fit in every mode.
Fits(n) ==
    n <= Mode2Dots /\ \A d \in Mode3Dots : n <= d /\ n <= ScanlineDots - Mode2Dots - d

\* Mode and line come right after m and y.
Follows(m, y) ==
    \/ m = "oam" /\ mode = "xfer" /\ ly = y
    \/ m = "xfer" /\ mode = "hblank" /\ ly = y
    \/ /\ m = "hblank" /\ ly = y + 1
       /\ mode = IF ly = VisibleScanlines THEN "vblank" ELSE "oam"
    \/ /\ m = "vblank" /\ ly = IF y + 1 = TotalScanlines THEN 0 ELSE y + 1
       /\ mode = IF ly = 0 THEN "oam" ELSE "vblank"

Unmoved == seen.mode = mode /\ seen.ly = ly

\* One mode has ended in this tick, so soon before that no other can.
Moved == Follows(seen.mode, seen.ly) /\ Fits(dot + left + 1)

SeenInv ==
    /\ left = 0 => Unmoved
    /\ Unmoved \/ Moved
    /\ left # 0 => lcd_on
    /\ Fits(left)

LEMMA ModeGoesOnOrEnds ==
    ASSUME ScanInv, Dot, NEW m, NEW y, mode = m, ly = y
    PROVE  \/ UNCHANGED <<mode, ly>> /\ dot' = dot + 1
           \/ dot + 1 >= ModeDots /\ dot' = 0 /\ Follows(m, y)'
<1> USE DotsAssumption, ScanlinesAssumption
<1>1. CASE StayInMode
    BY <1>1 DEF StayInMode
<1>2. CASE EndOam
    BY <1>2 DEF EndOam, Follows
<1>3. CASE EndXfer
    BY <1>3 DEF EndXfer, Follows
<1>4. CASE EndHblank
    BY <1>4 DEF EndHblank, Follows
<1>5. CASE EndVblankLine
    BY <1>5 DEF EndVblankLine, Follows, ScanInv, PpuTypeOK
<1> QED BY <1>1, <1>2, <1>3, <1>4, <1>5 DEF Dot

\* A dot leaves what was seen last the same as before, or one mode behind.
LEMMA DotOutcome ==
    ASSUME ScanInv, SeenInv, Dot, NEW m, NEW y, seen.mode = m, seen.ly = y
    PROVE  /\ (mode' = m /\ ly' = y) \/ (Follows(m, y)' /\ Fits(dot' + left' + 1))
           /\ Fits(left')
<1> USE DotsAssumption, ScanlinesAssumption
<1>1. /\ left \in Nat /\ left > 0 /\ left' = left - 1
      /\ dot \in Nat /\ mode3_dots \in Mode3Dots
    BY DEF ScanInv, PpuTypeOK, Dot
<1>2. Fits(left')
    BY <1>1 DEF SeenInv, Fits
<1>3. CASE UNCHANGED <<mode, ly>> /\ dot' = dot + 1
    <2>1. dot' + left' + 1 = dot + left + 1
        BY <1>1, <1>3
    <2> QED BY <1>2, <1>3, <2>1 DEF SeenInv, Unmoved, Moved, Follows
<1>4. CASE dot + 1 >= ModeDots /\ dot' = 0
    <2>1. ~Fits(dot + left + 1)
        BY <1>1, <1>4 DEF Fits, ModeDots, ScanInv, PpuTypeOK, Modes
    <2>2. mode = m /\ ly = y
        BY <2>1 DEF SeenInv, Moved, Unmoved
    <2>3. Fits(dot' + left' + 1)
        BY <1>1, <1>4 DEF SeenInv, Fits
    <2> QED BY <1>1, <1>2, <2>2, <2>3, ModeGoesOnOrEnds
<1> QED BY <1>3, <1>4, ModeGoesOnOrEnds

LEMMA ZeroFits == Fits(0)
BY DotsAssumption DEF Fits

LEMMA SeenInit == PpuHInit => SeenInv
BY ZeroFits DEF PpuHInit, PpuInit, SeenInv, Unmoved

LEMMA SeenKept == ScanInv /\ SeenInv /\ [PpuHNext]_ppuAll => SeenInv'
<1> SUFFICES ASSUME ScanInv, SeenInv, [PpuHNext]_ppuAll PROVE SeenInv'
    OBVIOUS
<1>1. CASE PpuHNext /\ Dot
    <2>1. PICK m, y : seen.mode = m /\ seen.ly = y
        OBVIOUS
    <2>2. /\ (mode' = m /\ ly' = y) \/ (Follows(m, y)' /\ Fits(dot' + left' + 1))
          /\ Fits(left')
        BY <1>1, <2>1, DotOutcome
    <2>3. lcd_on' = lcd_on /\ left # 0
        BY <1>1 DEF Dot, lcdRegisters, ScanInv, PpuTypeOK
    <2>4. CASE left' = 0
        BY <1>1, <2>2, <2>3, <2>4 DEF PpuHNext, SeenInv, Unmoved
    <2>5. CASE left' # 0
        <3>1. seen' = seen
            BY <1>1, <2>5 DEF PpuHNext
        <3> QED BY <2>1, <2>2, <2>3, <2>5, <3>1 DEF SeenInv, Unmoved, Moved, Follows
    <2> QED BY <2>4, <2>5
<1>2. CASE PpuHNext /\ StartPpuTick
    <2>1. /\ left = 0 /\ lcd_on /\ lcd_on' = lcd_on /\ mode' = mode /\ ly' = ly
          /\ left' \in TickDots
        BY <1>2 DEF StartPpuTick, lcdRegisters, scan
    <2>2. left' # 0 /\ Fits(left')
        BY <2>1, TickAssumption DEF Fits
    <2>3. seen' = seen
        BY <1>2, <2>2 DEF PpuHNext
    <2> QED BY <2>1, <2>2, <2>3 DEF SeenInv, Unmoved
<1>3. CASE PpuHNext /\ (PpuProgram \/ ClearFrameReady \/ ResetPpu)
    <2>1. left' = 0
        BY <1>3 DEF PpuProgram, SwitchOn, SwitchOff, WriteStat, WriteLyc, ClearFrameReady, ResetPpu
    <2>2. Unmoved'
        BY <1>3, <2>1 DEF PpuHNext, Unmoved
    <2> QED BY <2>1, <2>2, ZeroFits DEF SeenInv, Fits
<1>4. CASE UNCHANGED ppuAll
    BY <1>4 DEF ppuAll, ppuHistVars, ppuVars, lcdRegisters, scan, SeenInv, Unmoved, Moved, Follows, Fits
<1> QED BY <1>1, <1>2, <1>3, <1>4 DEF PpuHNext, PpuNext, PpuTick

\* Every step is one of PpuModes, or changes nothing it shows.
LEMMA StepSeen ==
    ASSUME ScanInv, SeenInv, PpuHNext
    PROVE  [Lcd!Next]_(Lcd!modeVars)
<1>1. CASE Dot
    <2>1. PICK m, y : seen.mode = m /\ seen.ly = y
        OBVIOUS
    <2>2. (mode' = m /\ ly' = y) \/ Follows(m, y)'
        BY <1>1, <2>1, DotOutcome
    <2>3. lcd_on /\ lcd_on' = lcd_on
        BY <1>1 DEF Dot, lcdRegisters, ScanInv, SeenInv, PpuTypeOK
    <2>4. CASE left' = 0
        <3>1. seen'.mode = mode' /\ seen'.ly = ly'
            BY <2>4 DEF PpuHNext
        <3>2. Lcd!Tick
            BY <2>1, <2>2, <2>3, <3>1 DEF Lcd!Tick, Lcd!NextLine, Follows
        <3> QED BY <3>2 DEF Lcd!Next
    <2>5. CASE left' # 0
        BY <2>3, <2>5 DEF PpuHNext, Lcd!modeVars
    <2> QED BY <2>4, <2>5
<1>2. CASE StartPpuTick
    <2>1. left = 0 /\ UNCHANGED <<lcd_on, mode, ly>>
        BY <1>2 DEF StartPpuTick, lcdRegisters, scan
    <2> QED BY <2>1 DEF PpuHNext, SeenInv, Unmoved, Lcd!modeVars
<1>3. CASE WriteStat \/ WriteLyc \/ ClearFrameReady
    <2>1. left = 0 /\ left' = 0 /\ UNCHANGED <<lcd_on, mode, ly>>
        BY <1>3 DEF WriteStat, WriteLyc, ClearFrameReady, lcdRegisters, scan
    <2> QED BY <2>1 DEF PpuHNext, SeenInv, Unmoved, Lcd!modeVars
<1>4. CASE SwitchOn \/ SwitchOff
    <2>1. left' = 0 /\ ly' = 0
        BY <1>4 DEF SwitchOn, SwitchOff
    <2>2. lcd_on' = ~lcd_on
        BY <1>4, Zenon DEF SwitchOn, SwitchOff
    <2>3. mode' = IF lcd_on THEN "hblank" ELSE "oam"
        BY <1>4 DEF SwitchOn, SwitchOff
    <2>4. seen'.mode = mode' /\ seen'.ly = ly'
        BY <2>1 DEF PpuHNext
    <2> QED BY <2>1, <2>2, <2>3, <2>4 DEF Lcd!Next, Lcd!SwitchLcd
<1>5. CASE ResetPpu
    <2>1. left' = 0 /\ ly' = 0 /\ mode' = "oam" /\ lcd_on' = TRUE
        BY <1>5 DEF ResetPpu
    <2>2. seen'.mode = mode' /\ seen'.ly = ly'
        BY <2>1 DEF PpuHNext
    <2> QED BY <2>1, <2>2 DEF Lcd!Next, Lcd!Reset
<1> QED BY <1>1, <1>2, <1>3, <1>4, <1>5 DEF PpuHNext, PpuNext, PpuTick, PpuProgram

(* The mode machine implements the one HBlank DMA is modelled on: between    *)
(* two ticks no mode and no line is skipped, for any lengths of modes and    *)
(* ticks of which no mode fits in a tick.                                    *)
THEOREM ShowsPpuModes == PpuHSpec => IsPpuModes
<1>1. PpuHInit => Lcd!Init
    BY DEF PpuHInit, PpuInit, Lcd!Init
<1>2. ScanInv /\ SeenInv /\ [PpuHNext]_ppuAll => [Lcd!Next]_(Lcd!modeVars)
    <2> SUFFICES ASSUME ScanInv, SeenInv, [PpuHNext]_ppuAll
                 PROVE  [Lcd!Next]_(Lcd!modeVars)
        OBVIOUS
    <2>1. CASE PpuHNext
        BY <2>1, StepSeen
    <2>2. CASE UNCHANGED ppuAll
        BY <2>2 DEF ppuAll, ppuHistVars, ppuVars, lcdRegisters, Lcd!modeVars
    <2> QED BY <2>1, <2>2
<1> QED BY <1>1, <1>2, ScanInit, ScanKept, SeenInit, SeenKept, PTL
    DEF PpuHSpec, IsPpuModes, Lcd!Spec
=============================================================================
