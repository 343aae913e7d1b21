-------------------------------- MODULE Ppu --------------------------------
(* The mode machine of the PPU (ppu/gb_ppu.c): modes, lines and frames dot   *)
(* by dot, the STAT interrupt line with the register writes that move it,    *)
(* and the LCD switch.  What is drawn is left out, except that drawing a     *)
(* line decides how long mode 3 takes and whether the window moves on.       *)
EXTENDS Naturals

CONSTANTS
    Mode2Dots,         \* GB_PPU_MODE2_DOTS
    Mode3Dots,         \* the lengths calculate_mode3_dots may return
    ScanlineDots,      \* GB_PPU_SCANLINE_DOTS
    VisibleScanlines,  \* GB_PPU_VISIBLE_SCANLINES
    TotalScanlines,    \* GB_PPU_TOTAL_SCANLINES
    TickDots           \* the ticks the hardware gives: 4 dots, or 2 in double speed

ASSUME DotsAssumption ==
    /\ Mode2Dots \in Nat \ {0} /\ ScanlineDots \in Nat
    /\ Mode3Dots # {} /\ Mode3Dots \subseteq Nat \ {0}
    /\ \A d \in Mode3Dots : Mode2Dots + d < ScanlineDots
ASSUME ScanlinesAssumption ==
    /\ VisibleScanlines \in Nat \ {0} /\ TotalScanlines \in Nat
    /\ VisibleScanlines < TotalScanlines
\* No mode fits in a tick.
ASSUME TickAssumption ==
    /\ TickDots \subseteq Nat \ {0}
    /\ \A t \in TickDots :
          /\ t <= Mode2Dots
          /\ \A d \in Mode3Dots : t <= d /\ t <= ScanlineDots - Mode2Dots - d

VARIABLES
    lcd_on,         \* bit 7 of LCDC
    stat_select,    \* the sources of the STAT line the program has enabled
    ly, lyc, mode,
    dot,            \* dots spent in this mode, or in this line of VBlank
    mode3_dots, window_line, stat_irq_line, frame_ready,
    left,           \* dots left in the tick
    raised          \* what the last step requested: "vblank", "stat"

lcdRegisters == <<lcd_on, stat_select, lyc>>
scan == <<ly, mode, dot, mode3_dots, window_line>>
ppuVars == <<lcdRegisters, scan, stat_irq_line, frame_ready, left, raised>>

Modes == {"oam", "xfer", "hblank", "vblank"}
StatSources == {"hblank", "vblank", "oam", "lyc"}

-----------------------------------------------------------------------------
(* The STAT line. *)

\* stat_irq_condition: the mode is among the enabled sources, or LY = LYC is.
Condition == mode \in stat_select \/ ("lyc" \in stat_select /\ ly = lyc)

\* Mutant: a mode that is entered asks again although the line is high.
UpdateStatIrqLineUnblocked(before, requests) ==
    /\ stat_irq_line' = Condition'
    /\ raised' = requests \union (IF Condition' /\ ~(before /\ mode' = mode) THEN {"stat"} ELSE {})

\* update_stat_irq_line: a rise of the line requests an interrupt.
UpdateStatIrqLine(before, requests) ==
    /\ stat_irq_line' = Condition'
    /\ raised' = requests \union (IF Condition' /\ ~before THEN {"stat"} ELSE {})

-----------------------------------------------------------------------------
(* Time. *)

\* Mutant: HBlank has one length.
ModeDotsFixedHblank ==
    CASE mode = "oam" -> Mode2Dots
      [] mode = "xfer" -> mode3_dots
      [] mode = "hblank" -> ScanlineDots - Mode2Dots - CHOOSE d \in Mode3Dots : TRUE
      [] mode = "vblank" -> ScanlineDots

ModeDots ==
    CASE mode = "oam" -> Mode2Dots
      [] mode = "xfer" -> mode3_dots
      [] mode = "hblank" -> ScanlineDots - Mode2Dots - mode3_dots
      [] mode = "vblank" -> ScanlineDots

StartPpuTick ==
    /\ left = 0 /\ lcd_on
    /\ left' \in TickDots
    /\ raised' = {}
    /\ UNCHANGED <<lcdRegisters, scan, stat_irq_line, frame_ready>>

\* One dot in which the mode goes on.
StayInMode ==
    /\ dot + 1 < ModeDots
    /\ dot' = dot + 1
    /\ UNCHANGED <<ly, mode, mode3_dots, window_line, frame_ready>>
    /\ UpdateStatIrqLine(stat_irq_line, {})

\* The line is drawn as mode 2 ends; the registers of the moment decide
\* whether the window shows on it (render_scanline) and how long mode 3 is.
EndOam ==
    /\ mode = "oam" /\ dot + 1 >= ModeDots
    /\ dot' = 0 /\ mode' = "xfer"
    /\ mode3_dots' \in Mode3Dots
    /\ window_line' \in {window_line, window_line + 1}
    /\ UNCHANGED <<ly, frame_ready>>
    /\ UpdateStatIrqLine(stat_irq_line, {})

EndXfer ==
    /\ mode = "xfer" /\ dot + 1 >= ModeDots
    /\ dot' = 0 /\ mode' = "hblank"
    /\ UNCHANGED <<ly, mode3_dots, window_line, frame_ready>>
    /\ UpdateStatIrqLine(stat_irq_line, {})

\* The next visible line, or VBlank.
EndHblank ==
    /\ mode = "hblank" /\ dot + 1 >= ModeDots
    /\ dot' = 0 /\ ly' = ly + 1
    /\ UNCHANGED <<mode3_dots, window_line>>
    /\ IF ly' = VisibleScanlines
       THEN /\ mode' = "vblank" /\ frame_ready' = TRUE
            /\ UpdateStatIrqLine(stat_irq_line, {"vblank"})
       ELSE /\ mode' = "oam" /\ UNCHANGED frame_ready
            /\ UpdateStatIrqLine(stat_irq_line, {})

\* The next line of VBlank, or the next frame.
EndVblankLine ==
    /\ mode = "vblank" /\ dot + 1 >= ModeDots
    /\ dot' = 0
    /\ IF ly + 1 >= TotalScanlines
       THEN ly' = 0 /\ mode' = "oam" /\ window_line' = 0
       ELSE ly' = ly + 1 /\ UNCHANGED <<mode, window_line>>
    /\ UNCHANGED <<mode3_dots, frame_ready>>
    /\ UpdateStatIrqLine(stat_irq_line, {})

\* One round of the loop of gb_ppu_tick.
Dot ==
    /\ left > 0 /\ left' = left - 1
    /\ UNCHANGED lcdRegisters
    /\ StayInMode \/ EndOam \/ EndXfer \/ EndHblank \/ EndVblankLine

-----------------------------------------------------------------------------
(* Register writes, between ticks. *)

\* write_lcdc: the frame starts over.  (A write that leaves bit 7 alone moves
\* nothing here.)
SwitchOn ==
    /\ left = 0 /\ ~lcd_on
    /\ lcd_on' = TRUE
    /\ ly' = 0 /\ dot' = 0 /\ window_line' = 0
    /\ mode' = "oam" /\ frame_ready' = FALSE
    /\ UNCHANGED <<stat_select, lyc, mode3_dots, left>>
    /\ UpdateStatIrqLine(stat_irq_line, {})

\* Mutant: the scan position stays where it is.
SwitchOffKeepsScan ==
    /\ left = 0 /\ lcd_on
    /\ lcd_on' = FALSE
    /\ mode' = "hblank"
    /\ UNCHANGED <<stat_select, lyc, ly, dot, window_line, mode3_dots, frame_ready, left>>
    /\ UpdateStatIrqLine(FALSE, {})

\* write_lcdc: HBlank at line 0; the line is low before it is evaluated again.
SwitchOff ==
    /\ left = 0 /\ lcd_on
    /\ lcd_on' = FALSE
    /\ ly' = 0 /\ dot' = 0 /\ window_line' = 0
    /\ mode' = "hblank"
    /\ UNCHANGED <<stat_select, lyc, mode3_dots, frame_ready, left>>
    /\ UpdateStatIrqLine(FALSE, {})

WriteStat ==
    /\ left = 0
    /\ stat_select' \in SUBSET StatSources
    /\ UNCHANGED <<lcd_on, lyc, scan, frame_ready, left>>
    /\ UpdateStatIrqLine(stat_irq_line, {})

\* Any value above the last line stands for all of them.
WriteLyc ==
    /\ left = 0
    /\ lyc' \in 0 .. TotalScanlines
    /\ UNCHANGED <<lcd_on, stat_select, scan, frame_ready, left>>
    /\ UpdateStatIrqLine(stat_irq_line, {})

\* The host has taken the frame.
ClearFrameReady ==
    /\ left = 0 /\ frame_ready
    /\ frame_ready' = FALSE
    /\ raised' = {}
    /\ UNCHANGED <<lcdRegisters, scan, stat_irq_line, left>>

\* gb_ppu_reset leaves the LCD on at the start of a frame.
ResetPpu ==
    /\ left = 0
    /\ lcd_on' = TRUE /\ stat_select' = {} /\ lyc' = 0
    /\ ly' = 0 /\ mode' = "oam" /\ dot' = 0 /\ window_line' = 0
    /\ mode3_dots' \in {d \in Mode3Dots : \A e \in Mode3Dots : d <= e}
    /\ frame_ready' = FALSE
    /\ UNCHANGED left
    /\ UpdateStatIrqLine(FALSE, {})

\* The state gb_ppu_init ends in, with gb_ppu_reset.
PpuInit ==
    /\ lcd_on = TRUE /\ stat_select = {} /\ lyc = 0
    /\ ly = 0 /\ mode = "oam" /\ dot = 0 /\ window_line = 0
    /\ mode3_dots \in {d \in Mode3Dots : \A e \in Mode3Dots : d <= e}
    /\ stat_irq_line = FALSE /\ frame_ready = FALSE
    /\ left = 0 /\ raised = {}

PpuTick == StartPpuTick \/ Dot
PpuProgram == SwitchOn \/ SwitchOff \/ WriteStat \/ WriteLyc
PpuNext == PpuTick \/ PpuProgram \/ ClearFrameReady \/ ResetPpu

PpuSpec == PpuInit /\ [][PpuNext]_ppuVars

-----------------------------------------------------------------------------
(* The types, with what only the right resets keep: the window has moved at  *)
(* most once for each visible line since the frame began.                    *)
PpuTypeOK ==
    /\ lcd_on \in BOOLEAN /\ stat_select \subseteq StatSources
    /\ ly \in 0 .. TotalScanlines - 1 /\ lyc \in 0 .. TotalScanlines
    /\ mode \in Modes /\ dot \in 0 .. ScanlineDots - 1
    /\ mode3_dots \in Mode3Dots
    /\ window_line \in 0 .. VisibleScanlines
    /\ stat_irq_line \in BOOLEAN /\ frame_ready \in BOOLEAN
    /\ left \in Nat /\ raised \subseteq {"vblank", "stat"}

(* A STAT interrupt is requested exactly when the condition of the line      *)
(* becomes true, by time or by a write, so a condition that holds on blocks  *)
(* the others (update_stat_irq_line); switching the LCD off starts from a    *)
(* low line, so there the condition alone decides.                           *)
StatOnRise ==
    [][LET before == Condition /\ ~(lcd_on /\ ~lcd_on')
       IN  "stat" \in raised' <=> Condition' /\ ~before]_ppuVars
=============================================================================
