----------------------------- MODULE PpuHistory -----------------------------
(* Ppu with history variables that measure time, the properties that relate  *)
(* the scan position and the interrupts to the time that has passed, and the *)
(* PPU as the rest of the hardware sees it, which Ppu implements.            *)
EXTENDS Ppu

VARIABLES
    frameAge, \* dots since a frame of the running LCD should have begun
    seen,     \* mode and line at the end of the last tick or write
    calm,     \* the program has written nothing since the frame began
    asked     \* where in such a frame STAT interrupts were requested

ppuHistVars == <<frameAge, seen, calm, asked>>
ppuAll == <<ppuVars, ppuHistVars>>

FrameDots == TotalScanlines * ScanlineDots

PpuHInit ==
    /\ PpuInit
    /\ frameAge = 0
    /\ seen = [mode |-> mode, ly |-> ly]
    /\ calm = FALSE /\ asked = {}

\* A frame begins in the course of a tick.
FrameBegins == Dot /\ ly # 0 /\ ly' = 0

PpuHNext ==
    /\ PpuNext
    /\ frameAge' = IF ~lcd_on' \/ ~lcd_on \/ ResetPpu THEN 0
                   ELSE IF ~Dot THEN frameAge
                   ELSE IF frameAge + 1 = FrameDots THEN 0 ELSE frameAge + 1
    /\ seen' = IF left' = 0 THEN [mode |-> mode', ly |-> ly'] ELSE seen
    /\ calm' = (FrameBegins \/ (calm /\ ~(PpuProgram \/ ResetPpu)))
    /\ asked' = IF ~calm' THEN {}
                ELSE (IF FrameBegins THEN {} ELSE asked)
                     \union (IF "stat" \in raised' THEN {<<ly', mode', dot'>>} ELSE {})

PpuHSpec == PpuHInit /\ [][PpuHNext]_ppuAll

\* Dots spent in this line.
LineDots ==
    dot + (CASE mode = "oam" -> 0
             [] mode = "xfer" -> Mode2Dots
             [] mode = "hblank" -> Mode2Dots + mode3_dots
             [] mode = "vblank" -> 0)

-----------------------------------------------------------------------------
(* Lines and frames start on time: while the LCD is on, line and dot are the *)
(* dots since it was switched on, whatever mode 3 takes on each line and     *)
(* whatever the program writes, so a frame is TotalScanlines * ScanlineDots  *)
(* long and VBlank begins at the same dot of each (gb_ppu_tick).             *)
OnSchedule == lcd_on => frameAge = ly * ScanlineDots + LineDots

\* The modes of a frame, line by line, and where each stands in it.
Passages ==
    ((0 .. VisibleScanlines - 1) \X {"oam", "xfer", "hblank"})
    \union ((VisibleScanlines .. TotalScanlines - 1) \X {"vblank"})
Place(p) ==
    3 * p[1] + CASE p[2] = "xfer" -> 1 [] p[2] = "hblank" -> 2 [] OTHER -> 0
Previous(p) ==
    CASE p[2] = "xfer" -> <<p[1], "oam">>
      [] p[2] = "hblank" -> <<p[1], "xfer">>
      [] p = <<0, "oam">> -> <<TotalScanlines - 1, "vblank">>
      [] OTHER -> <<p[1] - 1, IF p[1] > VisibleScanlines THEN "vblank" ELSE "hblank">>

\* An enabled source holds there.
Holds(p) == p[2] \in stat_select \/ ("lyc" \in stat_select /\ p[1] = lyc)
Rises(p) == Holds(p) /\ ~Holds(Previous(p))

(* In a frame the program leaves alone, the STAT interrupts come at the      *)
(* first dot of exactly those modes of those lines where an enabled source   *)
(* holds and none did in the mode before: none is late, missing or requested *)
(* twice, a source that holds blocks the others, and what writes or the LCD  *)
(* switch did to the line in earlier frames leaves nothing behind            *)
(* (update_stat_irq_line, called by every dot).                              *)
StatAsksOnRises ==
    calm => asked = {<<p[1], p[2], 0>> : p \in
        {q \in Passages : Rises(q) /\ Place(q) <= Place(<<ly, mode>>)}}

(* What the CGB unit sees at the end of each tick is PpuModes: no mode and   *)
(* no line is skipped between two ticks, so HBlank DMA misses none.          *)
Lcd == INSTANCE PpuModes WITH
    VisibleLines <- VisibleScanlines, TotalLines <- TotalScanlines,
    lcdOn <- lcd_on, mode <- seen.mode, ly <- seen.ly
IsPpuModes == Lcd!Spec
=============================================================================
