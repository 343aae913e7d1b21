------------------------------ MODULE PpuModes ------------------------------
(* The PPU as the rest of the hardware sees it: the mode and the line at the *)
(* end of each hardware tick, with modes of any length.  A tick is never so  *)
(* long that a whole mode fits in it.                                        *)
EXTENDS Naturals

CONSTANTS VisibleLines, TotalLines

VARIABLES lcdOn, mode, ly

modeVars == <<lcdOn, mode, ly>>

Modes == {"oam", "xfer", "hblank", "vblank"}

Init == lcdOn = TRUE /\ mode = "oam" /\ ly = 0

NextLine == IF ly + 1 = TotalLines THEN 0 ELSE ly + 1

Tick ==
    /\ UNCHANGED lcdOn
    /\ \/ UNCHANGED <<mode, ly>>
       \/ lcdOn /\ mode = "oam" /\ mode' = "xfer" /\ UNCHANGED ly
       \/ lcdOn /\ mode = "xfer" /\ mode' = "hblank" /\ UNCHANGED ly
       \/ /\ lcdOn /\ mode = "hblank"
          /\ ly' = ly + 1 /\ mode' = IF ly' = VisibleLines THEN "vblank" ELSE "oam"
       \/ /\ lcdOn /\ mode = "vblank"
          /\ ly' = NextLine /\ mode' = IF ly' = 0 THEN "oam" ELSE "vblank"

\* write_lcdc: the LCD off shows HBlank at line 0.
SwitchLcd ==
    /\ lcdOn' = ~lcdOn
    /\ mode' = IF lcdOn THEN "hblank" ELSE "oam"
    /\ ly' = 0

Reset == lcdOn' = TRUE /\ mode' = "oam" /\ ly' = 0

Next == Tick \/ SwitchLcd \/ Reset

Spec == Init /\ [][Next]_modeVars
=============================================================================
