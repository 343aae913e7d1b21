----------------------------- MODULE ApuHistory -----------------------------
(* Apu with history variables that follow the length counter of one channel, *)
(* from the write that sets it running until a write changes or stops it.    *)
EXTENDS Apu

CONSTANT who   \* the channel followed

ASSUME WhoAssumption == who \in Channels

VARIABLES
    note,    \* the length its counter began with; 0 when it does not run
    heard    \* clocks of the frame sequencer until it ran out

apuAll == <<apuVars, note, heard>>

ApuHInit == ApuInit /\ note = 0 /\ heard = 0

Runs(r) == r.length_enabled /\ r.length > 0

ApuHNext ==
    LET old == chan[who]
        new == chan'[who]
    IN
    \/ /\ Clocks
       /\ heard' = IF note > 0 /\ Runs(old) /\ frame_step' # frame_step
                   THEN heard + 1 ELSE heard
       /\ UNCHANGED note
    \/ /\ Writes \/ Reset
       /\ note' = IF ~Runs(new) THEN 0
                  ELSE IF note = 0 \/ new.length # old.length THEN new.length
                  ELSE note
       /\ heard' = IF Runs(new) /\ note > 0 /\ new.length = old.length THEN heard ELSE 0

ApuHSpec == ApuHInit /\ [][ApuHNext]_apuAll

-----------------------------------------------------------------------------
(* A length of L, once running, runs out on the (2L-1)th or the 2L-th clock  *)
(* of the frame sequencer, by the phase in which it began, and silences its  *)
(* channel then; a trigger on the way does not prolong it ("256 Hz length    *)
(* clocks" out of 512, README.md:379-380).                                   *)
NoteLasts ==
    note > 0 =>
        IF chan[who].length > 0 THEN heard < 2 * note
        ELSE heard \in {2 * note - 1, 2 * note} /\ ~chan[who].active
=============================================================================
